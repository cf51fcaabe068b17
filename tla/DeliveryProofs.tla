--------------------------- MODULE DeliveryProofs ---------------------------
(***************************************************************************)
(* Proofs about what leaves the process.                                   *)
(*                                                                         *)
(* SendQueue, for every set of replies, every queue size and every attempt *)
(* limit: its types, the bound on attempts, the completeness of a graceful *)
(* stop, the count of what was dropped, the order of first tries, and that *)
(* it implements Outbox, its abstract specification.                       *)
(*                                                                         *)
(* Stickers, for every set of ids, files and requests and every limit: its *)
(* types, that entries keep their files, that the cache shows what was     *)
(* picked, and that no fallback sends a second copy.                       *)
(*                                                                         *)
(* Turn, for every set of answers, every cutting into pieces and every     *)
(* limit: that a stream shows what the parser of whole texts makes of it,  *)
(* sends each part once, that an answer is never silently empty, and that  *)
(* messages hold the text.  The definitions of Markers are recursive:      *)
(* their functions are shown to exist, and what they compute is shown by   *)
(* taking the smallest counterexample, before Turn itself is reached.      *)
(***************************************************************************)
EXTENDS SendQueue, Stickers, Turn, SequenceTheorems, FiniteSetTheorems, WellFoundedInduction, TLAPS

-----------------------------------------------------------------------------
(* The queue. *)

\* The steps of the specification, by name.
LEMMA StepCases ==
  ASSUME [Next]_vars
  PROVE  \/ \E r \in Replies : Enqueue(r)
         \/ Take \/ DeliverOk \/ GiveUp \/ Retry \/ StartDrain \/ WorkerExit
         \/ StopSender \/ Exit \/ UNCHANGED vars
BY DEF Next, Ended

\* The message of an entry is a message.
LEMMA EntryMsg ==
  ASSUME NEW e \in Entry
  PROVE  e.msg \in Msgs /\ e.attempts \in 0..MaxAttempts
BY DEF Entry

\* TryPut keeps the channel a bounded sequence of entries.
LEMMA TryPutType ==
  ASSUME queue \in Seq(Entry), Len(queue) <= QueueSize, sendDropped \in Nat,
         NEW e \in Entry, TryPut(e)
  PROVE  queue' \in Seq(Entry) /\ Len(queue') <= QueueSize /\ sendDropped' \in Nat
<1>1. CASE Len(queue) < QueueSize /\ queue' = Append(queue, e) /\ UNCHANGED sendDropped
  BY <1>1, SendQueueAssumption
<1>2. CASE sendDropped' = sendDropped + 1 /\ UNCHANGED queue
  BY <1>2
<1>. QED BY <1>1, <1>2 DEF TryPut

\* Every variable keeps its type and the channel its capacity, on every step.
LEMMA TypeStep == TypeOK /\ [Next]_vars => TypeOK'
<1>. SUFFICES ASSUME TypeOK, [Next]_vars PROVE TypeOK'
  OBVIOUS
<1>. USE SendQueueAssumption
<1>1. ASSUME NEW r \in Replies, Enqueue(r) PROVE TypeOK'
  <2>1. next[r] \in 0..Parts /\ next[r] < Parts
    BY <1>1 DEF TypeOK, Enqueue
  <2>2. [msg |-> <<r, next[r] + 1>>, attempts |-> 0] \in Entry
    BY <2>1 DEF Entry, Msgs
  <2>3. queue' \in Seq(Entry) /\ Len(queue') <= QueueSize /\ sendDropped' \in Nat
    BY <2>2, <1>1, TryPutType DEF TypeOK, Enqueue
  <2>4. next' \in [Replies -> 0..Parts]
    BY <2>1, <1>1 DEF TypeOK, Enqueue
  <2>. QED BY <2>3, <2>4, <1>1 DEF TypeOK, Enqueue
<1>2. CASE Take
  <2>1. queue \in Seq(Entry) /\ queue # <<>>
    BY <1>2 DEF TypeOK, Take
  <2>2. Head(queue) \in Entry /\ Tail(queue) \in Seq(Entry) /\ Len(Tail(queue)) = Len(queue) - 1
    BY <2>1, HeadTailProperties
  <2>. QED BY <2>1, <2>2, <1>2 DEF TypeOK, Take
<1>3. CASE DeliverOk
  <2>1. hand.msg \in Msgs
    BY <1>3, EntryMsg DEF TypeOK, DeliverOk
  <2>. QED BY <2>1, <1>3 DEF TypeOK, DeliverOk
<1>4. CASE GiveUp
  <2>1. hand.msg \in Msgs
    BY <1>4, EntryMsg DEF TypeOK, GiveUp
  <2>. QED BY <2>1, <1>4 DEF TypeOK, GiveUp
<1>5. CASE Retry
  <2>1. hand \in Entry /\ hand.msg \in Msgs /\ hand.attempts \in 0..MaxAttempts
    BY <1>5, EntryMsg DEF TypeOK, Retry
  <2>2. [hand EXCEPT !.attempts = @ + 1] \in Entry
    BY <2>1, <1>5 DEF Entry, Retry
  <2>3. queue' \in Seq(Entry) /\ Len(queue') <= QueueSize /\ sendDropped' \in Nat
    BY <2>2, <1>5, TryPutType DEF TypeOK, Retry
  <2>. QED BY <2>1, <2>3, <1>5 DEF TypeOK, Retry
<1>6. CASE StopSender
  BY <1>6 DEF TypeOK, StopSender, Offered
<1>7. CASE StartDrain \/ WorkerExit \/ Exit \/ UNCHANGED vars
  BY <1>7 DEF TypeOK, StartDrain, WorkerExit, Exit, vars
<1>. QED BY StepCases, <1>1, <1>2, <1>3, <1>4, <1>5, <1>6, <1>7

\* The initial state has the types.
LEMMA TypeInit == Init => TypeOK
<1>. SUFFICES ASSUME Init PROVE TypeOK
  OBVIOUS
<1>1. <<>> \in Seq(Entry) /\ Len(<<>>) = 0
  BY EmptySeq
<1>2. queue \in Seq(Entry)
  BY <1>1 DEF Init
<1>3. Len(queue) <= QueueSize
  BY <1>1, SendQueueAssumption DEF Init
<1>4. next \in [Replies -> 0..Parts]
  BY SendQueueAssumption DEF Init
<1>5. tries \in [Msgs -> Nat]
  BY DEF Init
<1>. QED BY <1>2, <1>3, <1>4, <1>5 DEF Init, TypeOK

\* Every variable always has its type; in particular the channel never holds
\* more than QueueSize messages (sendQueueSize, sender.go:29).
THEOREM TypeCorrect == Spec => []TypeOK
<1>. QED BY TypeInit, TypeStep, PTL DEF Spec

-----------------------------------------------------------------------------
\* What TryPut does to the channel, element by element.
LEMMA TryPutEffect ==
  ASSUME queue \in Seq(Entry), NEW e \in Entry, TryPut(e)
  PROVE  \/ /\ Len(queue') = Len(queue) + 1
            /\ \A i \in 1..Len(queue) : queue'[i] = queue[i]
            /\ queue'[Len(queue) + 1] = e
            /\ InQueue' = InQueue \cup {e.msg}
            /\ sendDropped' = sendDropped
         \/ /\ UNCHANGED queue
            /\ sendDropped' = sendDropped + 1
<1>1. CASE queue' = Append(queue, e) /\ sendDropped' = sendDropped
  <2>1. /\ Len(queue') = Len(queue) + 1
        /\ \A i \in 1..Len(queue) : queue'[i] = queue[i]
        /\ queue'[Len(queue) + 1] = e
        /\ Len(queue) \in Nat
    BY <1>1, LenProperties, AppendProperties
  <2>2. InQueue' = InQueue \cup {e.msg}
    BY <2>1 DEF InQueue
  <2>. QED BY <2>1, <2>2, <1>1
<1>2. CASE UNCHANGED queue /\ sendDropped' = sendDropped + 1
  BY <1>2
<1>. QED BY <1>1, <1>2 DEF TryPut

\* What receiving does: the head moves to the hand, the rest moves up by one.
LEMMA TakeEffect ==
  ASSUME queue \in Seq(Entry), Take
  PROVE  /\ Len(queue) \in Nat \ {0}
         /\ Len(queue') = Len(queue) - 1
         /\ \A i \in 1..Len(queue') : queue'[i] = queue[i + 1]
         /\ hand' = queue[1] /\ hand' \in Entry
         /\ InQueue = InQueue' \cup {hand'.msg}
<1>1. /\ Len(queue) \in Nat \ {0}
      /\ Len(queue') = Len(queue) - 1
      /\ \A i \in 1..Len(queue') : queue'[i] = queue[i + 1]
      /\ hand' = queue[1] /\ hand' \in Entry
  BY HeadTailProperties, EmptySeq, LenProperties DEF Take
<1>2. InQueue \subseteq InQueue' \cup {hand'.msg}
  <2>. SUFFICES ASSUME NEW i \in 1..Len(queue) PROVE queue[i].msg \in InQueue' \cup {hand'.msg}
    BY DEF InQueue
  <2>1. CASE i = 1 BY <2>1, <1>1
  <2>2. CASE i # 1
    <3>1. i - 1 \in 1..Len(queue') /\ queue'[i - 1] = queue[i]
      BY <1>1, <2>2
    <3>. QED BY <3>1 DEF InQueue
  <2>. QED BY <2>1, <2>2
<1>3. InQueue' \cup {hand'.msg} \subseteq InQueue
  BY <1>1 DEF InQueue
<1>. QED BY <1>1, <1>2, <1>3

\* Handing over the next part of a reply adds exactly that message.
LEMMA EnqueueOffers ==
  ASSUME TypeOK, NEW r \in Replies, Enqueue(r)
  PROVE  LET m == <<r, next[r] + 1>>
         IN  /\ m \in Msgs /\ m \notin Offered
             /\ Offered' = Offered \cup {m}
             /\ [msg |-> m, attempts |-> 0] \in Entry
<1>1. next[r] \in 0..Parts /\ next[r] < Parts /\ next' = [next EXCEPT ![r] = @ + 1]
  BY DEF TypeOK, Enqueue
<1>2. <<r, next[r] + 1>> \in Msgs
  BY <1>1, SendQueueAssumption DEF Msgs
<1>3. [msg |-> <<r, next[r] + 1>>, attempts |-> 0] \in Entry
  BY <1>2, SendQueueAssumption DEF Entry
<1>4. ASSUME NEW m \in Msgs
      PROVE  m \in Offered' <=> m \in Offered \/ m = <<r, next[r] + 1>>
  <2>1. PICK q \in Replies, i \in 1..Parts : m = <<q, i>>
    BY DEF Msgs
  <2>2. m[1] = q /\ m[2] = i /\ next[q] \in 0..Parts
    BY <2>1 DEF TypeOK
  <2>3. CASE q = r
    <3>1. next'[q] = next[r] + 1
      BY <2>3, <1>1 DEF TypeOK
    <3>. QED BY <3>1, <2>1, <2>2, <2>3, <1>1 DEF Offered
  <2>4. CASE q # r
    <3>1. next'[q] = next[q]
      BY <2>4, <1>1 DEF TypeOK
    <3>. QED BY <3>1, <2>1, <2>2, <2>4, <1>1 DEF Offered
  <2>. QED BY <2>3, <2>4
<1>5. <<r, next[r] + 1>> \notin Offered
  BY <1>1, <1>2 DEF Offered
<1>. QED BY <1>2, <1>3, <1>4, <1>5 DEF Offered

\* The inductive invariant holds initially.
LEMMA InvInit == Init => IInv
<1>. SUFFICES ASSUME Init PROVE IInv
  OBVIOUS
<1>1. TypeOK
  BY TypeInit
<1>2. Offered = {} /\ InQueue = {} /\ InHand = {}
  <2>1. Len(queue) = 0
    BY EmptySeq DEF Init
  <2>. QED BY <2>1, SendQueueAssumption DEF Init, Offered, InQueue, InHand, Msgs
<1>3. Len(queue) = 0
  BY EmptySeq DEF Init
<1>4. OrderOK
  BY <1>2, <1>3 DEF Init, OrderOK, Pending
<1>5. IsFiniteSet(Vanished) /\ DropsCounted
  <2>1. Vanished = {}
    BY <1>2 DEF Vanished
  <2>. QED BY <2>1, FS_EmptySet DEF Init, DropsCounted
<1>. QED
  BY <1>1, <1>2, <1>3, <1>4, <1>5, SendQueueAssumption
  DEF Init, IInv, QueueOK, NoRepeat, HandOK, CountsOK, StopOK

\* EntryOK of a fixed entry, evaluated in the next state.
NextEntryOK(e) ==
  /\ e.attempts = tries'[e.msg] /\ e.attempts < MaxAttempts
  /\ e.msg \in Offered' \ (acked' \cup gaveUp')

\* The primed parts of the invariant in terms of NextEntryOK.
LEMMA NextParts ==
  /\ QueueOK' <=> \A i \in 1..Len(queue') : NextEntryOK(queue'[i])
  /\ HandOK' <=> (hand' # NoMsg => NextEntryOK(hand'))
BY DEF QueueOK, HandOK, EntryOK, NextEntryOK

\* A producer's step keeps it: the new message is in no other place.
LEMMA InvEnqueue ==
  ASSUME IInv, NEW r \in Replies, Enqueue(r)
  PROVE  QueueOK' /\ NoRepeat' /\ HandOK' /\ CountsOK' /\ StopOK'
<1>. DEFINE m == <<r, next[r] + 1>>
            e == [msg |-> m, attempts |-> 0]
<1>1. /\ m \in Msgs /\ m \notin Offered /\ Offered' = Offered \cup {m} /\ e \in Entry
  BY EnqueueOffers DEF IInv
<1>2. queue \in Seq(Entry) /\ TryPut(e) /\ Len(queue) \in Nat
  BY LenProperties DEF IInv, TypeOK, Enqueue
<1>3. /\ tries[m] = 0 /\ m \notin acked \cup gaveUp /\ m \notin early
      /\ m \notin InQueue /\ m \notin InHand
  BY <1>1, <1>2 DEF IInv, CountsOK, StopOK, QueueOK, HandOK, EntryOK, InQueue, InHand
<1>4. UNCHANGED <<hand, worker, stopping, up, tries, acked, gaveUp, early>>
  BY DEF Enqueue
<1>5. NextEntryOK(e) /\ \A x : EntryOK(x) => NextEntryOK(x)
  BY <1>1, <1>3, <1>4, SendQueueAssumption DEF EntryOK, NextEntryOK
<1>6. CASE /\ Len(queue') = Len(queue) + 1
           /\ \A i \in 1..Len(queue) : queue'[i] = queue[i]
           /\ queue'[Len(queue) + 1] = e
           /\ InQueue' = InQueue \cup {m}
  <2>1. QueueOK'
    <3>. SUFFICES ASSUME NEW i \in 1..Len(queue') PROVE NextEntryOK(queue'[i])
      BY NextParts
    <3>1. CASE i \in 1..Len(queue)
      BY <3>1, <1>5, <1>6 DEF IInv, QueueOK
    <3>2. CASE i = Len(queue) + 1
      BY <3>2, <1>5, <1>6
    <3>. QED BY <3>1, <3>2, <1>2, <1>6
  <2>2. NoRepeat'
    <3>1. \A i \in 1..Len(queue) : queue[i].msg # m
      BY <1>3 DEF InQueue
    <3>2. \A i, j \in 1..Len(queue') : queue'[i].msg = queue'[j].msg => i = j
      <4>. SUFFICES ASSUME NEW i \in 1..Len(queue'), NEW j \in 1..Len(queue'),
                           queue'[i].msg = queue'[j].msg
                    PROVE  i = j
        OBVIOUS
      <4>1. i \in 1..Len(queue) \/ i = Len(queue) + 1
        BY <1>2, <1>6
      <4>2. j \in 1..Len(queue) \/ j = Len(queue) + 1
        BY <1>2, <1>6
      <4>. QED BY <4>1, <4>2, <3>1, <1>6 DEF IInv, NoRepeat
    <3>3. InHand' \cap InQueue' = {}
      BY <1>3, <1>4, <1>6 DEF IInv, NoRepeat, InHand
    <3>. QED BY <3>2, <3>3 DEF NoRepeat
  <2>3. early' \cap InQueue' = {} \/ worker' # "exited"
    BY <1>3, <1>4, <1>6 DEF IInv, StopOK
  <2>4. HandOK'
    BY <1>4, <1>5, NextParts DEF IInv, HandOK
  <2>5. CountsOK' /\ StopOK'
    BY <2>3, <1>1, <1>3, <1>4 DEF IInv, CountsOK, StopOK
  <2>. QED BY <2>1, <2>2, <2>4, <2>5
<1>7. CASE UNCHANGED queue
  <2>1. InQueue' = InQueue
    BY <1>7 DEF InQueue
  <2>2. QueueOK' /\ HandOK'
    BY <1>4, <1>5, <1>7, NextParts DEF IInv, QueueOK, HandOK
  <2>. QED BY <2>1, <2>2, <1>1, <1>4, <1>7 DEF IInv, NoRepeat, InHand, CountsOK, StopOK
<1>. QED BY <1>2, <1>6, <1>7, TryPutEffect, <1>1

\* Receiving keeps it: the message only moves from the channel to the hand.
LEMMA InvTake ==
  ASSUME IInv, Take
  PROVE  QueueOK' /\ NoRepeat' /\ HandOK' /\ CountsOK' /\ StopOK'
<1>1. queue \in Seq(Entry)
  BY DEF IInv, TypeOK
<1>2. /\ Len(queue) \in Nat \ {0}
      /\ Len(queue') = Len(queue) - 1
      /\ \A i \in 1..Len(queue') : queue'[i] = queue[i + 1]
      /\ hand' = queue[1] /\ hand' \in Entry
      /\ InQueue = InQueue' \cup {hand'.msg}
  BY <1>1, TakeEffect
<1>3. UNCHANGED <<worker, stopping, tries, acked, gaveUp, early>> /\ Offered' = Offered
  BY DEF Take, Offered
<1>4. \A x : EntryOK(x) => NextEntryOK(x)
  BY <1>3 DEF EntryOK, NextEntryOK
<1>5. QueueOK' /\ HandOK'
  BY <1>2, <1>4, NextParts DEF IInv, QueueOK
<1>6. NoRepeat'
  <2>1. \A i, j \in 1..Len(queue') : queue'[i].msg = queue'[j].msg => i = j
    BY <1>2 DEF IInv, NoRepeat
  <2>2. \A i \in 1..Len(queue') : queue'[i].msg # hand'.msg
    BY <1>2 DEF IInv, NoRepeat
  <2>3. hand'.msg \notin InQueue'
    BY <2>2 DEF InQueue
  <2>. QED BY <2>1, <2>3 DEF NoRepeat, InHand
<1>7. CountsOK' /\ StopOK'
  BY <1>2, <1>3 DEF IInv, CountsOK, StopOK, Take
<1>. QED BY <1>5, <1>6, <1>7

\* A verdict on the message in hand keeps it.
LEMMA InvVerdict ==
  ASSUME IInv, DeliverOk \/ GiveUp
  PROVE  QueueOK' /\ NoRepeat' /\ HandOK' /\ CountsOK' /\ StopOK'
<1>1. /\ hand \in Entry /\ EntryOK(hand) /\ hand.msg \notin InQueue
      /\ hand' = NoMsg
      /\ tries' = [tries EXCEPT ![hand.msg] = @ + 1]
  BY DEF IInv, TypeOK, HandOK, NoRepeat, InHand, DeliverOk, GiveUp
<1>2. UNCHANGED <<queue, worker, stopping, early>> /\ Offered' = Offered /\ InQueue' = InQueue
  BY DEF DeliverOk, GiveUp, Offered, InQueue
<1>3. /\ acked \cup gaveUp \subseteq acked' \cup gaveUp'
      /\ acked' \cup gaveUp' \subseteq acked \cup gaveUp \cup {hand.msg}
      /\ gaveUp' = gaveUp \/ (gaveUp' = gaveUp \cup {hand.msg} /\ hand.attempts + 1 >= MaxAttempts)
  BY DEF DeliverOk, GiveUp
<1>4. /\ hand.msg \in Msgs /\ hand.msg \in Offered /\ hand.attempts \in 0..MaxAttempts
      /\ tries[hand.msg] = hand.attempts /\ hand.attempts < MaxAttempts
      /\ hand.msg \notin gaveUp
  BY <1>1, EntryMsg DEF EntryOK
<1>5. \A m \in Msgs : tries'[m] = IF m = hand.msg THEN hand.attempts + 1 ELSE tries[m]
  BY <1>1, <1>4 DEF IInv, TypeOK
<1>6. QueueOK'
  <2>. SUFFICES ASSUME NEW i \in 1..Len(queue) PROVE NextEntryOK(queue[i])
    BY <1>2, NextParts
  <2>1. queue[i] \in Entry /\ queue[i].msg \in Msgs
    BY ElementOfSeq, EntryMsg DEF IInv, TypeOK
  <2>2. queue[i].msg # hand.msg
    BY <1>1 DEF InQueue
  <2>. QED BY <2>1, <2>2, <1>2, <1>3, <1>5 DEF IInv, QueueOK, EntryOK, NextEntryOK
<1>7. CountsOK'
  <2>1. acked' \cup gaveUp' \subseteq Offered'
    BY <1>2, <1>3, <1>4 DEF IInv, CountsOK
  <2>2. ASSUME NEW m \in Msgs
        PROVE  /\ tries'[m] <= MaxAttempts
               /\ m \in gaveUp' => tries'[m] = MaxAttempts
               /\ m \notin Offered' => tries'[m] = 0
    BY <1>2, <1>3, <1>4, <1>5, SendQueueAssumption DEF IInv, CountsOK
  <2>. QED BY <2>1, <2>2 DEF CountsOK
<1>8. NoRepeat' /\ StopOK' /\ HandOK'
  BY <1>1, <1>2 DEF IInv, NoRepeat, InHand, HandOK, StopOK
<1>. QED BY <1>6, <1>7, <1>8

\* A retry keeps it: the message goes back with its attempt counted, or, if
\* the channel is full, nowhere.
LEMMA InvRetry ==
  ASSUME IInv, Retry
  PROVE  QueueOK' /\ NoRepeat' /\ HandOK' /\ CountsOK' /\ StopOK'
<1>. DEFINE e == [hand EXCEPT !.attempts = @ + 1]
<1>1. /\ hand \in Entry /\ EntryOK(hand) /\ hand.msg \notin InQueue
      /\ hand.attempts + 1 < MaxAttempts /\ hand' = NoMsg
      /\ tries' = [tries EXCEPT ![hand.msg] = @ + 1]
      /\ TryPut(e)
  BY DEF IInv, TypeOK, HandOK, NoRepeat, InHand, Retry
<1>2. /\ UNCHANGED <<worker, stopping, acked, gaveUp, early>> /\ Offered' = Offered
  BY DEF Retry, Offered
<1>3. /\ hand.msg \in Msgs /\ hand.msg \in Offered \ (acked \cup gaveUp)
      /\ hand.attempts \in 0..MaxAttempts /\ tries[hand.msg] = hand.attempts
  BY <1>1, EntryMsg DEF EntryOK
<1>4. e \in Entry /\ e.msg = hand.msg /\ e.attempts = hand.attempts + 1
  <2>1. hand.attempts + 1 \in 0..MaxAttempts
    BY <1>1, <1>3, SendQueueAssumption
  <2>. QED BY <2>1, <1>1 DEF Entry
<1>5. \A m \in Msgs : tries'[m] = IF m = hand.msg THEN hand.attempts + 1 ELSE tries[m]
  BY <1>1, <1>3 DEF IInv, TypeOK
<1>6. NextEntryOK(e)
  BY <1>1, <1>2, <1>3, <1>4, <1>5 DEF NextEntryOK
<1>7. \A i \in 1..Len(queue) : queue[i].msg # hand.msg /\ NextEntryOK(queue[i])
  <2>. SUFFICES ASSUME NEW i \in 1..Len(queue)
                PROVE  queue[i].msg # hand.msg /\ NextEntryOK(queue[i])
    OBVIOUS
  <2>1. queue[i] \in Entry /\ queue[i].msg \in Msgs
    BY ElementOfSeq, EntryMsg DEF IInv, TypeOK
  <2>2. queue[i].msg # hand.msg
    BY <1>1 DEF InQueue
  <2>. QED BY <2>1, <2>2, <1>2, <1>5 DEF IInv, QueueOK, EntryOK, NextEntryOK
<1>8. CountsOK'
  <2>1. ASSUME NEW m \in Msgs
        PROVE  /\ tries'[m] <= MaxAttempts
               /\ m \in gaveUp' => tries'[m] = MaxAttempts
               /\ m \notin Offered' => tries'[m] = 0
    BY <1>1, <1>2, <1>3, <1>5, SendQueueAssumption DEF IInv, CountsOK
  <2>. QED BY <2>1, <1>2 DEF IInv, CountsOK
<1>9. Len(queue) \in Nat /\ queue \in Seq(Entry)
  BY LenProperties DEF IInv, TypeOK
<1>10. HandOK' /\ InHand' = {}
  BY <1>1 DEF HandOK, InHand
<1>11. StopOK'
  BY <1>2, <1>1, SendQueueAssumption DEF IInv, StopOK, TypeOK
<1>12. CASE /\ Len(queue') = Len(queue) + 1
            /\ \A i \in 1..Len(queue) : queue'[i] = queue[i]
            /\ queue'[Len(queue) + 1] = e
  <2>1. \A i \in 1..Len(queue') : i \in 1..Len(queue) \/ i = Len(queue) + 1
    BY <1>9, <1>12
  <2>2. QueueOK'
    BY <2>1, <1>6, <1>7, <1>12, NextParts
  <2>3. ASSUME NEW i \in 1..Len(queue'), NEW j \in 1..Len(queue'),
               queue'[i].msg = queue'[j].msg
        PROVE  i = j
    <3>1. CASE i \in 1..Len(queue) /\ j \in 1..Len(queue)
      BY <2>3, <3>1, <1>12 DEF IInv, NoRepeat
    <3>2. CASE i = Len(queue) + 1 \/ j = Len(queue) + 1
      BY <2>1, <2>3, <3>2, <1>4, <1>7, <1>12
    <3>. QED BY <2>1, <3>1, <3>2
  <2>. QED BY <2>2, <2>3, <1>8, <1>10, <1>11 DEF NoRepeat
<1>13. CASE UNCHANGED queue
  <2>1. QueueOK' /\ InQueue' = InQueue
    BY <1>7, <1>13, NextParts DEF InQueue
  <2>. QED BY <2>1, <1>8, <1>10, <1>11, <1>13 DEF IInv, NoRepeat
<1>. QED BY <1>1, <1>4, <1>9, <1>12, <1>13, TryPutEffect

\* The steps of the stop, of the exit and stuttering keep it.
LEMMA InvStop ==
  ASSUME IInv, StartDrain \/ WorkerExit \/ StopSender \/ Exit \/ UNCHANGED vars
  PROVE  QueueOK' /\ NoRepeat' /\ HandOK' /\ CountsOK' /\ StopOK'
<1>1. /\ UNCHANGED <<next, queue, hand, tries, acked, gaveUp>>
      /\ Offered' = Offered /\ InQueue' = InQueue /\ InHand' = InHand
  BY DEF StartDrain, WorkerExit, StopSender, Exit, vars, Offered, InQueue, InHand
<1>2. \A x : EntryOK(x) => NextEntryOK(x)
  BY <1>1 DEF EntryOK, NextEntryOK
<1>3. QueueOK' /\ HandOK' /\ NoRepeat' /\ CountsOK'
  BY <1>1, <1>2, NextParts DEF IInv, QueueOK, HandOK, NoRepeat, CountsOK
<1>4. CASE WorkerExit
  <2>1. InQueue = {}
    BY <1>4, EmptySeq DEF WorkerExit, InQueue
  <2>. QED BY <2>1, <1>1, <1>3, <1>4 DEF IInv, StopOK, WorkerExit
<1>5. CASE StartDrain \/ StopSender \/ Exit \/ UNCHANGED vars
  BY <1>1, <1>3, <1>5 DEF IInv, StopOK, StartDrain, StopSender, Exit, vars
<1>. QED BY <1>4, <1>5

-----------------------------------------------------------------------------
(* What each step does to the status of the messages.                       *)

\* Whatever waits was handed over and has no verdict.
LEMMA PendingUnresolved ==
  ASSUME IInv
  PROVE  Pending \subseteq Offered \ (acked \cup gaveUp)
BY DEF IInv, QueueOK, HandOK, EntryOK, Pending, InQueue, InHand

\* The status is a matter of five memberships.
LEMMA StatusSame ==
  ASSUME NEW n, up' = up, n \in Offered' <=> n \in Offered, n \in acked' <=> n \in acked,
         n \in gaveUp' <=> n \in gaveUp, n \in Pending' <=> n \in Pending
  PROVE  Status(n)' = Status(n)
BY DEF Status

\* The status of m becomes s, no other changes, and the counter counts a drop.
Becomes(m, s) ==
  /\ up /\ up' = up /\ Status(m)' = s
  /\ \A n \in Msgs \ {m} : Status(n)' = Status(n)
  /\ sendDropped' = sendDropped + (IF s = "dropped" THEN 1 ELSE 0)

\* No status changes and nothing is counted.
Unnoticed ==
  (\A n \in Msgs : Status(n)' = Status(n)) /\ UNCHANGED <<up, sendDropped>>

\* Handing over makes a new message one that waits or is dropped.
LEMMA EnqueueStatus ==
  ASSUME IInv, NEW r \in Replies, Enqueue(r)
  PROVE  \E m \in Msgs, s \in {"waiting", "dropped"} : Status(m) = "new" /\ Becomes(m, s)
<1>. PICK m : m = <<r, next[r] + 1>>
  OBVIOUS
<1>. DEFINE e == [msg |-> m, attempts |-> 0]
<1>1. m \in Msgs /\ m \notin Offered /\ Offered' = Offered \cup {m} /\ e \in Entry
  BY EnqueueOffers DEF IInv
<1>2. /\ queue \in Seq(Entry) /\ TryPut(e) /\ up /\ sendDropped \in Nat
      /\ UNCHANGED <<hand, up, acked, gaveUp>> /\ InHand' = InHand
  BY DEF IInv, TypeOK, Enqueue, InHand
<1>3. m \notin Pending /\ m \notin acked \cup gaveUp /\ Status(m) = "new"
  BY <1>1, PendingUnresolved DEF IInv, CountsOK, Status
<1>4. CASE InQueue' = InQueue \cup {m} /\ sendDropped' = sendDropped
  <2>1. Pending' = Pending \cup {m}
    BY <1>2, <1>4 DEF Pending
  <2>2. Status(m)' = "waiting"
    BY <2>1, <1>1, <1>2, <1>3 DEF Status
  <2>3. \A n \in Msgs \ {m} : Status(n)' = Status(n)
    BY <2>1, <1>1, <1>2, StatusSame
  <2>. QED BY <2>2, <2>3, <1>1, <1>2, <1>3, <1>4 DEF Becomes
<1>5. CASE UNCHANGED queue /\ sendDropped' = sendDropped + 1
  <2>1. Pending' = Pending
    BY <1>2, <1>5 DEF Pending, InQueue
  <2>2. Status(m)' = "dropped"
    BY <2>1, <1>1, <1>2, <1>3 DEF Status
  <2>3. \A n \in Msgs \ {m} : Status(n)' = Status(n)
    BY <2>1, <1>1, <1>2, StatusSame
  <2>. QED BY <2>2, <2>3, <1>1, <1>2, <1>3, <1>5 DEF Becomes
<1>. QED BY <1>1, <1>2, <1>4, <1>5, TryPutEffect

\* What the worker does with the message in hand is a verdict about a message
\* that waited, or a retry that nobody notices.
LEMMA WorkStatus ==
  ASSUME IInv, DeliverOk \/ GiveUp \/ Retry
  PROVE  \/ Unnoticed
         \/ \E m \in Msgs, s \in {"acked", "gaveUp", "dropped"} :
              Status(m) = "waiting" /\ Becomes(m, s)
<1>. PICK m : m = hand.msg
  OBVIOUS
<1>. DEFINE e == [hand EXCEPT !.attempts = @ + 1]
<1>1. /\ hand # NoMsg /\ hand \in Entry /\ m \in Msgs /\ up /\ up' = up
      /\ hand' = NoMsg /\ m \notin InQueue /\ InHand = {m} /\ InHand' = {}
  BY EntryMsg DEF IInv, TypeOK, NoRepeat, InHand, DeliverOk, GiveUp, Retry
<1>2. Offered' = Offered /\ m \in Pending /\ sendDropped \in Nat
  BY <1>1 DEF IInv, TypeOK, Offered, Pending, DeliverOk, GiveUp, Retry
<1>3. Status(m) = "waiting"
  BY <1>1, <1>2, PendingUnresolved DEF Status
<1>4. CASE DeliverOk \/ GiveUp
  <2>1. Pending' = Pending \ {m} /\ sendDropped' = sendDropped
    BY <1>1, <1>4 DEF Pending, InQueue, DeliverOk, GiveUp
  <2>2. /\ \A n : n # m => (n \in acked' <=> n \in acked) /\ (n \in gaveUp' <=> n \in gaveUp)
        /\ \/ m \in acked'
           \/ m \in gaveUp' /\ acked' = acked
    BY <1>4 DEF DeliverOk, GiveUp
  <2>3. Status(m)' \in {"acked", "gaveUp"}
    BY <2>1, <2>2, <1>2, PendingUnresolved DEF Status
  <2>4. \A n \in Msgs \ {m} : Status(n)' = Status(n)
    BY <2>1, <2>2, <1>1, <1>2, StatusSame
  <2>. QED BY <2>1, <2>3, <2>4, <1>1, <1>2, <1>3 DEF Becomes
<1>5. CASE Retry
  <2>1. TryPut(e) /\ UNCHANGED <<acked, gaveUp>> /\ queue \in Seq(Entry)
    BY <1>5 DEF Retry, IInv, TypeOK
  <2>2. e.msg = m
    BY <1>1 DEF Entry
  <2>3. CASE InQueue' = InQueue \cup {m} /\ sendDropped' = sendDropped
    <3>1. Pending' = Pending
      BY <1>1, <2>3 DEF Pending
    <3>. QED BY <3>1, <2>1, <2>3, <1>1, <1>2, StatusSame DEF Unnoticed
  <2>4. CASE UNCHANGED queue /\ sendDropped' = sendDropped + 1
    <3>1. Pending' = Pending \ {m}
      BY <1>1, <2>4 DEF Pending, InQueue
    <3>2. Status(m)' = "dropped"
      BY <3>1, <2>1, <1>2, PendingUnresolved DEF Status
    <3>3. \A n \in Msgs \ {m} : Status(n)' = Status(n)
      BY <3>1, <2>1, <1>1, <1>2, StatusSame
    <3>. QED BY <3>2, <3>3, <2>4, <1>1, <1>2, <1>3 DEF Becomes
  <2>. HIDE DEF e
  <2>5. e \in Entry
    <3>1. hand.attempts + 1 \in 0..MaxAttempts
      BY <1>1, <1>5, EntryMsg, SendQueueAssumption DEF Retry
    <3>. QED BY <3>1, <1>1 DEF Entry, e
  <2>. QED BY <2>1, <2>2, <2>3, <2>4, <2>5, TryPutEffect
<1>. QED BY <1>4, <1>5

\* The end of the process abandons what waits.
LEMMA ExitStatus ==
  ASSUME IInv, Exit
  PROVE  /\ up /\ up' = FALSE /\ UNCHANGED sendDropped
         /\ \A n \in Msgs : Status(n)' = IF Status(n) = "waiting" THEN "abandoned" ELSE Status(n)
<1>1. /\ up /\ up' = FALSE /\ UNCHANGED <<sendDropped, acked, gaveUp>>
      /\ Offered' = Offered /\ Pending' = Pending
  BY DEF Exit, Offered, Pending, InQueue, InHand
<1>. QED BY <1>1 DEF Status

\* Everything that a step can do to the status of the messages.
LEMMA StatusStep ==
  ASSUME IInv, [Next]_vars
  PROVE  \/ Unnoticed
         \/ \E m \in Msgs, s \in {"waiting", "dropped"} : Status(m) = "new" /\ Becomes(m, s)
         \/ \E m \in Msgs, s \in {"acked", "gaveUp", "dropped"} :
              Status(m) = "waiting" /\ Becomes(m, s)
         \/ Exit
<1>1. CASE Take
  <2>0. InQueue = InQueue' \cup {hand'.msg} /\ hand' \in Entry /\ hand = NoMsg
    BY <1>1, TakeEffect DEF IInv, TypeOK, Take
  <2>1. Pending' = Pending
    BY <2>0, SendQueueAssumption DEF Pending, InHand
  <2>2. Offered' = Offered /\ UNCHANGED <<up, acked, gaveUp, sendDropped>>
    BY <1>1 DEF Take, Offered
  <2>. QED BY <2>1, <2>2, StatusSame DEF Unnoticed
<1>2. CASE StartDrain \/ WorkerExit \/ StopSender \/ UNCHANGED vars
  <2>1. /\ Pending' = Pending /\ Offered' = Offered
        /\ UNCHANGED <<up, acked, gaveUp, sendDropped>>
    BY <1>2 DEF StartDrain, WorkerExit, StopSender, vars, Pending, InQueue, InHand, Offered
  <2>. QED BY <2>1, StatusSame DEF Unnoticed
<1>. QED BY <1>1, <1>2, EnqueueStatus, WorkStatus, StepCases

-----------------------------------------------------------------------------
(* The counter of dropped messages.                                         *)

LEMMA VanishedStatus == Vanished = {m \in Msgs : Status(m) = "dropped"}
BY DEF Vanished, Offered, Status

\* A message that vanishes is counted, and nothing else is: no step brings one
\* back.
LEMMA DropsStep ==
  ASSUME IInv, [Next]_vars
  PROVE  IsFiniteSet(Vanished)' /\ DropsCounted'
<1>1. Vanished' = {m \in Msgs : Status(m)' = "dropped"}
  BY DEF Vanished, Offered, Status
<1>2. IsFiniteSet(Vanished) /\ sendDropped = Cardinality(Vanished)
  BY DEF IInv, DropsCounted
<1>3. CASE Vanished' = Vanished /\ UNCHANGED sendDropped
  BY <1>2, <1>3 DEF DropsCounted
<1>4. ASSUME NEW m \in Msgs, NEW s, Status(m) \in {"new", "waiting"}, Becomes(m, s)
      PROVE  IsFiniteSet(Vanished)' /\ DropsCounted'
  <2>1. m \notin Vanished
    BY <1>4, VanishedStatus
  <2>2. CASE s = "dropped"
    <3>1. Vanished' = Vanished \cup {m} /\ sendDropped' = sendDropped + 1
      BY <2>2, <1>1, <1>4, VanishedStatus DEF Becomes
    <3>2. IsFiniteSet(Vanished') /\ Cardinality(Vanished') = Cardinality(Vanished) + 1
      BY <3>1, <2>1, <1>2, FS_AddElement
    <3>. QED BY <3>1, <3>2, <1>2 DEF DropsCounted
  <2>3. CASE s # "dropped"
    <3>1. Vanished' = Vanished /\ sendDropped' = sendDropped
      BY <2>1, <2>3, <1>1, <1>2, <1>4, VanishedStatus, FS_CardinalityType DEF Becomes
    <3>. QED BY <3>1, <1>3
  <2>. QED BY <2>2, <2>3
<1>5. CASE Unnoticed
  BY <1>1, <1>3, <1>5, VanishedStatus DEF Unnoticed
<1>6. CASE Exit
  BY <1>1, <1>3, <1>6, ExitStatus, VanishedStatus
<1>. QED BY <1>4, <1>5, <1>6, StatusStep

-----------------------------------------------------------------------------
(* The order of the first tries.                                            *)

\* The messages of the channel are messages of replies.
LEMMA QueueMsgs ==
  ASSUME TypeOK
  PROVE  /\ Len(queue) \in Nat
         /\ \A k \in 1..Len(queue) : queue[k] \in Entry /\ queue[k].msg \in Msgs
                                     /\ tries[queue[k].msg] \in Nat
BY ElementOfSeq, LenProperties, EntryMsg DEF TypeOK

\* A message is a reply and a number.
LEMMA MsgParts ==
  /\ \A m \in Msgs : m[1] \in Replies /\ m[2] \in 1..Parts /\ m[2] \in Int
  /\ \A m, n \in Msgs : Earlier(m, n) => m # n /\ ~Earlier(n, m)
<1>1. ASSUME NEW m \in Msgs PROVE m[1] \in Replies /\ m[2] \in 1..Parts /\ m[2] \in Int
  BY SendQueueAssumption DEF Msgs
<1>. QED BY <1>1 DEF Earlier

\* The earlier parts of what was handed over were handed over.
LEMMA OfferedInOrder ==
  ASSUME TypeOK, NEW m \in Msgs, NEW n \in Msgs, Earlier(m, n), n \in Offered
  PROVE  m \in Offered
BY MsgParts DEF Earlier, Offered, TypeOK

\* A new part is the last of its reply.
LEMMA OrderEnqueue ==
  ASSUME IInv, NEW r \in Replies, Enqueue(r)
  PROVE  OrderOK'
<1>. PICK m : m = <<r, next[r] + 1>>
  OBVIOUS
<1>. DEFINE e == [msg |-> m, attempts |-> 0]
<1>1. m \in Msgs /\ m \notin Offered /\ Offered' = Offered \cup {m} /\ e \in Entry
  BY EnqueueOffers DEF IInv
<1>2. /\ queue \in Seq(Entry) /\ TryPut(e) /\ UNCHANGED <<hand, tries, acked>>
      /\ InHand' = InHand
  BY DEF IInv, TypeOK, Enqueue, InHand
<1>3. TypeOK /\ OrderOK /\ Pending \subseteq Offered /\ Pending \subseteq Msgs
  BY PendingUnresolved DEF IInv, Offered
<1>4. \A n \in Msgs : n \in Offered => ~Earlier(m, n)
  BY <1>1, <1>3, OfferedInOrder
<1>5. \A k \in 1..Len(queue) : queue[k].msg \in Offered
  BY <1>3 DEF Pending, InQueue
<1>6. \A n \in Msgs : tries[n] > 0 => n \in Offered
  BY DEF IInv, CountsOK
<1>7. CASE /\ Len(queue') = Len(queue) + 1
           /\ \A i \in 1..Len(queue) : queue'[i] = queue[i]
           /\ queue'[Len(queue) + 1] = e
           /\ InQueue' = InQueue \cup {m}
  <2>1. /\ Len(queue) \in Nat
        /\ \A k \in 1..Len(queue') : k \in 1..Len(queue) \/ (k = Len(queue) + 1 /\ queue'[k].msg = m)
    BY <1>3, <1>7, QueueMsgs
  <2>2. ASSUME NEW k \in 1..Len(queue'), NEW l \in 1..Len(queue'),
               Earlier(queue'[k].msg, queue'[l].msg),
               tries[queue'[k].msg] = 0, tries[queue'[l].msg] = 0
        PROVE  k < l
    <3>1. CASE k \in 1..Len(queue) /\ l \in 1..Len(queue)
      BY <2>2, <3>1, <1>3, <1>7 DEF OrderOK
    <3>2. CASE k = Len(queue) + 1 /\ l \in 1..Len(queue)
      <4>1. queue'[l].msg \in Offered /\ queue'[l].msg \in Msgs /\ queue'[k].msg = m
        BY <3>2, <2>1, <1>5, <1>7 DEF Offered
      <4>. QED BY <4>1, <2>2, <1>4
    <3>3. CASE k = Len(queue) + 1 /\ l = Len(queue) + 1
      BY <2>2, <3>3, <1>1, <1>7, MsgParts
    <3>4. CASE k \in 1..Len(queue) /\ l = Len(queue) + 1
      BY <3>4, <2>1
    <3>. QED BY <2>1, <3>1, <3>2, <3>3, <3>4
  <2>3. ASSUME hand # NoMsg, tries[hand.msg] = 0, NEW k \in 1..Len(queue'),
               Earlier(queue'[k].msg, hand.msg)
        PROVE  tries[queue'[k].msg] > 0
    <3>1. hand.msg \in Offered /\ hand.msg \in Msgs
      BY <2>3, <1>3 DEF Pending, InHand
    <3>. QED BY <2>1, <2>3, <3>1, <1>3, <1>4, <1>7 DEF OrderOK
  <2>4. ASSUME NEW p \in Msgs, NEW n \in Msgs, Earlier(p, n), tries[n] > 0, p \in Pending'
        PROVE  tries[p] > 0
    <3>1. p \in Pending \/ p = m
      BY <2>4, <1>2, <1>7 DEF Pending
    <3>. QED BY <3>1, <2>4, <1>3, <1>4, <1>6 DEF OrderOK
  <2>. QED BY <2>2, <2>3, <2>4, <1>2, <1>3 DEF OrderOK
<1>8. CASE UNCHANGED queue
  <2>1. Pending' = Pending
    BY <1>2, <1>8 DEF Pending, InQueue
  <2>. QED BY <2>1, <1>2, <1>3, <1>8 DEF OrderOK
<1>. HIDE DEF e
<1>9. e.msg = m
  BY DEF e
<1>. QED BY <1>1, <1>2, <1>7, <1>8, <1>9, TryPutEffect

\* Receiving takes the first of the untried parts of its reply.
LEMMA OrderTake ==
  ASSUME IInv, Take
  PROVE  OrderOK'
<1>1. /\ Len(queue) \in Nat \ {0}
      /\ Len(queue') = Len(queue) - 1
      /\ \A i \in 1..Len(queue') : queue'[i] = queue[i + 1]
      /\ hand' = queue[1] /\ hand' \in Entry
      /\ InQueue = InQueue' \cup {hand'.msg}
  BY TakeEffect DEF IInv, TypeOK
<1>2. UNCHANGED <<tries, acked>> /\ TypeOK /\ OrderOK /\ hand = NoMsg
  BY DEF Take, IInv
<1>3. Pending' = Pending
  BY <1>1, <1>2, SendQueueAssumption DEF Pending, InHand
<1>4. \A k \in 1..Len(queue') : k + 1 \in 1..Len(queue)
  BY <1>1
<1>5. ASSUME NEW k \in 1..Len(queue'), NEW l \in 1..Len(queue'),
             Earlier(queue'[k].msg, queue'[l].msg),
             tries[queue'[k].msg] = 0, tries[queue'[l].msg] = 0
      PROVE  k < l
  <2>1. k + 1 < l + 1
    BY <1>1, <1>2, <1>4, <1>5 DEF OrderOK
  <2>. QED BY <2>1, <1>1
<1>6. ASSUME tries[hand'.msg] = 0, NEW k \in 1..Len(queue'), Earlier(queue'[k].msg, hand'.msg)
      PROVE  tries[queue'[k].msg] > 0
  <2>1. /\ k + 1 \in 1..Len(queue) /\ 1 \in 1..Len(queue)
        /\ Earlier(queue[k + 1].msg, queue[1].msg) /\ tries[queue[1].msg] = 0
    BY <1>1, <1>4, <1>6
  <2>2. tries[queue[k + 1].msg] # 0
    BY <2>1, <1>2 DEF OrderOK
  <2>3. tries[queue[k + 1].msg] \in Nat
    BY <2>1, <1>2, QueueMsgs
  <2>. QED BY <2>2, <2>3, <1>1
<1>. QED BY <1>2, <1>3, <1>5, <1>6 DEF OrderOK

\* An attempt on the message in hand: no untried earlier part waits then.
LEMMA OrderWork ==
  ASSUME IInv, DeliverOk \/ GiveUp \/ Retry
  PROVE  OrderOK'
<1>. PICK m : m = hand.msg
  OBVIOUS
<1>. DEFINE e == [hand EXCEPT !.attempts = @ + 1]
<1>1. /\ hand # NoMsg /\ hand \in Entry /\ m \in Msgs /\ hand' = NoMsg
      /\ m \notin InQueue /\ InHand = {m} /\ InHand' = {}
  BY EntryMsg DEF IInv, TypeOK, NoRepeat, InHand, DeliverOk, GiveUp, Retry
<1>2. /\ TypeOK /\ OrderOK /\ queue \in Seq(Entry)
      /\ \A k \in 1..Len(queue) : queue[k].msg # m /\ queue[k].msg \in Msgs
  BY <1>1, QueueMsgs DEF IInv, TypeOK, InQueue
<1>3. tries' = [tries EXCEPT ![m] = @ + 1] /\ tries \in [Msgs -> Nat]
  BY DEF IInv, TypeOK, DeliverOk, GiveUp, Retry
<1>4. tries'[m] > 0 /\ \A n \in Msgs : (n # m => tries'[n] = tries[n]) /\ (tries[n] > 0 => tries'[n] > 0)
  BY <1>1, <1>3
<1>5. acked' \subseteq acked \cup {m} /\ acked \subseteq Msgs
  BY <1>2 DEF DeliverOk, GiveUp, Retry, TypeOK
<1>6. \A n \in acked' : tries'[n] > 0
  BY <1>2, <1>4, <1>5 DEF OrderOK
<1>7. ASSUME NEW p \in Msgs, NEW n \in Msgs, Earlier(p, n), tries'[n] > 0, p \in Pending
      PROVE  tries'[p] > 0
  <2>1. CASE p = m
    BY <2>1, <1>4
  <2>2. CASE p # m /\ n # m
    BY <2>2, <1>2, <1>4, <1>7 DEF OrderOK
  <2>3. CASE p # m /\ n = m
    <3>1. CASE tries[m] > 0
      BY <2>3, <3>1, <1>2, <1>4, <1>7 DEF OrderOK
    <3>2. CASE ~(tries[m] > 0)
      <4>1. tries[m] = 0
        BY <3>2, <1>1, <1>3
      <4>2. PICK k \in 1..Len(queue) : queue[k].msg = p
        BY <2>3, <1>1, <1>7 DEF Pending, InQueue
      <4>3. tries[p] > 0
        BY <4>1, <4>2, <2>3, <1>1, <1>2, <1>7 DEF OrderOK
      <4>. QED BY <4>3, <1>4
    <3>. QED BY <3>1, <3>2
  <2>. QED BY <2>1, <2>2, <2>3
<1>8. CASE UNCHANGED queue
  <2>1. Pending' \subseteq Pending
    BY <1>1, <1>8 DEF Pending, InQueue
  <2>2. \A k, l \in 1..Len(queue') :
          Earlier(queue'[k].msg, queue'[l].msg) /\ tries'[queue'[k].msg] = 0
            /\ tries'[queue'[l].msg] = 0 => k < l
    BY <1>2, <1>4, <1>8 DEF OrderOK
  <2>. QED BY <2>1, <2>2, <1>1, <1>6, <1>7 DEF OrderOK
<1>9. CASE /\ Len(queue') = Len(queue) + 1
           /\ \A i \in 1..Len(queue) : queue'[i] = queue[i]
           /\ queue'[Len(queue) + 1].msg = m
           /\ InQueue' = InQueue \cup {m}
  <2>1. Pending' \subseteq Pending
    BY <1>1, <1>9 DEF Pending
  <2>2. ASSUME NEW k \in 1..Len(queue'), NEW l \in 1..Len(queue'),
               Earlier(queue'[k].msg, queue'[l].msg),
               tries'[queue'[k].msg] = 0, tries'[queue'[l].msg] = 0
        PROVE  k < l
    <3>1. Len(queue) \in Nat
      BY <1>2, QueueMsgs
    <3>2. k # Len(queue) + 1 /\ l # Len(queue) + 1
      BY <2>2, <1>4, <1>9
    <3>3. k \in 1..Len(queue) /\ l \in 1..Len(queue)
      BY <3>1, <3>2, <1>9
    <3>. QED BY <3>3, <2>2, <1>2, <1>4, <1>9 DEF OrderOK
  <2>. QED BY <2>1, <2>2, <1>1, <1>6, <1>7 DEF OrderOK
<1>10. CASE DeliverOk \/ GiveUp
  BY <1>8, <1>10 DEF DeliverOk, GiveUp
<1>11. CASE Retry
  <2>1. hand.attempts + 1 \in 0..MaxAttempts
    BY <1>1, <1>11, EntryMsg, SendQueueAssumption DEF Retry
  <2>2. e \in Entry /\ e.msg = m
    BY <2>1, <1>1 DEF Entry
  <2>3. TryPut(e)
    BY <1>11 DEF Retry
  <2>. HIDE DEF e
  <2>. QED BY <2>2, <2>3, <1>2, <1>8, <1>9, TryPutEffect
<1>. QED BY <1>10, <1>11

\* The parts of a reply keep their order until they are tried.
LEMMA OrderStep ==
  ASSUME IInv, [Next]_vars
  PROVE  OrderOK'
<1>1. CASE StartDrain \/ WorkerExit \/ StopSender \/ Exit \/ UNCHANGED vars
  <2>1. UNCHANGED <<queue, hand, tries, acked>> /\ Pending' = Pending /\ OrderOK
    BY <1>1 DEF IInv, StartDrain, WorkerExit, StopSender, Exit, vars, Pending, InQueue, InHand
  <2>. QED BY <2>1 DEF OrderOK
<1>. QED BY <1>1, OrderEnqueue, OrderTake, OrderWork, StepCases

-----------------------------------------------------------------------------
(* The invariant and what follows.                                          *)

\* The inductive invariant holds in every reachable state.
THEOREM Invariant == Spec => []IInv
<1>1. IInv /\ [Next]_vars => IInv'
  <2>. SUFFICES ASSUME IInv, [Next]_vars PROVE IInv'
    OBVIOUS
  <2>1. TypeOK'
    BY TypeStep DEF IInv
  <2>2. QueueOK' /\ NoRepeat' /\ HandOK' /\ CountsOK' /\ StopOK'
    BY StepCases, InvEnqueue, InvTake, InvVerdict, InvRetry, InvStop
  <2>. QED BY <2>1, <2>2, OrderStep, DropsStep DEF IInv
<1>. QED BY InvInit, <1>1, PTL DEF Spec

\* However often a message goes round the channel, it is tried at most
\* MaxAttempts times, given up only after all of them, and has one verdict
\* (deliver, sender.go:143).
THEOREM AttemptsBoundedCorrect == Spec => []AttemptsBounded
<1>1. IInv => AttemptsBounded
  <2>. SUFFICES ASSUME IInv, NEW m \in Msgs
                PROVE  /\ tries[m] <= MaxAttempts
                       /\ m \in gaveUp => tries[m] = MaxAttempts
                       /\ m \in acked \cup gaveUp => m \notin Pending
    BY DEF AttemptsBounded
  <2>1. m \in acked \cup gaveUp => m \notin InQueue /\ m \notin InHand
    BY DEF IInv, QueueOK, HandOK, EntryOK, InQueue, InHand
  <2>. QED BY <2>1 DEF IInv, CountsOK, Pending
<1>. QED BY Invariant, <1>1, PTL

\* When the worker has returned, nothing handed over before StopSender is left
\* in the channel or in hand (sendWorker, sender.go:107).
THEOREM DrainCompleteCorrect == Spec => []DrainComplete
<1>1. IInv => DrainComplete
  BY DEF IInv, StopOK, DrainComplete, Pending, InHand
<1>. QED BY Invariant, <1>1, PTL

\* DroppedMessages is exact: what was handed over and neither waits nor has a
\* verdict was counted, once, by whichever of the two TryPut refused it
\* (enqueue, sender.go:173, and the retry, sender.go:163).
THEOREM DropsCountedCorrect == Spec => []DropsCounted
<1>1. IInv => DropsCounted
  BY DEF IInv
<1>. QED BY Invariant, <1>1, PTL

\* No part of a reply is tried before an earlier part has been tried or dropped:
\* retries overtake each other, first tries never.
THEOREM FirstTriesInOrderCorrect == Spec => []FirstTriesInOrder
<1>1. IInv => FirstTriesInOrder
  <2>. SUFFICES ASSUME IInv, NEW r \in Replies, NEW i \in 1..Parts, NEW j \in 1..Parts,
                       i < j, tries[<<r, j>>] > 0, ~(tries[<<r, i>>] > 0)
                PROVE  <<r, i>> \in Vanished
    BY DEF FirstTriesInOrder
  <2>1. /\ <<r, i>> \in Msgs /\ <<r, j>> \in Msgs /\ Earlier(<<r, i>>, <<r, j>>)
        /\ tries[<<r, i>>] \in Nat
    BY DEF Msgs, Earlier, IInv, TypeOK
  <2>2. <<r, i>> \in Offered
    BY <2>1, OfferedInOrder DEF IInv, CountsOK
  <2>3. <<r, i>> \notin Pending /\ <<r, i>> \notin acked
    BY <2>1 DEF IInv, OrderOK
  <2>4. <<r, i>> \notin gaveUp
    BY <2>1, SendQueueAssumption DEF IInv, CountsOK
  <2>. QED BY <2>2, <2>3, <2>4 DEF Vanished
<1>. QED BY Invariant, <1>1, PTL

-----------------------------------------------------------------------------
(* The refinement of Outbox.                                                *)

\* The status as one function, which the refinement gives to Outbox.
StatusOf == [m \in Msgs |-> Status(m)]

\* A change of one status is an EXCEPT of the function.
LEMMA StatusOfBecomes ==
  ASSUME NEW m \in Msgs, NEW s, Becomes(m, s)
  PROVE  StatusOf' = [StatusOf EXCEPT ![m] = s] /\ up /\ up' = up
BY DEF Becomes, StatusOf

\* Nobody has offered anything at first.
LEMMA AbsInit == Init => Abs!Init
<1>. SUFFICES ASSUME Init PROVE Abs!Init
  OBVIOUS
<1>1. \A m \in Msgs : m \notin Offered
  BY MsgParts DEF Init, Offered, Msgs
<1>. QED BY <1>1 DEF Init, Abs!Init, Status

\* Every step is a step of Outbox, or changes nothing that its callers see.
LEMMA AbsStep == IInv /\ [Next]_vars => [Abs!Next]_(Abs!vars)
<1>. SUFFICES ASSUME IInv, [Next]_vars PROVE Abs!Next \/ UNCHANGED Abs!vars
  OBVIOUS
<1>1. CASE Unnoticed
  BY <1>1 DEF Unnoticed, Abs!vars
<1>2. ASSUME NEW m \in Msgs, NEW s \in {"waiting", "dropped"}, Status(m) = "new", Becomes(m, s)
      PROVE  Abs!Next
  <2>1. Abs!Offer(m)
    BY <1>2, StatusOfBecomes DEF Abs!Offer, StatusOf
  <2>. QED BY <2>1 DEF Abs!Next
<1>3. ASSUME NEW m \in Msgs, NEW s \in {"acked", "gaveUp", "dropped"},
             Status(m) = "waiting", Becomes(m, s)
      PROVE  Abs!Next
  <2>1. Abs!Resolve(m)
    BY <1>3, StatusOfBecomes DEF Abs!Resolve, Abs!Verdicts, StatusOf
  <2>. QED BY <2>1 DEF Abs!Next
<1>4. CASE Exit
  <2>1. Abs!End
    BY <1>4, ExitStatus DEF Abs!End
  <2>. QED BY <2>1 DEF Abs!Next
<1>. QED BY <1>1, <1>2, <1>3, <1>4, StatusStep

\* The queue implements Outbox: every message gets one verdict, which nothing
\* revises, whatever the channel, the retries and the stop do meanwhile.
THEOREM Refinement == Spec => ImplementsOutbox
<1>. QED BY Invariant, AbsInit, AbsStep, PTL DEF Spec, ImplementsOutbox, Abs!Spec

-----------------------------------------------------------------------------
(* The stickers: the library. *)

\* A library, field by field.
LEMMA LibraryFields ==
  ASSUME NEW l \in Library
  PROVE  /\ l = [items |-> l.items, mode |-> l.mode]
         /\ DOMAIN l.items \subseteq Ids /\ l.items \in [DOMAIN l.items -> Item]
         /\ l.mode \in Modes
<1>1. PICK f \in UNION {[I -> Item] : I \in SUBSET Ids}, m \in Modes :
        l = [items |-> f, mode |-> m]
  BY DEF Library
<1>. QED BY <1>1

LEMMA LibraryMade ==
  ASSUME NEW f, DOMAIN f \subseteq Ids, f \in [DOMAIN f -> Item], NEW m \in Modes
  PROVE  [items |-> f, mode |-> m] \in Library
BY DEF Library

\* What one entry put in, or taken out, makes of a library.
LEMMA WithEffect ==
  ASSUME NEW l \in Library, NEW i \in Ids, NEW e \in Item
  PROVE  /\ With(l, i, e) \in Library
         /\ DOMAIN With(l, i, e).items = DOMAIN l.items \cup {i}
         /\ \A j \in DOMAIN l.items \cup {i} :
              With(l, i, e).items[j] = IF j = i THEN e ELSE l.items[j]
<1>. DEFINE f == Put(l.items, i, e)
<1>1. With(l, i, e) = [items |-> f, mode |-> l.mode]
  BY LibraryFields DEF With
<1>2. DOMAIN f \subseteq Ids /\ f \in [DOMAIN f -> Item]
  BY LibraryFields DEF Put
<1>3. [items |-> f, mode |-> l.mode] \in Library
  <2>. HIDE DEF f
  <2>. QED BY <1>2, LibraryMade, LibraryFields
<1>. QED BY <1>1, <1>3 DEF Put

LEMMA WithoutEffect ==
  ASSUME NEW l \in Library, NEW i \in Ids
  PROVE  LET k == [l EXCEPT !.items = Without(@, i)] IN
         /\ k \in Library
         /\ DOMAIN k.items = DOMAIN l.items \ {i}
         /\ \A j \in DOMAIN l.items \ {i} : k.items[j] = l.items[j]
<1>. DEFINE f == Without(l.items, i)
<1>1. [l EXCEPT !.items = Without(@, i)] = [items |-> f, mode |-> l.mode]
  BY LibraryFields
<1>2. DOMAIN f \subseteq Ids /\ f \in [DOMAIN f -> Item]
  BY LibraryFields DEF Without
<1>3. [items |-> f, mode |-> l.mode] \in Library
  <2>. HIDE DEF f
  <2>. QED BY <1>2, LibraryMade, LibraryFields
<1>. QED BY <1>1, <1>3 DEF Without

\* What the panel's steps are about, and what the sender's are about.
PanelInv == LibraryType /\ LibraryOK /\ RequestsOK
SenderInv == DeliveryType /\ CacheOK /\ SenderOK /\ CacheShowsPicked

\* One request changes, no other.
LEMMA SetEffect ==
  ASSUME LibraryType, NEW r \in Requests, NEW q \in Request, Set(r, q)
  PROVE  /\ req' \in [Requests -> Request] /\ req'[r] = q
         /\ \A s \in Requests \ {r} : req'[s] = req[s]
BY DEF LibraryType, Set

LEMMA DoneEffect ==
  ASSUME LibraryType, NEW r \in Requests, Done(r)
  PROVE  /\ req' \in [Requests -> Request] /\ req'[r] = Idle
         /\ \A s \in Requests \ {r} : req'[s] = req[s]
BY SetEffect DEF Done, Idle, Request

\* A request goes on to its next step.
LEMMA GoEffect ==
  ASSUME LibraryType, NEW r \in Requests, NEW step \in {"update", "remove"}, Go(r, step)
  PROVE  /\ req' \in [Requests -> Request] /\ req'[r] = [req[r] EXCEPT !.step = step]
         /\ \A s \in Requests \ {r} : req'[s] = req[s]
<1>1. [req[r] EXCEPT !.step = step] \in Request
  BY DEF LibraryType, Request
<1>. QED BY <1>1, SetEffect DEF Go

\* A request is not disturbed by a step that takes away no picture it is about to
\* add and names no file of it in another entry.
LEMMA OtherRequest ==
  ASSUME PanelInv, LibraryType', NEW s \in Requests, req'[s] = req[s],
         req[s].step = "add" /\ req[s].file \in media => req[s].file \in media',
         \A j \in DOMAIN store'.items :
           \/ store'.items[j].file = None
           \/ j \in DOMAIN store.items /\ store'.items[j].file = store.items[j].file
           \/ store'.items[j].file # req[s].file /\ j # req[s].id
  PROVE  RequestOK(s)'
<1>1. RequestOK(s) /\ DOMAIN store.items \subseteq Ids /\ DOMAIN store'.items \subseteq Ids
  BY LibraryFields DEF PanelInv, RequestsOK, LibraryType
<1>. QED BY <1>1 DEF RequestOK

\* Two requests stay apart when one of them takes over nothing that is another's.
LEMMA RequestsApart ==
  ASSUME PanelInv, NEW r \in Requests,
         \A s \in Requests \ {r} : req'[s] = req[s] /\ RequestOK(s)',
         RequestOK(r)',
         \A s \in Requests \ {r} : /\ req'[r].id # None => req[s].id # req'[r].id
                                   /\ req'[r].file # None => req[s].file # req'[r].file
  PROVE  RequestsOK'
BY DEF PanelInv, RequestsOK

\* An entry that names what no other names, and what is there, can be put in.
LEMMA PutKeeps ==
  ASSUME PanelInv, NEW i \in Ids, NEW e \in Item,
         Saved(With(lib, i, e)), media \subseteq media',
         e.source = "local" => e.file # None,
         e.file # None => /\ e.file \in media'
                          /\ \A j \in DOMAIN store.items \ {i} : store.items[j].file # e.file
  PROVE  /\ lib' \in Library /\ store' \in Library /\ LibraryOK'
         /\ DOMAIN store'.items = DOMAIN store.items \cup {i}
         /\ \A j \in DOMAIN store'.items :
              store'.items[j] = IF j = i THEN e ELSE store.items[j]
<1>1. /\ lib' \in Library /\ lib' = store'
      /\ DOMAIN store'.items = DOMAIN store.items \cup {i}
      /\ \A j \in DOMAIN store'.items : store'.items[j] = IF j = i THEN e ELSE store.items[j]
  BY WithEffect DEF Saved, PanelInv, LibraryType, LibraryOK
<1>. QED BY <1>1 DEF PanelInv, LibraryOK

\* Nothing of the library changes.
LEMMA SameLibrary ==
  ASSUME PanelInv, UNCHANGED <<lib, store>>, media \subseteq media'
  PROVE  lib' \in Library /\ store' \in Library /\ LibraryOK'
BY DEF PanelInv, LibraryType, LibraryOK

\* What is known of a request that is under way.
LEMMA Under ==
  ASSUME PanelInv, NEW r \in Requests, req[r].step # "idle"
  PROVE  /\ req[r] # Idle /\ req[r] \in Request /\ RequestOK(r)
         /\ req[r].file \in Files /\ req[r].file # None
         /\ DOMAIN store.items \subseteq Ids
<1>1. DOMAIN store.items \subseteq Ids
  BY LibraryFields DEF PanelInv, LibraryType
<1>2. req[r] # Idle /\ req[r] \in Request /\ RequestOK(r)
  BY DEF PanelInv, LibraryType, RequestsOK, Idle
<1>. QED BY <1>1, <1>2 DEF RequestOK, Request

\* An upload stores its picture under a name nothing has.
LEMMA SaveMediaStep ==
  ASSUME PanelInv, NEW r \in Requests, NEW f \in Files, SaveMedia(r, f)
  PROVE  PanelInv'
<1>1. PICK host \in BOOLEAN : \E drop \in {FALSE, host} :
        Set(r, [Idle EXCEPT !.step = "add", !.file = f, !.host = host, !.drop = drop])
  BY DEF SaveMedia
<1>2. PICK drop \in {FALSE, host} :
        Set(r, [Idle EXCEPT !.step = "add", !.file = f, !.host = host, !.drop = drop])
  BY <1>1
<1>. DEFINE q == [Idle EXCEPT !.step = "add", !.file = f, !.host = host, !.drop = drop]
<1>3. /\ q \in Request /\ q.step = "add" /\ q.id = None /\ q.file = f /\ q # Idle
  BY DEF Idle, Request
<1>4. /\ req' \in [Requests -> Request] /\ req'[r] = q
      /\ \A s \in Requests \ {r} : req'[s] = req[s]
  <2>. HIDE DEF q
  <2>. QED BY <1>2, <1>3, SetEffect DEF PanelInv, q
<1>. HIDE DEF q
<1>5. /\ media' = media \cup {f} /\ f \notin media /\ \A s \in Requests : req[s].file # f
      /\ UNCHANGED <<lib, store, stuck>> /\ f # None
  BY StickersAssumption DEF SaveMedia, Fresh
<1>6. LibraryType' /\ LibraryOK'
  BY <1>4, <1>5, SameLibrary DEF PanelInv, LibraryType
<1>7. \A s \in Requests \ {r} : RequestOK(s)'
  BY <1>4, <1>5, <1>6, OtherRequest
<1>8. \A i \in DOMAIN store.items : store.items[i].file # f
  BY <1>5 DEF PanelInv, LibraryOK
<1>9. RequestOK(r)'
  BY <1>3, <1>4, <1>5, <1>8 DEF RequestOK
<1>. QED BY <1>3, <1>4, <1>5, <1>6, <1>7, <1>9, RequestsApart DEF PanelInv

\* A request that ends disturbs nothing.
LEMMA DoneStep ==
  ASSUME PanelInv, NEW r \in Requests, Done(r), LibraryType', LibraryOK',
         \A s \in Requests \ {r} : RequestOK(s)'
  PROVE  PanelInv'
<1>1. /\ req'[r] = Idle /\ \A s \in Requests \ {r} : req'[s] = req[s]
  BY DoneEffect DEF PanelInv
<1>2. Idle.id = None /\ Idle.file = None
  BY DEF Idle
<1>3. RequestOK(r)'
  BY <1>1 DEF RequestOK
<1>. QED BY <1>1, <1>2, <1>3, RequestsApart DEF PanelInv

\* It may also end without anything else.
LEMMA DoneAlone ==
  ASSUME PanelInv, NEW r \in Requests, Done(r), UNCHANGED <<lib, store, media, stuck>>
  PROVE  PanelInv'
<1>1. LibraryType' /\ LibraryOK'
  BY DoneEffect, SameLibrary DEF PanelInv, LibraryType
<1>2. \A s \in Requests \ {r} : req'[s] = req[s]
  BY DoneEffect DEF PanelInv
<1>3. \A s \in Requests \ {r} : RequestOK(s)'
  BY <1>1, <1>2, OtherRequest
<1>. QED BY <1>1, <1>3, DoneStep

\* The picture becomes an entry of its own.
LEMMA AddUploadStep ==
  ASSUME PanelInv, NEW r \in Requests, AddUpload(r)
  PROVE  PanelInv'
<1>. DEFINE f == req[r].file
<1>1. CASE NotSaved /\ Done(r)
  BY <1>1, DoneAlone DEF NotSaved, AddUpload, library
<1>2. ASSUME NEW i \in Ids, FreshId(i), Saved(With(lib, i, Local(f))),
             IF req[r].host THEN Set(r, [req[r] EXCEPT !.step = "look", !.id = i])
                            ELSE Done(r)
      PROVE  PanelInv'
  <2>1. /\ f \in Files /\ f # None /\ f \in media /\ req[r].step = "add"
        /\ \A j \in DOMAIN store.items : store.items[j].file # f
    <3>1. req[r].step = "add"
      BY DEF AddUpload
    <3>. QED BY <3>1, Under DEF RequestOK
  <2>2. /\ Local(f) \in Item /\ Local(f).file = f /\ Local(f).source = "local"
    BY <2>1 DEF Local, Item
  <2>3. UNCHANGED <<media, stuck>> /\ i \notin DOMAIN store.items
        /\ \A s \in Requests : req[s].id # i
    BY <1>2 DEF AddUpload, FreshId, PanelInv, LibraryOK
  <2>4. /\ lib' \in Library /\ store' \in Library /\ LibraryOK'
        /\ DOMAIN store'.items = DOMAIN store.items \cup {i}
        /\ \A j \in DOMAIN store'.items :
             store'.items[j] = IF j = i THEN Local(f) ELSE store.items[j]
    <3>. HIDE DEF f
    <3>. QED BY <1>2, <2>1, <2>2, <2>3, PutKeeps
  <2>5. \A s \in Requests \ {r} : req[s].file # f
    BY <2>1 DEF PanelInv, RequestsOK
  <2>6. ASSUME req' \in [Requests -> Request],
               \A s \in Requests \ {r} : req'[s] = req[s]
        PROVE  LibraryType' /\ \A s \in Requests \ {r} : RequestOK(s)'
    <3>1. LibraryType'
      BY <2>3, <2>4, <2>6 DEF PanelInv, LibraryType
    <3>. QED BY <2>2, <2>3, <2>4, <2>5, <2>6, <3>1, OtherRequest
  <2>7. CASE req[r].host
    <3>. DEFINE q == [req[r] EXCEPT !.step = "look", !.id = i]
    <3>1. /\ q \in Request /\ q.step = "look" /\ q.id = i /\ q.file = f
      BY DEF PanelInv, LibraryType, Request
    <3>2. Set(r, q)
      BY <1>2, <2>7
    <3>. HIDE DEF q
    <3>3. /\ req' \in [Requests -> Request] /\ req'[r] = q
          /\ \A s \in Requests \ {r} : req'[s] = req[s]
      BY <3>1, <3>2, SetEffect DEF PanelInv
    <3>4. LibraryType' /\ \A s \in Requests \ {r} : RequestOK(s)'
      BY <2>6, <3>3
    <3>5. i # None
      BY StickersAssumption
    <3>6. RequestOK(r)'
      BY <2>1, <2>2, <2>4, <3>1, <3>3, <3>5 DEF RequestOK
    <3>. QED BY <2>3, <2>4, <2>5, <3>1, <3>3, <3>4, <3>6, RequestsApart DEF PanelInv
  <2>8. CASE ~req[r].host
    BY <1>2, <2>4, <2>6, <2>8, DoneEffect, DoneStep DEF PanelInv
  <2>. QED BY <2>7, <2>8
<1>. QED BY <1>1, <1>2 DEF AddUpload

\* A step that leaves the library alone changes one request, which keeps its entry.
LEMMA OneRequest ==
  ASSUME PanelInv, NEW r \in Requests, UNCHANGED <<lib, store, media, stuck>>,
         req' \in [Requests -> Request], \A s \in Requests \ {r} : req'[s] = req[s],
         req'[r].id = req[r].id, req'[r].file = req[r].file, RequestOK(r)'
  PROVE  PanelInv'
<1>1. LibraryType' /\ LibraryOK'
  BY SameLibrary DEF PanelInv, LibraryType
<1>2. \A s \in Requests \ {r} : RequestOK(s)'
  BY <1>1, OtherRequest
<1>3. \A s \in Requests \ {r} : /\ req'[r].id # None => req[s].id # req'[r].id
                                /\ req'[r].file # None => req[s].file # req'[r].file
  BY DEF PanelInv, RequestsOK
<1>. QED BY <1>1, <1>2, <1>3, RequestsApart DEF PanelInv

\* The picture that is read is the one that was stored.
LEMMA LookStep ==
  ASSUME PanelInv, NEW r \in Requests, Look(r)
  PROVE  PanelInv'
<1>. DEFINE i == req[r].id
            g == lib.items[i].file
<1>1. UNCHANGED <<lib, store, media, stuck>> /\ req[r].step = "look" /\ lib = store
  BY DEF Look, library, PanelInv, LibraryOK
<1>2. CASE Done(r)
  BY <1>1, <1>2, DoneAlone
<1>3. CASE i \in DOMAIN lib.items /\ g \in media
           /\ Set(r, [req[r] EXCEPT !.step = "host", !.file = g])
  <2>1. g = req[r].file
    <3>1. g # None /\ i = req[r].id
      BY <1>3, StickersAssumption DEF PanelInv, LibraryType
    <3>. QED BY <1>1, <1>3, <3>1, Under DEF RequestOK
  <2>. DEFINE q == [req[r] EXCEPT !.step = "host", !.file = g]
  <2>2. /\ q \in Request /\ q.step = "host" /\ q.id = req[r].id /\ q.file = req[r].file
    BY <1>1, <2>1, Under DEF Request
  <2>3. Set(r, q)
    BY <1>3
  <2>. HIDE DEF q
  <2>4. /\ req' \in [Requests -> Request] /\ req'[r] = q
        /\ \A s \in Requests \ {r} : req'[s] = req[s]
    BY <2>2, <2>3, SetEffect DEF PanelInv
  <2>5. RequestOK(r)'
    BY <1>1, <2>2, <2>4, Under DEF RequestOK
  <2>. QED BY <1>1, <2>2, <2>4, <2>5, OneRequest
<1>. QED BY <1>2, <1>3 DEF Look

\* The image host has answered.
LEMMA HostAnswersStep ==
  ASSUME PanelInv, NEW r \in Requests, HostAnswers(r)
  PROVE  PanelInv'
<1>1. UNCHANGED <<lib, store, media, stuck>> /\ req[r].step = "host"
  BY DEF HostAnswers, library
<1>2. CASE Done(r)
  BY <1>1, <1>2, DoneAlone
<1>3. CASE Go(r, "update")
  <2>1. /\ req' \in [Requests -> Request] /\ req'[r] = [req[r] EXCEPT !.step = "update"]
        /\ \A s \in Requests \ {r} : req'[s] = req[s]
    BY <1>3, GoEffect DEF PanelInv
  <2>2. /\ req'[r].step = "update" /\ req'[r].id = req[r].id /\ req'[r].file = req[r].file
    BY <2>1, <1>1, Under DEF Request
  <2>3. RequestOK(r)'
    BY <1>1, <2>2, Under DEF RequestOK
  <2>. QED BY <1>1, <2>1, <2>2, <2>3, OneRequest
<1>. QED BY <1>2, <1>3 DEF HostAnswers

\* The link is stored; with it the entry may give up its file.
LEMMA PromoteStep ==
  ASSUME PanelInv, NEW r \in Requests, Promote(r)
  PROVE  PanelInv'
<1>. DEFINE i == req[r].id
            new == Promoted(lib.items[i], r)
<1>1. req[r].step = "update" /\ UNCHANGED <<media, stuck>> /\ lib = store
  BY DEF Promote, PanelInv, LibraryOK
<1>2. CASE NotSaved /\ Done(r)
  BY <1>1, <1>2, DoneAlone DEF NotSaved
<1>3. ASSUME i \in DOMAIN lib.items, Saved(With(lib, i, new)),
             IF req[r].drop THEN Go(r, "remove") ELSE Done(r)
      PROVE  PanelInv'
  <2>1. /\ i \in Ids /\ i # None /\ store.items[i] \in Item
        /\ store.items[i].file \in {None, req[r].file}
    <3>1. i \in DOMAIN store.items /\ i # None /\ store.items[i].file \in {None, req[r].file}
      BY <1>1, <1>3, Under DEF RequestOK
    <3>2. DOMAIN store.items \subseteq Ids /\ store.items \in [DOMAIN store.items -> Item]
      BY LibraryFields DEF PanelInv, LibraryType
    <3>. QED BY <3>1, <3>2
  <2>2. /\ new \in Item /\ new.source = "url" /\ new.file \in {None, store.items[i].file}
        /\ req[r].drop => new.file = None
    BY <1>1, <2>1, Under DEF Promoted, Item, Request, Pictures
  <2>3. new.file # None => /\ new.file \in media
                         /\ \A j \in DOMAIN store.items \ {i} : store.items[j].file # new.file
    BY <1>1, <1>3, <2>2 DEF PanelInv, LibraryOK
  <2>4. /\ lib' \in Library /\ store' \in Library /\ LibraryOK'
        /\ DOMAIN store'.items = DOMAIN store.items
        /\ \A j \in DOMAIN store'.items :
             store'.items[j] = IF j = i THEN new ELSE store.items[j]
    <3>. HIDE DEF new, i
    <3>1. /\ i \in DOMAIN store.items /\ media \subseteq media'
          /\ new.source = "local" => new.file # None
          /\ new.file # None => new.file \in media'
      BY <1>1, <1>3, <2>2, <2>3
    <3>2. /\ lib' \in Library /\ store' \in Library /\ LibraryOK'
          /\ DOMAIN store'.items = DOMAIN store.items \cup {i}
          /\ \A j \in DOMAIN store'.items :
               store'.items[j] = IF j = i THEN new ELSE store.items[j]
      BY <1>3, <2>1, <2>2, <2>3, <3>1, PutKeeps
    <3>. QED BY <3>1, <3>2
  <2>5. ASSUME req' \in [Requests -> Request],
               \A s \in Requests \ {r} : req'[s] = req[s]
        PROVE  LibraryType' /\ \A s \in Requests \ {r} : RequestOK(s)'
    <3>1. LibraryType'
      BY <1>1, <2>4, <2>5 DEF PanelInv, LibraryType
    <3>2. \A j \in DOMAIN store'.items :
            \/ store'.items[j].file = None
            \/ j \in DOMAIN store.items /\ store'.items[j].file = store.items[j].file
      <4>. HIDE DEF new, i
      <4>. QED BY <2>2, <2>4
    <3>. QED BY <1>1, <2>5, <3>1, <3>2, OtherRequest
  <2>6. CASE req[r].drop
    <3>1. /\ req' \in [Requests -> Request] /\ req'[r] = [req[r] EXCEPT !.step = "remove"]
          /\ \A s \in Requests \ {r} : req'[s] = req[s]
      BY <1>3, <2>6, GoEffect DEF PanelInv
    <3>2. /\ req'[r].step = "remove" /\ req'[r].id = req[r].id /\ req'[r].file = req[r].file
      BY <3>1, <1>1, Under DEF Request
    <3>3. \A j \in DOMAIN store'.items : store'.items[j].file # req[r].file
      BY <1>1, <2>2, <2>4, <2>6, Under DEF RequestOK
    <3>4. RequestOK(r)'
      BY <1>1, <2>1, <3>2, <3>3, Under DEF RequestOK
    <3>5. \A s \in Requests \ {r} : /\ req'[r].id # None => req[s].id # req'[r].id
                                    /\ req'[r].file # None => req[s].file # req'[r].file
      BY <3>2 DEF PanelInv, RequestsOK
    <3>. QED BY <2>4, <2>5, <3>1, <3>4, <3>5, RequestsApart DEF PanelInv
  <2>7. CASE ~req[r].drop
    BY <1>3, <2>4, <2>5, <2>7, DoneEffect, DoneStep DEF PanelInv
  <2>. QED BY <2>6, <2>7
<1>. QED BY <1>2, <1>3 DEF Promote

\* Its file goes; nobody else has it.
LEMMA DropLocalStep ==
  ASSUME PanelInv, NEW r \in Requests, DropLocal(r)
  PROVE  PanelInv'
<1>. DEFINE f == req[r].file
<1>1. /\ req[r].step = "remove" /\ Done(r) /\ UNCHANGED <<lib, store, stuck>>
      /\ media \ {f} \subseteq media' /\ media' \subseteq media
  BY DEF DropLocal
<1>2. /\ f # None /\ \A i \in DOMAIN store.items : store.items[i].file # f
  BY <1>1, Under DEF RequestOK
<1>3. /\ req' \in [Requests -> Request] /\ \A s \in Requests \ {r} : req'[s] = req[s]
  BY <1>1, DoneEffect DEF PanelInv
<1>4. LibraryType' /\ LibraryOK'
  BY <1>1, <1>2, <1>3 DEF PanelInv, LibraryType, LibraryOK
<1>5. \A s \in Requests \ {r} : req[s].file # f
  BY <1>2 DEF PanelInv, RequestsOK
<1>6. \A s \in Requests \ {r} : RequestOK(s)'
  BY <1>1, <1>3, <1>4, <1>5, OtherRequest
<1>. QED BY <1>1, <1>4, <1>6, DoneStep

\* A step of the panel that works on no upload.
LEMMA NoRequest ==
  ASSUME PanelInv, UNCHANGED req, LibraryType', LibraryOK',
         \A s \in Requests : /\ req[s].step = "add" /\ req[s].file \in media =>
                                  req[s].file \in media'
                             /\ \A j \in DOMAIN store'.items :
                                  \/ store'.items[j].file = None
                                  \/ /\ j \in DOMAIN store.items
                                     /\ store'.items[j].file = store.items[j].file
  PROVE  PanelInv'
<1>1. \A s \in Requests : RequestOK(s)'
  BY OtherRequest
<1>. QED BY <1>1 DEF PanelInv, RequestsOK

\* An entry is added or edited that names no new file.
LEMMA EditStep ==
  ASSUME PanelInv, NEW i \in Ids, NEW e \in Item,
         Saved(With(lib, i, e)), UNCHANGED <<media, stuck, req>>,
         e.source = "local" => e.file # None,
         e.file # None => i \in DOMAIN store.items /\ e.file = store.items[i].file
  PROVE  PanelInv'
<1>1. e.file # None => /\ e.file \in media'
                       /\ \A j \in DOMAIN store.items \ {i} : store.items[j].file # e.file
  BY DEF PanelInv, LibraryOK
<1>2. /\ lib' \in Library /\ store' \in Library /\ LibraryOK'
      /\ DOMAIN store'.items = DOMAIN store.items \cup {i}
      /\ \A j \in DOMAIN store'.items : store'.items[j] = IF j = i THEN e ELSE store.items[j]
  BY <1>1, PutKeeps
<1>3. LibraryType'
  BY <1>2 DEF PanelInv, LibraryType
<1>. QED BY <1>2, <1>3, NoRequest

\* A change that cannot be saved is taken back.
LEMMA TakenBack ==
  ASSUME PanelInv, UNCHANGED <<lib, store, media, req>>, stuck' \in BOOLEAN
  PROVE  PanelInv'
<1>1. LibraryType' /\ LibraryOK'
  BY SameLibrary DEF PanelInv, LibraryType
<1>. QED BY <1>1, NoRequest

LEMMA AddLinkStep ==
  ASSUME PanelInv, NEW i \in Ids, AddLink(i)
  PROVE  PanelInv'
<1>. DEFINE link == Linked(External)
<1>1. /\ link \in Item /\ link.source = "url" /\ link.file = None
  BY DEF Linked, Item, Pictures
<1>2. UNCHANGED <<media, stuck, req>> /\ Change(With(lib, i, link))
  BY DEF AddLink
<1>. HIDE DEF link
<1>3. CASE Saved(With(lib, i, link))
  BY <1>1, <1>2, <1>3, EditStep
<1>4. CASE UNCHANGED <<lib, store>>
  BY <1>2, <1>4, TakenBack DEF PanelInv, LibraryType
<1>. QED BY <1>2, <1>3, <1>4 DEF Change, Saved

LEMMA UpdateStep ==
  ASSUME PanelInv, NEW i \in Ids, Update(i)
  PROVE  PanelInv'
<1>. DEFINE old == lib.items[i]
            linked == [old EXCEPT !.source = "url", !.link = External]
<1>1. /\ lib = store /\ i \in DOMAIN store.items /\ old \in Item
      /\ UNCHANGED <<media, stuck, req>>
  BY LibraryFields DEF PanelInv, LibraryType, LibraryOK, Update
<1>2. linked \in Item /\ linked.source = "url" /\ linked.file = old.file
  BY <1>1 DEF Item, Pictures
<1>3. /\ Local(old.file) \in Item /\ Local(old.file).file = old.file
  BY <1>1 DEF Item, Local
<1>4. CASE UNCHANGED <<lib, store>>
  BY <1>1, <1>4, TakenBack DEF PanelInv, LibraryType
<1>5. CASE Saved(With(lib, i, linked))
  <2>. HIDE DEF linked
  <2>. QED BY <1>1, <1>2, <1>5, EditStep
<1>6. CASE old.file \in media /\ Saved(With(lib, i, Local(old.file)))
  <2>1. old.file # None
    BY <1>6, StickersAssumption DEF PanelInv, LibraryType
  <2>. QED BY <1>1, <1>3, <1>6, <2>1, EditStep
<1>. QED BY <1>4, <1>5, <1>6 DEF Update, Change, Saved

\* An entry goes, and its file only if it is a local one, which nobody else has.
LEMMA DeleteStep ==
  ASSUME PanelInv, NEW i \in Ids, Delete(i)
  PROVE  PanelInv'
<1>. DEFINE k == [lib EXCEPT !.items = Without(@, i)]
<1>1. /\ lib = store /\ i \in DOMAIN store.items /\ UNCHANGED req
      /\ media' \in {media, media \ {store.items[i].file}} /\ stuck' \in BOOLEAN
      /\ store.items[i].source # "local" => media' = media
  BY DEF PanelInv, LibraryType, LibraryOK, Delete
<1>2. CASE NotSaved /\ UNCHANGED <<media, stuck>>
  BY <1>1, <1>2, TakenBack DEF NotSaved
<1>3. CASE Saved(k)
  <2>1. /\ k \in Library /\ DOMAIN k.items = DOMAIN lib.items \ {i}
        /\ \A j \in DOMAIN lib.items \ {i} : k.items[j] = lib.items[j]
    BY WithoutEffect DEF PanelInv, LibraryType
  <2>2. /\ lib' \in Library /\ store' \in Library /\ lib' = store'
        /\ DOMAIN store'.items = DOMAIN store.items \ {i}
        /\ \A j \in DOMAIN store'.items : store'.items[j] = store.items[j]
    <3>. HIDE DEF k
    <3>. QED BY <1>1, <1>3, <2>1 DEF Saved
  <2>. HIDE DEF k
  <2>3. LibraryType'
    BY <1>1, <2>2 DEF PanelInv, LibraryType
  <2>4. LibraryOK'
    BY <1>1, <2>2 DEF PanelInv, LibraryOK
  <2>5. ASSUME NEW s \in Requests, req[s].step = "add"
        PROVE  req[s].file # store.items[i].file
    BY <1>1, <2>5, Under DEF RequestOK
  <2>. QED BY <1>1, <2>2, <2>3, <2>4, <2>5, NoRequest
<1>. QED BY <1>2, <1>3 DEF Delete

LEMMA UpdateSettingsStep ==
  ASSUME PanelInv, NEW m \in Modes, UpdateSettings(m)
  PROVE  PanelInv'
<1>. DEFINE k == [lib EXCEPT !.mode = m]
<1>1. UNCHANGED <<media, stuck, req>> /\ lib = store
  BY DEF UpdateSettings, PanelInv, LibraryOK
<1>2. CASE UNCHANGED <<lib, store>>
  BY <1>1, <1>2, TakenBack DEF PanelInv, LibraryType
<1>3. CASE lib' = k /\ store' = k
  <2>1. k \in Library /\ k.items = store.items
    <3>1. k = [items |-> lib.items, mode |-> m]
      BY LibraryFields DEF PanelInv, LibraryType
    <3>. QED BY <1>1, <3>1, LibraryFields, LibraryMade DEF PanelInv, LibraryType
  <2>. HIDE DEF k
  <2>2. LibraryType' /\ LibraryOK'
    BY <1>1, <1>3, <2>1 DEF PanelInv, LibraryType, LibraryOK
  <2>. QED BY <1>1, <1>3, <2>1, <2>2, NoRequest
<1>. QED BY <1>2, <1>3 DEF UpdateSettings, Change

\* The next Load finds nothing to clean up.
LEMMA NormalizedKeeps ==
  ASSUME PanelInv
  PROVE  Normalized(store) = store
<1>. DEFINE Present(e) == [e EXCEPT !.file = IF @ \in media THEN @ ELSE None]
            Kept == {j \in DOMAIN store.items :
                       store.items[j].source = "url" \/ store.items[j].file \in media}
<1>1. /\ store = [items |-> store.items, mode |-> store.mode]
      /\ store.items \in [DOMAIN store.items -> Item]
  BY LibraryFields DEF PanelInv, LibraryType
<1>2. ASSUME NEW i \in DOMAIN store.items
      PROVE  i \in Kept /\ Present(store.items[i]) = store.items[i]
  <2>1. /\ store.items[i] \in Item
        /\ store.items[i].file \in media \cup {None}
        /\ store.items[i].source = "local" => store.items[i].file \in media
    BY <1>1 DEF PanelInv, LibraryOK
  <2>2. i \in Kept
    BY <2>1 DEF Item
  <2>3. Present(store.items[i]) = store.items[i]
    BY <2>1 DEF Item
  <2>. QED BY <2>2, <2>3
<1>3. [i \in Kept |-> Present(store.items[i])] = store.items
  <2>1. Kept = DOMAIN store.items
    BY <1>2
  <2>. HIDE DEF Kept, Present
  <2>. QED BY <1>1, <1>2, <2>1
<1>4. Normalized(store) = [store EXCEPT !.items = [i \in Kept |-> Present(store.items[i])]]
  BY DEF Normalized
<1>. HIDE DEF Kept, Present
<1>. QED BY <1>1, <1>3, <1>4

\* A restart forgets the requests; the library is as it was.
LEMMA RestartStep ==
  ASSUME PanelInv, Restart
  PROVE  PanelInv'
<1>1. /\ lib' = store /\ store' = store /\ media' = media /\ stuck' \in BOOLEAN
      /\ req' = [r \in Requests |-> Idle]
  BY NormalizedKeeps DEF Restart
<1>2. Idle \in Request /\ Idle.id = None /\ Idle.file = None
  BY DEF Idle, Request
<1>3. LibraryType' /\ LibraryOK'
  BY <1>1, <1>2 DEF PanelInv, LibraryType, LibraryOK
<1>4. RequestsOK'
  BY <1>1, <1>2 DEF RequestsOK, RequestOK
<1>. QED BY <1>3, <1>4 DEF PanelInv

\* Every step keeps what the panel's part of the invariant says.
LEMMA PanelInvStep ==
  ASSUME PanelInv, [StickersNext]_stickersVars
  PROVE  PanelInv'
<1>1. CASE Panel
  BY <1>1, SaveMediaStep, AddUploadStep, LookStep, HostAnswersStep, PromoteStep,
     DropLocalStep, AddLinkStep, UpdateStep, DeleteStep, UpdateSettingsStep DEF Panel
<1>2. CASE Sender \/ UNCHANGED stickersVars
  <2>1. UNCHANGED <<lib, store, media, stuck, req>>
    BY <1>2 DEF Sender, Pick, Sendable, Lookup, PostCached, Sources,
       Upload, Post, OneShot, Settle, stickersVars, library
  <2>. QED BY <2>1, TakenBack DEF PanelInv, LibraryType
<1>3. CASE Restart
  BY <1>3, RestartStep
<1>. QED BY <1>1, <1>2, <1>3 DEF StickersNext

-----------------------------------------------------------------------------
(* The sender's part. *)

Payload == [id : Ids \cup {None}, link : Pictures \cup {None}, data : Files \cup {None}]

\* A payload of an entry that has a link or bytes.
Sourced(p) == p.id \in Ids /\ {p.link, p.data} # {None}

\* Payloads of one key may show the same pictures.
LEMMA OneKey ==
  ASSUME NEW p \in Payload, NEW q \in Payload, Key(p) = Key(q),
         NEW picture \in Pictures, Shows(q, picture)
  PROVE  Shows(p, picture)
<1>1. None \notin Pictures
  BY StickersAssumption DEF Pictures
<1>2. CASE p.link # None
  <2>1. q.link = p.link
    BY <1>2 DEF Key
  <2>. QED BY <1>1, <1>2, <2>1 DEF Shows, Payload
<1>3. CASE p.link = None
  <2>1. q.link = None /\ Fingerprint[q.data] = Fingerprint[p.data]
    BY <1>3 DEF Key
  <2>. QED BY <1>1, <1>3, <2>1 DEF Shows, Payload
<1>. QED BY <1>2, <1>3

\* The cache by payload.
LEMMA CacheByPayload ==
  CacheOK <=> \A p \in Payload : Sourced(p) /\ Key(p) \in DOMAIN cache
                                    => Shows(p, cache[Key(p)])
<1>1. ASSUME CacheOK, NEW p \in Payload, Sourced(p), Key(p) \in DOMAIN cache
      PROVE  Shows(p, cache[Key(p)])
  <2>1. p = [id |-> p.id, link |-> p.link, data |-> p.data]
        /\ p.link \in Pictures \cup {None} /\ p.data \in Files \cup {None}
    BY DEF Payload
  <2>. QED BY <1>1, <2>1 DEF CacheOK, Sourced
<1>2. ASSUME \A p \in Payload : Sourced(p) /\ Key(p) \in DOMAIN cache
                                => Shows(p, cache[Key(p)])
      PROVE  CacheOK
  <2>1. SUFFICES ASSUME NEW i \in Ids, NEW l \in Pictures \cup {None},
                        NEW d \in Files \cup {None}, {l, d} # {None},
                        Key([id |-> i, link |-> l, data |-> d]) \in DOMAIN cache
                 PROVE  Shows([id |-> i, link |-> l, data |-> d],
                                 cache[Key([id |-> i, link |-> l, data |-> d])])
    BY DEF CacheOK
  <2>2. [id |-> i, link |-> l, data |-> d] \in Payload
        /\ Sourced([id |-> i, link |-> l, data |-> d])
    BY <2>1 DEF Payload, Sourced
  <2>. QED BY <1>2, <2>1, <2>2
<1>. QED BY <1>1, <1>2

\* A cache that only lost entries shows what it showed.
LEMMA CacheShrinks ==
  ASSUME CacheOK, \A k \in DOMAIN cache : cache[k] \in Pictures,
         DOMAIN cache' \subseteq DOMAIN cache,
         \A k \in DOMAIN cache' : cache'[k] = cache[k]
  PROVE  CacheOK' /\ \A k \in DOMAIN cache' : cache'[k] \in Pictures
BY DEF CacheOK

LEMMA WithoutShrinks ==
  ASSUME CacheOK, \A k \in DOMAIN cache : cache[k] \in Pictures,
         NEW k0, cache' = Without(cache, k0)
  PROVE  CacheOK' /\ \A k \in DOMAIN cache' : cache'[k] \in Pictures
BY CacheShrinks DEF Without

\* What is evicted is gone, what stays is as it was.
LEMMA EvictEffect ==
  ASSUME NEW c \in Evict(cache)
  PROVE  DOMAIN c \subseteq DOMAIN cache /\ \A k \in DOMAIN c : c[k] = cache[k]
<1>. DEFINE Stay == {K \in SUBSET DOMAIN cache : MayStay(K, cache)}
<1>1. Evict(cache) = {cache} \/ Evict(cache) = {[k \in K |-> cache[k]] : K \in Stay}
  BY DEF Evict
<1>2. CASE c = cache
  BY <1>2
<1>3. ASSUME NEW K \in Stay, c = [k \in K |-> cache[k]]
      PROVE  DOMAIN c \subseteq DOMAIN cache /\ \A k \in DOMAIN c : c[k] = cache[k]
  BY <1>3
<1>. QED BY <1>1, <1>2, <1>3

\* What was shown is remembered for its key.
LEMMA StoreEffect ==
  ASSUME CacheOK, \A k \in DOMAIN cache : cache[k] \in Pictures,
         pay \in Payload, info \in Pictures, Shows(pay, info),
         Store(Key(pay), info)
  PROVE  CacheOK' /\ \A k \in DOMAIN cache' : cache'[k] \in Pictures
<1>1. PICK c \in Evict(cache) : cache' = Put(c, Key(pay), info)
  BY DEF Store
<1>2. /\ DOMAIN cache' \subseteq DOMAIN cache \cup {Key(pay)} /\ cache'[Key(pay)] = info
      /\ \A k \in DOMAIN cache' \ {Key(pay)} : cache'[k] = cache[k]
  BY <1>1, EvictEffect DEF Put
<1>3. ASSUME NEW p \in Payload, Sourced(p), Key(p) \in DOMAIN cache'
      PROVE  Shows(p, cache'[Key(p)])
  <2>1. CASE Key(p) = Key(pay)
    BY <1>2, <2>1, OneKey
  <2>2. CASE Key(p) # Key(pay)
    BY <1>2, <1>3, <2>2, CacheByPayload
  <2>. QED BY <2>1, <2>2
<1>4. CacheOK'
  <2>1. SUFFICES ASSUME NEW i \in Ids, NEW l \in Pictures \cup {None},
                        NEW d \in Files \cup {None}, {l, d} # {None},
                        Key([id |-> i, link |-> l, data |-> d]) \in DOMAIN cache'
                 PROVE  Shows([id |-> i, link |-> l, data |-> d],
                                 cache'[Key([id |-> i, link |-> l, data |-> d])])
    BY DEF CacheOK
  <2>2. [id |-> i, link |-> l, data |-> d] \in Payload
        /\ Sourced([id |-> i, link |-> l, data |-> d])
    BY <2>1 DEF Payload, Sourced
  <2>. QED BY <1>3, <2>1, <2>2
<1>. QED BY <1>2, <1>4

\* The head of the sources is one, and the rest are sources.
LEMMA SourcesLeft ==
  ASSUME DeliveryType, SenderOK, left # << >>
  PROVE  /\ Head(left) \in Pictures /\ Head(left) \in {pay.link, pay.data}
         /\ Tail(left) \in Seq(Pictures) /\ Len(Tail(left)) <= 2
         /\ \A n \in DOMAIN Tail(left) : Tail(left)[n] \in {pay.link, pay.data}
<1>1. /\ left \in Seq(Pictures) /\ Len(left) <= 2 /\ Len(left) \in Nat
      /\ \A n \in DOMAIN left : left[n] \in {pay.link, pay.data}
  BY DEF DeliveryType, SenderOK
<1>2. /\ 1 \in DOMAIN left /\ Head(left) = left[1] /\ left[1] \in Pictures
      /\ Tail(left) \in Seq(Pictures) /\ Len(Tail(left)) = Len(left) - 1
      /\ \A n \in 1 .. Len(left) - 1 : Tail(left)[n] = left[n + 1]
  BY <1>1
<1>3. \A n \in DOMAIN Tail(left) : n \in 1 .. Len(left) - 1 /\ n + 1 \in DOMAIN left
  BY <1>1, <1>2
<1>. QED BY <1>1, <1>2, <1>3

LEMMA NoPicture == None \notin Pictures
BY StickersAssumption DEF Pictures

\* No sources, no pictures shown.
LEMMA Empty == << >> \in Seq(Pictures) /\ Len(<< >>) <= 2 /\ DOMAIN << >> = {}
OBVIOUS

\* The sender comes back with a verdict.
LEMMA Returned ==
  ASSUME SenderInv, at \in Trying, at' = "returned", left' = << >>, UNCHANGED pay,
         result' \in {"sent", "failed"},
         ~lost' => copies' = IF result' = "sent" THEN 1 ELSE 0
  PROVE  SenderOK'
BY Empty DEF SenderInv, SenderOK, Trying

LEMMA PickStep ==
  ASSUME PanelInv, SenderInv, NEW i \in Ids, Pick(i)
  PROVE  SenderInv'
<1>1. lib.items[i] \in Item
  BY LibraryFields DEF PanelInv, LibraryType, Pick
<1>2. /\ at = "idle" /\ at' = "picked" /\ UNCHANGED <<left, info, cache>>
      /\ pay' = [id |-> i, link |-> lib.items[i].link, data |-> lib.items[i].file]
      /\ sends' = 0 /\ result' = "none" /\ copies' = 0 /\ shown' = {} /\ lost' = FALSE
  BY DEF Pick
<1>3. DeliveryType'
  <2>1. pay' \in Payload
    BY <1>1, <1>2, LibraryFields DEF Payload, Item, PanelInv, LibraryType
  <2>2. /\ at' \in Places /\ sends' \in 0..MaxSends /\ copies' \in Nat
        /\ result' \in {"none", "sent", "failed"} /\ shown' \subseteq Pictures
    BY <1>2, StickersAssumption DEF Places
  <2>3. lost' \in BOOLEAN
    BY <1>2
  <2>. QED BY <1>2, <2>1, <2>2, <2>3 DEF SenderInv, DeliveryType, Payload
<1>4. CacheOK' /\ CacheShowsPicked'
  BY <1>2 DEF SenderInv, CacheOK, CacheShowsPicked
<1>5. left = << >>
  BY <1>2 DEF SenderInv, SenderOK
<1>6. SenderOK'
  BY <1>2, <1>5 DEF SenderInv, SenderOK, Trying
<1>. QED BY <1>3, <1>4, <1>6 DEF SenderInv

LEMMA SendableStep ==
  ASSUME SenderInv, Sendable
  PROVE  SenderInv'
<1>. DEFINE d == IF pay.data \in media THEN pay.data ELSE None
<1>1. /\ at = "picked" /\ UNCHANGED <<left, info, cache, sends, result, copies, shown, lost>>
      /\ \/ at' = "idle" /\ pay' = NoPay
         \/ at' = "lookup" /\ pay' = [pay EXCEPT !.data = d] /\ {pay.link, d} # {None}
  BY DEF Sendable
<1>2. d \in Files \cup {None} /\ pay.id \in Ids /\ left = << >> /\ shown = {}
  BY <1>1 DEF SenderInv, DeliveryType, SenderOK
<1>. HIDE DEF d
<1>3. pay' \in Payload /\ (at' = "lookup" => pay'.id \in Ids /\ {pay'.link, pay'.data} # {None})
  <2>1. pay \in Payload
    BY DEF SenderInv, DeliveryType, Payload
  <2>2. CASE pay' = NoPay /\ at' = "idle"
    BY <2>2 DEF NoPay, Payload
  <2>3. CASE at' = "lookup" /\ pay' = [pay EXCEPT !.data = d] /\ {pay.link, d} # {None}
    BY <1>2, <2>1, <2>3 DEF Payload
  <2>. QED BY <1>1, <2>2, <2>3
<1>4. DeliveryType'
  BY <1>1, <1>3 DEF SenderInv, DeliveryType, Places, Payload
<1>5. CacheOK' /\ CacheShowsPicked'
  BY <1>1, <1>2 DEF SenderInv, CacheOK, CacheShowsPicked
<1>6. SenderOK'
  <2>1. sends = 0 /\ copies = 0 /\ result = "none" /\ 0 < MaxSends
    BY <1>1, StickersAssumption DEF SenderInv, SenderOK
  <2>. QED BY <1>1, <1>2, <1>3, <2>1, Empty DEF SenderOK, Trying
<1>. QED BY <1>4, <1>5, <1>6 DEF SenderInv

LEMMA LookupStep ==
  ASSUME SenderInv, Lookup
  PROVE  SenderInv'
<1>. DEFINE k == Key(pay)
<1>1. /\ at = "lookup" /\ sends' = sends + 1 /\ left = << >> /\ sends < MaxSends
      /\ UNCHANGED <<pay, left, result, copies, shown, lost>>
  BY DEF Lookup, SenderInv, SenderOK
<1>2. pay \in Payload /\ Sourced(pay)
  BY <1>1 DEF SenderInv, DeliveryType, SenderOK, Trying, Payload, Sourced
<1>3. \/ /\ at' = "cached" /\ info' \in Pictures /\ Shows(pay, info') /\ UNCHANGED cache
      \/ at' = "sources" /\ UNCHANGED info /\ cache' = Without(cache, k)
  BY <1>1, <1>2, CacheByPayload DEF Lookup, SenderInv, DeliveryType
<1>. HIDE DEF k
<1>4. CacheOK' /\ \A j \in DOMAIN cache' : cache'[j] \in Pictures
  <2>1. CASE UNCHANGED cache
    BY <2>1 DEF SenderInv, DeliveryType, CacheOK
  <2>2. CASE cache' = Without(cache, k)
    BY <2>2, WithoutShrinks DEF SenderInv, DeliveryType
  <2>. QED BY <1>3, <2>1, <2>2
<1>5. DeliveryType'
  BY <1>1, <1>3, <1>4, StickersAssumption DEF SenderInv, DeliveryType, Places
<1>6. SenderOK'
  BY <1>1, <1>2, <1>3 DEF SenderInv, SenderOK, Trying, Shows, Sourced
<1>7. CacheShowsPicked'
  BY <1>1 DEF SenderInv, CacheShowsPicked
<1>. QED BY <1>4, <1>5, <1>6, <1>7 DEF SenderInv

\* A picture of the payload reaches the chat, or perhaps does, unnoticed.
LEMMA ReachesEffect ==
  ASSUME SenderInv, NEW p \in Pictures, Shows(pay, p), UNCHANGED pay
  PROVE  /\ Reaches(p) => /\ copies' = copies + 1 /\ shown' \subseteq Pictures
                             /\ CacheShowsPicked'
         /\ UNCHANGED <<copies, shown>> => CacheShowsPicked'
BY DEF SenderInv, DeliveryType, Reaches, CacheShowsPicked, Shows

LEMMA PostCachedStep ==
  ASSUME SenderInv, PostCached
  PROVE  SenderInv'
<1>. DEFINE k == Key(pay)
<1>1. /\ at = "cached" /\ UNCHANGED <<pay, sends>> /\ left = << >> /\ result = "none"
      /\ info \in Pictures /\ Shows(pay, info)
      /\ copies \in Nat /\ shown \subseteq Pictures /\ lost \in BOOLEAN
  BY DEF PostCached, SenderInv, SenderOK, DeliveryType
<1>2. \/ /\ Reaches(info) /\ UNCHANGED <<lost, cache>>
         /\ result' = "sent" /\ left' = << >> /\ info' = None /\ at' = "returned"
      \/ /\ UNCHANGED <<copies, shown, lost>> \/ (Reaches(info) /\ lost' = TRUE)
         /\ cache' = Without(cache, k) /\ at' = "sources" /\ info' = None
         /\ UNCHANGED <<left, result>>
  BY DEF PostCached, Return, Refused
<1>. HIDE DEF k
<1>3. /\ CacheShowsPicked' /\ shown' \subseteq Pictures
      /\ copies' \in {copies, copies + 1} /\ lost' \in BOOLEAN
      /\ at' = "returned" => copies' = copies + 1 /\ lost' = lost
      /\ at' = "sources" => copies' = copies \/ lost' = TRUE
      /\ at' = "sources" /\ lost' = FALSE => lost = FALSE
      /\ left' = << >> /\ info' = None /\ at' \in {"returned", "sources"}
      /\ result' = IF at' = "returned" THEN "sent" ELSE "none"
  BY <1>1, <1>2, ReachesEffect
<1>4. CacheOK' /\ \A j \in DOMAIN cache' : cache'[j] \in Pictures
  <2>1. CASE UNCHANGED cache
    BY <2>1 DEF SenderInv, DeliveryType, CacheOK
  <2>2. CASE cache' = Without(cache, k)
    BY <2>2, WithoutShrinks DEF SenderInv, DeliveryType
  <2>. QED BY <1>2, <2>1, <2>2
<1>5. DeliveryType'
  BY <1>1, <1>3, <1>4, Empty DEF SenderInv, DeliveryType, Places
<1>6. SenderOK'
  <2>1. pay'.id \in Ids /\ {pay'.link, pay'.data} # {None}
    BY <1>1 DEF SenderInv, SenderOK, Trying
  <2>2. ~lost' => copies' = IF result' = "sent" THEN 1 ELSE 0
    BY <1>1, <1>3 DEF SenderInv, SenderOK
  <2>. QED BY <1>3, <2>1, <2>2, Empty DEF SenderOK
<1>. QED BY <1>3, <1>4, <1>5, <1>6 DEF SenderInv

\* What the mode allows of a payload is at most its link and its bytes.
LEMMA AllowedSources ==
  ASSUME pay \in Payload
  PROVE  /\ Allowed \in Seq(Pictures) /\ Len(Allowed) <= 2
         /\ \A n \in DOMAIN Allowed : Allowed[n] \in {pay.link, pay.data}
<1>. DEFINE a == IF pay.link # None /\ lib.mode # "local" THEN <<pay.link>> ELSE << >>
            b == IF pay.data # None /\ lib.mode # "url" THEN <<pay.data>> ELSE << >>
<1>1. /\ pay.link # None => pay.link \in Pictures
      /\ pay.data # None => pay.data \in Pictures
  BY DEF Payload, Pictures
<1>2. /\ a \in Seq(Pictures) /\ Len(a) <= 1 /\ \A n \in DOMAIN a : a[n] = pay.link
  <2>1. CASE a = << >>
    BY <2>1, Empty
  <2>2. CASE pay.link # None /\ a = <<pay.link>>
    BY <1>1, <2>2
  <2>. QED BY <2>1, <2>2
<1>3. /\ b \in Seq(Pictures) /\ Len(b) <= 1 /\ \A n \in DOMAIN b : b[n] = pay.data
  <2>1. CASE b = << >>
    BY <2>1, Empty
  <2>2. CASE pay.data # None /\ b = <<pay.data>>
    BY <1>1, <2>2
  <2>. QED BY <2>1, <2>2
<1>4. Allowed = a \o b
  BY DEF Allowed
<1>. HIDE DEF a, b
<1>5. /\ a \o b \in Seq(Pictures) /\ Len(a \o b) = Len(a) + Len(b)
      /\ \A n \in 1 .. Len(a) + Len(b) : (a \o b)[n] = IF n <= Len(a) THEN a[n] ELSE b[n - Len(a)]
  BY <1>2, <1>3, ConcatProperties
<1>6. \A n \in DOMAIN (a \o b) : (a \o b)[n] \in {pay.link, pay.data}
  BY <1>2, <1>3, <1>5, LenProperties
<1>. QED BY <1>2, <1>3, <1>4, <1>5, <1>6, LenProperties

LEMMA SourcesStep ==
  ASSUME SenderInv, Sources
  PROVE  SenderInv'
<1>1. /\ at = "sources" /\ left' = Allowed /\ result = "none"
      /\ UNCHANGED <<pay, info, cache, sends, copies, shown, lost>>
      /\ IF Allowed = << >> THEN result' = "failed" /\ at' = "returned"
                               ELSE at' = "upload" /\ UNCHANGED result
  BY DEF Sources, SenderInv, SenderOK
<1>2. pay \in Payload
  BY DEF SenderInv, DeliveryType, Payload
<1>3. /\ left' \in Seq(Pictures) /\ Len(left') <= 2
      /\ \A n \in DOMAIN left' : left'[n] \in {pay.link, pay.data}
  BY <1>1, <1>2, AllowedSources
<1>4. \/ at' = "returned" /\ left' = << >> /\ result' = "failed"
      \/ at' = "upload" /\ left' # << >> /\ result' = "none"
  BY <1>1
<1>5. DeliveryType'
  BY <1>1, <1>3, <1>4 DEF SenderInv, DeliveryType, Places
<1>6. SenderOK'
  BY <1>1, <1>3, <1>4 DEF SenderInv, SenderOK, Trying
<1>7. CacheOK' /\ CacheShowsPicked'
  BY <1>1 DEF SenderInv, CacheOK, CacheShowsPicked
<1>. QED BY <1>5, <1>6, <1>7 DEF SenderInv

\* The next source, if there is one.
LEMMA NextSourceEffect ==
  ASSUME SenderInv, left # << >>, left' = Tail(left), NextSource
  PROVE  /\ left' \in Seq(Pictures) /\ Len(left') <= 2 /\ info' = None /\ result' = result
         /\ \A n \in DOMAIN left' : left'[n] \in {pay.link, pay.data}
         /\ \/ at' = "oneshot" /\ left' = << >>
            \/ at' = "upload" /\ left' # << >>
BY SourcesLeft DEF SenderInv, NextSource

LEMMA UploadStep ==
  ASSUME SenderInv, Upload
  PROVE  SenderInv'
<1>1. /\ at = "upload" /\ UNCHANGED <<pay, cache, sends, copies, shown, lost>>
      /\ left # << >> /\ result = "none"
  BY DEF Upload, UploadPosts, SenderInv, SenderOK
<1>2. CacheOK' /\ CacheShowsPicked'
  BY <1>1 DEF SenderInv, CacheOK, CacheShowsPicked
<1>3. CASE info' = Head(left) /\ at' = "post" /\ UNCHANGED <<left, result>>
  <2>1. info' \in Pictures /\ Shows(pay, info')
    BY <1>1, <1>3, SourcesLeft DEF SenderInv, Shows
  <2>2. DeliveryType'
    BY <1>1, <1>3, <2>1 DEF SenderInv, DeliveryType, Places
  <2>3. SenderOK'
    BY <1>1, <1>3, <2>1 DEF SenderInv, SenderOK, Trying, Shows
  <2>. QED BY <1>2, <2>2, <2>3 DEF SenderInv
<1>4. CASE left' = Tail(left) /\ NextSource
  <2>1. DeliveryType'
    BY <1>1, <1>4, NextSourceEffect DEF SenderInv, DeliveryType, Places
  <2>2. SenderOK'
    BY <1>1, <1>4, NextSourceEffect DEF SenderInv, SenderOK, Trying
  <2>. QED BY <1>2, <2>1, <2>2 DEF SenderInv
<1>. QED BY <1>3, <1>4 DEF Upload

LEMMA PostStep ==
  ASSUME SenderInv, Post
  PROVE  SenderInv'
<1>1. /\ at = "post" /\ UNCHANGED <<pay, sends>> /\ left # << >> /\ result = "none"
      /\ info \in Pictures /\ Shows(pay, info) /\ pay \in Payload
      /\ copies \in Nat /\ shown \subseteq Pictures /\ lost \in BOOLEAN
  BY DEF Post, SenderInv, SenderOK, DeliveryType, Payload
<1>2. CASE /\ Reaches(info) /\ UNCHANGED lost /\ Store(Key(pay), info)
           /\ Return("sent")
  <2>1. CacheOK' /\ \A k \in DOMAIN cache' : cache'[k] \in Pictures
    BY <1>1, <1>2, StoreEffect DEF SenderInv, DeliveryType
  <2>2. /\ copies' = copies + 1 /\ shown' \subseteq Pictures /\ CacheShowsPicked'
        /\ lost' = lost /\ left' = << >> /\ info' = None /\ at' = "returned" /\ result' = "sent"
    BY <1>1, <1>2, ReachesEffect DEF Return
  <2>3. DeliveryType'
    BY <1>1, <2>1, <2>2, Empty DEF SenderInv, DeliveryType, Places
  <2>4. ~lost' => copies' = 1
    BY <1>1, <2>2 DEF SenderInv, SenderOK
  <2>5. SenderOK'
    BY <1>1, <2>2, <2>4, Returned DEF Trying
  <2>. QED BY <2>1, <2>2, <2>3, <2>5 DEF SenderInv
<1>3. CASE /\ Refused \/ (Reaches(info) /\ lost' = TRUE)
           /\ left' = Tail(left) /\ NextSource /\ UNCHANGED cache
  <2>1. /\ CacheShowsPicked' /\ shown' \subseteq Pictures
        /\ copies' \in {copies, copies + 1} /\ lost' \in BOOLEAN
        /\ lost' = FALSE => copies' = copies /\ lost = FALSE
    BY <1>1, <1>3, ReachesEffect DEF Refused
  <2>2. DeliveryType'
    BY <1>1, <1>3, <2>1, NextSourceEffect DEF SenderInv, DeliveryType, Places
  <2>3. SenderOK'
    BY <1>1, <1>3, <2>1, NextSourceEffect DEF SenderInv, SenderOK, Trying
  <2>4. CacheOK'
    BY <1>3 DEF SenderInv, CacheOK
  <2>. QED BY <2>1, <2>2, <2>3, <2>4 DEF SenderInv
<1>. QED BY <1>2, <1>3 DEF Post

LEMMA OneShotStep ==
  ASSUME SenderInv, OneShot
  PROVE  SenderInv'
<1>. DEFINE p == IF pay.link # None THEN pay.link ELSE pay.data
<1>1. /\ at = "oneshot" /\ UNCHANGED <<pay, cache, sends>> /\ left = << >> /\ result = "none"
      /\ copies \in Nat /\ shown \subseteq Pictures /\ lost \in BOOLEAN
      /\ pay \in Payload /\ pay.id \in Ids /\ {pay.link, pay.data} # {None}
  BY DEF OneShot, SenderInv, SenderOK, DeliveryType, Trying, Payload
<1>2. p \in Pictures /\ Shows(pay, p)
  BY <1>1 DEF Payload, Pictures, Shows
<1>3. /\ \/ Reaches(p) /\ UNCHANGED lost /\ result' = "sent"
         \/ /\ UNCHANGED <<copies, shown, lost>> \/ (Reaches(p) /\ lost' = TRUE)
            /\ result' = "failed"
      /\ left' = << >> /\ info' = None /\ at' = "returned"
  BY DEF OneShot, Return, Refused
<1>. HIDE DEF p
<1>4. /\ CacheShowsPicked' /\ shown' \subseteq Pictures
      /\ copies' \in {copies, copies + 1} /\ lost' \in BOOLEAN /\ result' \in {"sent", "failed"}
      /\ lost' = FALSE => lost = FALSE /\ copies' = IF result' = "sent" THEN copies + 1 ELSE copies
  BY <1>1, <1>2, <1>3, ReachesEffect
<1>5. DeliveryType'
  <2>1. at' \in Places
    BY <1>3 DEF Places
  <2>2. result' \in {"none", "sent", "failed"}
    BY <1>4
  <2>3. pay' \in Payload
    BY <1>1
  <2>4. left' \in Seq(Pictures) /\ Len(left') <= 2
    BY <1>3, Empty
  <2>5. copies' \in Nat
    BY <1>4, <1>1
  <2>6. info' \in Pictures \cup {None}
    BY <1>3
  <2>7. sends' \in 0..MaxSends
    BY <1>1 DEF SenderInv, DeliveryType
  <2>8. \A k \in DOMAIN cache' : cache'[k] \in Pictures
    BY <1>1 DEF SenderInv, DeliveryType
  <2>9. lost' \in BOOLEAN /\ shown' \subseteq Pictures
    BY <1>4
  <2>. QED BY <2>1, <2>2, <2>3, <2>4, <2>5, <2>6, <2>7, <2>8, <2>9 DEF DeliveryType, Payload
<1>6. SenderOK'
  <2>1. ~lost' => copies' = IF result' = "sent" THEN 1 ELSE 0
    BY <1>1, <1>4 DEF SenderInv, SenderOK
  <2>. QED BY <1>1, <1>3, <1>4, <2>1, Returned DEF Trying
<1>7. CacheOK'
  BY <1>1 DEF SenderInv, CacheOK
<1>. QED BY <1>4, <1>5, <1>6, <1>7 DEF SenderInv

LEMMA SettleStep ==
  ASSUME SenderInv, Settle
  PROVE  SenderInv'
<1>1. /\ at = "returned" /\ UNCHANGED <<left, info, cache>> /\ result' = "none" /\ left = << >>
      /\ pay \in Payload
  BY DEF Settle, SenderInv, SenderOK, DeliveryType, Payload
<1>2. CacheOK'
  BY <1>1 DEF SenderInv, CacheOK
<1>3. CASE result = "failed" /\ sends < MaxSends
  <2>1. at' = "lookup" /\ UNCHANGED <<pay, sends, copies, shown, lost>>
    BY <1>3 DEF Settle
  <2>2. DeliveryType'
    BY <1>1, <2>1 DEF SenderInv, DeliveryType, Places
  <2>3. SenderOK'
    BY <1>1, <1>3, <2>1 DEF SenderInv, SenderOK, Trying
  <2>. QED BY <1>2, <2>1, <2>2, <2>3 DEF SenderInv, CacheShowsPicked
<1>4. CASE ~(result = "failed" /\ sends < MaxSends)
  <2>1. /\ at' = "idle" /\ pay' = NoPay /\ sends' = 0 /\ copies' = 0 /\ shown' = {}
        /\ lost' = FALSE
    BY <1>4 DEF Settle
  <2>2. pay' \in Payload /\ sends' \in 0..MaxSends
    BY <2>1, StickersAssumption DEF NoPay, Payload
  <2>3. DeliveryType'
    BY <1>1, <2>1, <2>2 DEF SenderInv, DeliveryType, Places, Payload
  <2>4. SenderOK'
    BY <1>1, <2>1 DEF SenderInv, SenderOK, Trying
  <2>. QED BY <1>2, <2>1, <2>3, <2>4 DEF SenderInv, CacheShowsPicked
<1>. QED BY <1>3, <1>4

\* A restart leaves nothing on its way.
LEMMA FreshSender ==
  ASSUME at' = "idle", pay' = NoPay, left' = << >>, info' = None, cache' = << >>,
         sends' = 0, result' = "none", copies' = 0, shown' = {}, lost' = FALSE
  PROVE  SenderInv'
<1>1. DOMAIN cache' = {}
  OBVIOUS
<1>2. pay' \in Payload /\ sends' \in 0..MaxSends
  BY StickersAssumption DEF NoPay, Payload
<1>3. DeliveryType'
  BY <1>1, <1>2, Empty DEF DeliveryType, Places, Payload
<1>4. SenderOK'
  BY Empty DEF SenderOK, Trying
<1>5. CacheOK' /\ CacheShowsPicked'
  BY <1>1 DEF CacheOK, CacheShowsPicked
<1>. QED BY <1>3, <1>4, <1>5 DEF SenderInv

\* Every step keeps what the sender's part of the invariant says.
LEMMA SenderInvStep ==
  ASSUME PanelInv, SenderInv, [StickersNext]_stickersVars
  PROVE  SenderInv'
<1>1. CASE Panel \/ UNCHANGED stickersVars
  <2>1. UNCHANGED delivery
    <3>1. CASE Panel
      BY <3>1 DEF Panel, SaveMedia, AddUpload, Look, HostAnswers, Promote,
         DropLocal, AddLink, Update, Delete, UpdateSettings
    <3>2. CASE UNCHANGED stickersVars
      BY <3>2 DEF stickersVars
    <3>. QED BY <1>1, <3>1, <3>2
  <2>2. UNCHANGED <<at, pay, left, info, cache, sends, result, copies, shown, lost>>
    BY <2>1 DEF delivery
  <2>3. DeliveryType'
    BY <2>2 DEF SenderInv, DeliveryType
  <2>4. CacheOK' /\ CacheShowsPicked'
    BY <2>2 DEF SenderInv, CacheOK, CacheShowsPicked
  <2>5. SenderOK'
    BY <2>2 DEF SenderInv, SenderOK
  <2>. QED BY <2>3, <2>4, <2>5 DEF SenderInv
<1>2. CASE Sender
  BY <1>2, PickStep, SendableStep, LookupStep, PostCachedStep, SourcesStep, UploadStep,
     PostStep, OneShotStep, SettleStep DEF Sender
<1>3. CASE Restart
  BY <1>3, FreshSender DEF Restart
<1>. QED BY <1>1, <1>2, <1>3 DEF StickersNext

-----------------------------------------------------------------------------
(* The stickers: the theorems. *)

\* The inductive invariant of Stickers holds.
LEMMA StickersInvariant == StickersSpec => []StickersIInv
<1>. DEFINE Inv == PanelInv /\ SenderInv
<1>1. StickersInit => Inv
  <2>. SUFFICES ASSUME StickersInit PROVE Inv
    OBVIOUS
  <2>1. lib = [items |-> << >>, mode |-> "auto"] /\ store = lib /\ media = {} /\ stuck = FALSE
        /\ req = [r \in Requests |-> Idle]
    BY DEF StickersInit
  <2>2. lib \in Library /\ DOMAIN lib.items = {}
    <3>1. << >> \in [{} -> Item] /\ DOMAIN << >> = {}
      OBVIOUS
    <3>. QED BY <2>1, <3>1, LibraryMade DEF Modes
  <2>3. Idle \in Request /\ Idle.id = None /\ Idle.file = None
    BY DEF Idle, Request
  <2>4. PanelInv
    BY <2>1, <2>2, <2>3
       DEF PanelInv, LibraryType, LibraryOK, RequestsOK, RequestOK
  <2>5. SenderInv
    <3>1. pay \in Payload /\ sends \in 0..MaxSends /\ DOMAIN cache = {}
      BY StickersAssumption DEF StickersInit, NoPay, Payload
    <3>2. DeliveryType
      BY <3>1, Empty DEF StickersInit, DeliveryType, Places, Payload
    <3>3. SenderOK
      BY Empty DEF StickersInit, SenderOK, Trying
    <3>4. CacheOK /\ CacheShowsPicked
      BY <3>1 DEF StickersInit, CacheOK, CacheShowsPicked
    <3>. QED BY <3>2, <3>3, <3>4 DEF SenderInv
  <2>. QED BY <2>4, <2>5
<1>2. Inv /\ [StickersNext]_stickersVars => Inv'
  BY PanelInvStep, SenderInvStep
<1>3. Inv => StickersIInv
  BY DEF PanelInv, SenderInv, StickersIInv, StickersTypeOK
<1>. HIDE DEF Inv
<1>. QED BY <1>1, <1>2, <1>3, PTL DEF StickersSpec

\* Every variable of the stickers keeps its type.
THEOREM StickerTypesCorrect == StickersSpec => []StickersTypeOK
<1>1. StickersIInv => StickersTypeOK
  BY DEF StickersIInv
<1>. QED BY <1>1, StickersInvariant, PTL

\* A local entry has its file, after any crash and whatever becomes of a promotion
\* or a deletion.
THEOREM FilesKeptCorrect == StickersSpec => []FilesKept
<1>1. StickersIInv => FilesKept
  BY DEF StickersIInv, LibraryOK, FilesKept
<1>. QED BY <1>1, StickersInvariant, PTL

\* So the next Load has nothing to clean up: no entry and no file name is dropped.
THEOREM LoadDropsNothing == StickersSpec => [](Normalized(store) = store)
<1>1. StickersIInv => Normalized(store) = store
  BY NormalizedKeeps DEF StickersIInv, StickersTypeOK, PanelInv
<1>. QED BY <1>1, StickersInvariant, PTL

\* A sticker shows the link or the bytes its payload has and, of the cache, nothing
\* but what shares the key: an earlier local copy behind a link, a picture of the same
\* fingerprint without one.
THEOREM CacheShowsPickedCorrect == StickersSpec => []CacheShowsPicked
<1>1. StickersIInv => CacheShowsPicked
  BY DEF StickersIInv
<1>. QED BY <1>1, StickersInvariant, PTL

\* So an edit shows at once if the fingerprint, which looks at 128 bytes of a picture,
\* tells all pictures apart.
THEOREM EditedPictureShownCorrect ==
  ASSUME \A f, g \in Files : Fingerprint[f] = Fingerprint[g] => f = g
  PROVE  StickersSpec => []EditedPictureShown
<1>1. StickersIInv => EditedPictureShown
  <2>. SUFFICES ASSUME StickersIInv, NEW p \in shown
                PROVE  p \in {pay.link, pay.data} \/ (pay.link # None /\ p \in Files)
    BY DEF EditedPictureShown
  <2>1. Shows(pay, p) /\ p \in Pictures
    BY DEF StickersIInv, CacheShowsPicked, StickersTypeOK, DeliveryType
  <2>2. /\ {pay.link, pay.data} # {None}
        /\ pay.data \in Files \cup {None}
    BY DEF StickersIInv, StickersTypeOK, DeliveryType, SenderOK, Places, Trying
  <2>. QED BY <2>1, <2>2 DEF Shows
<1>. QED BY <1>1, StickersInvariant, PTL

\* As long as no answer is lost, no fallback and no retry sends a second copy.
THEOREM OneCopyUnlessLostCorrect == StickersSpec => []OneCopyUnlessLost
<1>1. StickersIInv => OneCopyUnlessLost
  BY DEF StickersIInv, SenderOK, OneCopyUnlessLost
<1>. QED BY <1>1, StickersInvariant, PTL

-----------------------------------------------------------------------------
(* Recursive functions exist, and the least counterexample.                 *)

\* A set of numbers has a least one.
LEMMA Least ==
  ASSUME NEW S, S \subseteq Nat, S # {}
  PROVE  \E m \in S : \A n \in S : m <= n
<1>. DEFINE R == {p \in Nat \X Nat : p[1] < p[2]}
<1>0. R = OpToRel(<, Nat)
  BY Zenon DEF OpToRel
<1>1. IsWellFoundedOn(R, Nat)
  BY <1>0, NatLessThanWellFounded, Zenon
<1>2. PICK m \in S : \A n \in S : <<n, m>> \notin R
  BY <1>1, WFMin
<1>3. \A n \in S : ~ (n < m)
  BY <1>2
<1>. QED BY <1>3

\* Induction, as a fact about a set of numbers.
LEMMA AllNumbers ==
  ASSUME NEW S, \A n \in Nat : (\A m \in Nat : m < n => m \in S) => n \in S
  PROVE  Nat \subseteq S
<1>. SUFFICES ASSUME Nat \ S # {} PROVE FALSE
  OBVIOUS
<1>1. PICK n \in Nat \ S : \A m \in Nat \ S : n <= m
  BY Least
<1>. QED BY <1>1

\* One unfolding of a recursion that stops on some arguments and goes on at succ elsewhere.
Step(f, s, stop, succ, base, comb) ==
  IF s \in stop THEN base[s] ELSE comb[<<s, f[succ[s]]>>]

\* The recursion ends: its argument gets smaller.
Recursive(D, V, size, stop, succ, base, comb) ==
  /\ size \in [D -> Nat] /\ stop \in SUBSET D
  /\ succ \in [D -> D] /\ base \in [D -> V] /\ comb \in [D \X V -> V]
  /\ \A s \in D \ stop : size[succ[s]] < size[s]

\* Such a recursion has a function that satisfies it.
LEMMA Recursion ==
  ASSUME NEW D, NEW V, NEW size, NEW stop, NEW succ, NEW base, NEW comb,
         Recursive(D, V, size, stop, succ, base, comb)
  PROVE  \E f \in [D -> V] : \A s \in D : f[s] = Step(f, s, stop, succ, base, comb)
<1>. DEFINE St(f, s) == Step(f, s, stop, succ, base, comb)
            Upto(f, n) == \A s \in D : size[s] <= n => f[s] = St(f, s)
            Good == {n \in Nat : \E f \in [D -> V] : Upto(f, n)}
<1>0. /\ size \in [D -> Nat] /\ stop \in SUBSET D
      /\ succ \in [D -> D] /\ base \in [D -> V] /\ comb \in [D \X V -> V]
      /\ \A s \in D \ stop : size[succ[s]] < size[s]
  BY DEF Recursive
<1>1. \A f \in [D -> V], s \in D : St(f, s) \in V
  BY <1>0 DEF Step
<1>2. \A n \in Nat : (\A m \in Nat : m < n => m \in Good) => n \in Good
  <2>. SUFFICES ASSUME NEW n \in Nat, \A m \in Nat : m < n => m \in Good
                PROVE  \E g \in [D -> V] : Upto(g, n)
    OBVIOUS
  <2>1. PICK f \in [D -> V] : \A s \in D : size[s] < n => f[s] = St(f, s)
    <3>1. CASE n = 0
      BY <1>0, <3>1
    <3>2. CASE n # 0
      <4>1. n - 1 \in Nat /\ n - 1 < n
        BY <3>2
      <4>2. PICK f \in [D -> V] : Upto(f, n - 1)
        BY <4>1
      <4>. QED BY <1>0, <4>1, <4>2
    <3>. QED BY <3>1, <3>2
  <2>. DEFINE g == [s \in D |-> St(f, s)]
  <2>2. g \in [D -> V]
    BY <1>1
  <2>3. ASSUME NEW s \in D, size[s] <= n PROVE g[s] = St(g, s)
    <3>1. CASE s \in stop
      BY <3>1 DEF Step
    <3>2. CASE s \notin stop
      <4>1. succ[s] \in D /\ size[succ[s]] < n
        BY <1>0, <2>3, <3>2
      <4>2. g[succ[s]] = f[succ[s]]
        BY <1>0, <4>1, <2>1
      <4>. QED BY <3>2, <4>2 DEF Step
    <3>. QED BY <3>1, <3>2
  <2>. QED BY <2>2, <2>3
<1>3. \A n \in Nat : \E f \in [D -> V] : Upto(f, n)
  <2>. HIDE DEF Good
  <2>1. Nat \subseteq Good
    BY <1>2, AllNumbers
  <2>. QED BY <2>1 DEF Good
<1>4. ASSUME NEW f \in [D -> V], NEW g \in [D -> V], NEW n \in Nat, NEW m \in Nat,
             Upto(f, n), Upto(g, m)
      PROVE  \A s \in D : size[s] <= n /\ size[s] <= m => f[s] = g[s]
  <2>. DEFINE Same == {k \in Nat : \A s \in D : size[s] = k /\ k <= n /\ k <= m => f[s] = g[s]}
  <2>1. ASSUME NEW k \in Nat, \A l \in Nat : l < k => l \in Same PROVE k \in Same
    <3>. SUFFICES ASSUME NEW s \in D, size[s] = k, k <= n, k <= m PROVE f[s] = g[s]
      OBVIOUS
    <3>1. f[s] = St(f, s) /\ g[s] = St(g, s)
      BY <1>4
    <3>2. CASE s \in stop
      BY <3>1, <3>2 DEF Step
    <3>3. CASE s \notin stop
      <4>1. succ[s] \in D /\ size[succ[s]] < k /\ size[succ[s]] \in Nat
        BY <1>0, <3>3
      <4>2. f[succ[s]] = g[succ[s]]
        BY <1>0, <4>1, <2>1
      <4>. QED BY <3>1, <3>3, <4>2 DEF Step
    <3>. QED BY <3>2, <3>3
  <2>2. Nat \subseteq Same
    <3>. HIDE DEF Same
    <3>. QED BY <2>1, AllNumbers
  <2>. QED BY <1>0, <2>2
<1>. DEFINE At(n) == CHOOSE f \in [D -> V] : Upto(f, n)
            F == [s \in D |-> At(size[s])[s]]
<1>5. \A n \in Nat : At(n) \in [D -> V] /\ Upto(At(n), n)
  BY <1>3
<1>6. F \in [D -> V]
  <2>. HIDE DEF At
  <2>. QED BY <1>0, <1>5
<1>7. ASSUME NEW s \in D PROVE F[s] = St(F, s)
  <2>. HIDE DEF At
  <2>1. F[s] = St(At(size[s]), s)
    BY <1>0, <1>5
  <2>2. CASE s \in stop
    BY <2>1, <2>2 DEF Step
  <2>3. CASE s \notin stop
    <3>1. succ[s] \in D /\ size[succ[s]] < size[s] /\ size[succ[s]] \in Nat /\ size[s] \in Nat
      BY <1>0, <2>3
    <3>2. At(size[s])[succ[s]] = At(size[succ[s]])[succ[s]]
      <4>. DEFINE a == At(size[s])
                  b == At(size[succ[s]])
      <4>1. a \in [D -> V] /\ Upto(a, size[s]) /\ b \in [D -> V] /\ Upto(b, size[succ[s]])
        BY <3>1, <1>5
      <4>. HIDE DEF a, b, Upto
      <4>2. \A t \in D : size[t] <= size[s] /\ size[t] <= size[succ[s]] => a[t] = b[t]
        BY <4>1, <3>1, <1>4
      <4>3. a[succ[s]] = b[succ[s]]
        BY <4>2, <3>1
      <4>. QED BY <4>3 DEF a, b
    <3>. QED BY <2>1, <2>3, <3>1, <3>2 DEF Step
  <2>. QED BY <2>2, <2>3
<1>. QED BY <1>6, <1>7

-----------------------------------------------------------------------------
(* Texts in pieces.                                                         *)

\* The function FlattenSeq is defined by.
Flattens(f, s) == f = [i \in 1..Len(s) |-> IF i = 1 THEN s[i] ELSE f[i - 1] \o s[i]]

\* It exists, so FlattenSeq is its last value.
LEMMA FlattensExists ==
  ASSUME NEW S, NEW s \in Seq(Seq(S)), s # << >>
  PROVE  \E f : Flattens(f, s) /\ FlattenSeq(s) = f[Len(s)]
<1>. DEFINE n == Len(s)
            D == 1..n
            size == [i \in D |-> i]
            succ == [i \in D |-> IF i = 1 THEN 1 ELSE i - 1]
            base == [i \in D |-> s[i]]
            comb == [p \in D \X Seq(S) |-> p[2] \o s[p[1]]]
<1>1. n \in Nat \ {0} /\ \A i \in D : s[i] \in Seq(S)
  BY EmptySeq, ElementOfSeq
<1>. HIDE DEF n
<1>2. /\ size \in [D -> Nat] /\ succ \in [D -> D] /\ base \in [D -> Seq(S)]
      /\ {1} \in SUBSET D /\ \A i \in D \ {1} : size[succ[i]] < size[i]
  BY <1>1
<1>3. comb \in [D \X Seq(S) -> Seq(S)]
  BY <1>1, ConcatProperties
<1>4. \E f \in [D -> Seq(S)] : \A i \in D : f[i] = Step(f, i, {1}, succ, base, comb)
  <2>1. Recursive(D, Seq(S), size, {1}, succ, base, comb)
    BY <1>2, <1>3 DEF Recursive
  <2>. HIDE DEF size, succ, base, comb, D
  <2>. QED BY <2>1, Recursion
<1>5. PICK f \in [D -> Seq(S)] : \A i \in D : f[i] = Step(f, i, {1}, succ, base, comb)
  BY <1>4
<1>6. \A i \in D : f[i] = IF i = 1 THEN s[i] ELSE f[i - 1] \o s[i]
  <2>. SUFFICES ASSUME NEW i \in D PROVE f[i] = IF i = 1 THEN s[i] ELSE f[i - 1] \o s[i]
    OBVIOUS
  <2>1. f[i] = IF i = 1 THEN base[i] ELSE comb[<<i, f[succ[i]]>>]
    BY <1>5 DEF Step
  <2>2. CASE i = 1
    BY <2>1, <2>2
  <2>3. CASE i # 1
    <3>1. succ[i] = i - 1 /\ i - 1 \in D
      BY <1>1, <2>3
    <3>2. f[i - 1] \in Seq(S)
      BY <1>5, <3>1
    <3>3. comb[<<i, f[i - 1]>>] = f[i - 1] \o s[i]
      BY <3>2
    <3>. QED BY <2>1, <2>3, <3>1, <3>3
  <2>. QED BY <2>2, <2>3
<1>7. Flattens(f, s)
  BY <1>5, <1>6 DEF Flattens, n
<1>. DEFINE g == CHOOSE g : g = [i \in 1..Len(s) |-> IF i = 1 THEN s[i] ELSE g[i - 1] \o s[i]]
<1>8. Flattens(g, s)
  BY <1>7 DEF Flattens
<1>9. FlattenSeq(s) = g[Len(s)]
  BY <1>1 DEF FlattenSeq, n
<1>. QED BY <1>8, <1>9

\* It looks at no more of the sequence than its first parts.
LEMMA FlattensTo ==
  ASSUME NEW S, NEW s \in Seq(Seq(S)), NEW t \in Seq(Seq(S)), NEW f, NEW g,
         Flattens(f, s), Flattens(g, t), Len(s) <= Len(t), \A i \in 1..Len(s) : s[i] = t[i]
  PROVE  \A i \in 1..Len(s) : f[i] = g[i] /\ f[i] \in Seq(S)
<1>. DEFINE Same == {i \in Nat : i \in 1..Len(s) => f[i] = g[i] /\ f[i] \in Seq(S)}
<1>1. ASSUME NEW i \in Nat, \A j \in Nat : j < i => j \in Same PROVE i \in Same
  <2>. SUFFICES ASSUME i \in 1..Len(s) PROVE f[i] = g[i] /\ f[i] \in Seq(S)
    OBVIOUS
  <2>1. /\ f[i] = IF i = 1 THEN s[i] ELSE f[i - 1] \o s[i]
        /\ g[i] = IF i = 1 THEN s[i] ELSE g[i - 1] \o s[i]
    <3>1. Len(s) \in Nat /\ Len(t) \in Nat
      BY LenProperties
    <3>2. i \in 1..Len(s) /\ i \in 1..Len(t)
      BY <3>1
    <3>3. t[i] = s[i]
      BY <3>2
    <3>. HIDE DEF Same
    <3>. QED BY <3>2, <3>3 DEF Flattens
  <2>2. s[i] \in Seq(S)
    BY ElementOfSeq
  <2>3. CASE i = 1
    BY <2>1, <2>2, <2>3
  <2>4. CASE i # 1
    <3>1. i - 1 \in Nat /\ i - 1 < i /\ i - 1 \in 1..Len(s)
      BY <2>4
    <3>2. f[i - 1] = g[i - 1] /\ f[i - 1] \in Seq(S)
      BY <1>1, <3>1
    <3>. QED BY <2>1, <2>2, <2>4, <3>2, ConcatProperties
  <2>. QED BY <2>3, <2>4
<1>2. Nat \subseteq Same
  <2>. HIDE DEF Same
  <2>. QED BY <1>1, AllNumbers
<1>. QED BY <1>2

\* One part more joins the end.
LEMMA FlattenAppend ==
  ASSUME NEW S, NEW s \in Seq(Seq(S)), NEW x \in Seq(S)
  PROVE  /\ FlattenSeq(<< >>) = << >>
         /\ FlattenSeq(s) \in Seq(S)
         /\ FlattenSeq(Append(s, x)) = FlattenSeq(s) \o x
<1>1. FlattenSeq(<< >>) = << >>
  BY DEF FlattenSeq
<1>. DEFINE t == Append(s, x)
            n == Len(s)
<1>2. t \in Seq(Seq(S)) /\ Len(t) = n + 1 /\ t[n + 1] = x /\ n \in Nat /\ t # << >>
      /\ \A i \in 1..n : t[i] = s[i]
  BY AppendProperties
<1>. HIDE DEF t
<1>3. PICK g : Flattens(g, t) /\ FlattenSeq(t) = g[n + 1]
  BY <1>2, FlattensExists
<1>4. CASE s = << >>
  <2>1. n = 0 /\ FlattenSeq(t) = t[1]
    BY <1>2, <1>3, <1>4 DEF Flattens
  <2>2. FlattenSeq(t) = x
    BY <1>2, <2>1
  <2>. QED BY <1>1, <1>4, <2>2, EmptySeq, ConcatEmptySeq DEF t
<1>5. CASE s # << >>
  <2>1. PICK f : Flattens(f, s) /\ FlattenSeq(s) = f[n]
    BY <1>5, FlattensExists
  <2>2. n \in 1..n
    BY <1>2, <1>5, EmptySeq
  <2>3. f[n] = g[n] /\ f[n] \in Seq(S)
    <3>1. \A i \in 1..Len(s) : f[i] = g[i] /\ f[i] \in Seq(S)
      <4>1. Len(s) <= Len(t)
        BY <1>2
      <4>. HIDE DEF n
      <4>. QED BY <1>2, <1>3, <2>1, <4>1, FlattensTo DEF n
    <3>. QED BY <3>1, <2>2
  <2>4. g[n + 1] = g[n] \o x
    <3>1. n + 1 \in 1..Len(t) /\ n + 1 # 1 /\ (n + 1) - 1 = n
      BY <1>2, <2>2
    <3>. QED BY <1>2, <1>3, <3>1 DEF Flattens
  <2>. QED BY <1>1, <1>3, <2>1, <2>3, <2>4 DEF t
<1>. QED BY <1>4, <1>5

\* Min and Max choose a least and a greatest element.
LEMMA MinOf ==
  ASSUME NEW S, S \subseteq Nat, S # {}
  PROVE  Min(S) \in S /\ \A n \in S : Min(S) <= n
BY Least DEF Min

LEMMA MaxOf ==
  ASSUME NEW n \in Nat, NEW S, S \subseteq 0..n, S # {}
  PROVE  Max(S) \in S /\ \A m \in S : m <= Max(S)
<1>. DEFINE T == {k \in 0..n : n - k \in S}
<1>1. T \subseteq Nat /\ T # {}
  <2>1. PICK m \in S : TRUE
    OBVIOUS
  <2>2. n - m \in 0..n /\ n - (n - m) = m
    BY <2>1
  <2>. QED BY <2>1, <2>2
<1>2. PICK k \in T : \A l \in T : k <= l
  <2>. HIDE DEF T
  <2>. QED BY <1>1, Least
<1>3. PICK m \in S : m = n - k
  BY <1>2
<1>4. ASSUME NEW l \in S PROVE l <= m
  <2>1. l \in 0..n /\ n - l \in 0..n /\ n - (n - l) = l
    OBVIOUS
  <2>2. k <= n - l
    BY <2>1, <1>2
  <2>. QED BY <1>2, <1>3, <2>1, <2>2
<1>. QED BY <1>3, <1>4 DEF Max

\* Texts of the same symbols are the same.
LEMMA SameText ==
  ASSUME NEW s \in Text, NEW t \in Text, Len(s) = Len(t), \A i \in 1..Len(s) : s[i] = t[i]
  PROVE  s = t
BY SeqEqual DEF Text

LEMMA LenText == ASSUME NEW s \in Text PROVE Len(s) \in Nat /\ (Len(s) = 0 <=> s = << >>)
BY EmptySeq, LenProperties DEF Text

LEMMA EmptyText == << >> \in Text /\ Len(<< >>) = 0
BY EmptySeq DEF Text

\* Joined texts.
LEMMA JoinedText ==
  ASSUME NEW s \in Text, NEW t \in Text
  PROVE  /\ s \o t \in Text /\ Len(s \o t) = Len(s) + Len(t)
         /\ \A i \in 1..Len(s) : (s \o t)[i] = s[i]
         /\ \A i \in 1..Len(t) : (s \o t)[Len(s) + i] = t[i]
<1>1. /\ s \o t \in Text /\ Len(s \o t) = Len(s) + Len(t)
      /\ \A i \in 1..Len(s) + Len(t) : (s \o t)[i] = IF i <= Len(s) THEN s[i] ELSE t[i - Len(s)]
  BY ConcatProperties DEF Text
<1>2. Len(s) \in Nat /\ Len(t) \in Nat
  BY LenText
<1>. QED BY <1>1, <1>2

LEMMA JoinEmpty == ASSUME NEW s \in Text PROVE s \o << >> = s /\ << >> \o s = s
BY ConcatEmptySeq DEF Text

LEMMA JoinAssoc ==
  ASSUME NEW s \in Text, NEW t \in Text, NEW u \in Text
  PROVE  (s \o t) \o u = s \o (t \o u)
BY ConcatAssociative DEF Text

\* A common beginning can be taken off.
LEMMA JoinCancel ==
  ASSUME NEW s \in Text, NEW t \in Text, NEW u \in Text, s \o t = s \o u
  PROVE  t = u
<1>1. Len(s) \in Nat /\ Len(t) \in Nat /\ Len(u) \in Nat
  BY LenText
<1>2. Len(t) = Len(u)
  BY <1>1, JoinedText
<1>3. ASSUME NEW i \in 1..Len(t) PROVE t[i] = u[i]
  <2>1. (s \o t)[Len(s) + i] = t[i] /\ (s \o u)[Len(s) + i] = u[i]
    BY <1>2, JoinedText
  <2>. QED BY <2>1
<1>. QED BY <1>2, <1>3, SameText

\* Parts of texts are texts.
LEMMA FirstText ==
  ASSUME NEW s \in Text, NEW i \in 0..Len(s)
  PROVE  /\ SubSeq(s, 1, i) \in Text /\ Len(SubSeq(s, 1, i)) = i
         /\ \A k \in 1..i : SubSeq(s, 1, i)[k] = s[k]
<1>1. Len(s) \in Nat /\ \A k \in 1..i : s[k] \in Written \cup Canned
  BY LenText, ElementOfSeq DEF Text
<1>. QED BY <1>1, SubSeqProperties DEF Text

LEMMA PartText ==
  ASSUME NEW s \in Text, NEW i \in 1..Len(s) + 1, NEW j \in i - 1..Len(s)
  PROVE  /\ SubSeq(s, i, j) \in Text /\ Len(SubSeq(s, i, j)) = j - i + 1
         /\ \A k \in 1..j - i + 1 : SubSeq(s, i, j)[k] = s[i + k - 1]
<1>1. Len(s) \in Nat /\ \A k \in i..j : s[k] \in Written \cup Canned
  BY LenText, ElementOfSeq DEF Text
<1>2. /\ SubSeq(s, i, j) \in Text
      /\ Len(SubSeq(s, i, j)) = IF i <= j THEN j - i + 1 ELSE 0
      /\ \A k \in 1..j - i + 1 : SubSeq(s, i, j)[k] = s[i + k - 1]
  BY <1>1, SubSeqProperties DEF Text
<1>. QED BY <1>1, <1>2

LEMMA AfterText ==
  ASSUME NEW s \in Text, NEW i \in 0..Len(s)
  PROVE  /\ After(s, i) \in Text /\ Len(After(s, i)) = Len(s) - i
         /\ \A k \in 1..Len(s) - i : After(s, i)[k] = s[i + k]
<1>1. Len(s) \in Nat /\ i + 1 \in 1..Len(s) + 1 /\ Len(s) \in i..Len(s)
  BY LenText
<1>2. /\ After(s, i) \in Text /\ Len(After(s, i)) = Len(s) - (i + 1) + 1
      /\ \A k \in 1..Len(s) - (i + 1) + 1 : After(s, i)[k] = s[(i + 1) + k - 1]
  BY <1>1, PartText DEF After
<1>. QED BY <1>1, <1>2

\* A text is what comes first and what comes after.
LEMMA Split ==
  ASSUME NEW s \in Text, NEW i \in 0..Len(s)
  PROVE  SubSeq(s, 1, i) \o After(s, i) = s
<1>1. Len(s) \in Nat
  BY LenText
<1>. DEFINE p == SubSeq(s, 1, i)
            q == After(s, i)
<1>2. /\ p \in Text /\ Len(p) = i /\ \A k \in 1..i : p[k] = s[k]
      /\ q \in Text /\ Len(q) = Len(s) - i /\ \A k \in 1..Len(s) - i : q[k] = s[i + k]
  BY FirstText, AfterText
<1>. HIDE DEF p, q
<1>3. /\ p \o q \in Text /\ Len(p \o q) = Len(s)
      /\ \A k \in 1..i : (p \o q)[k] = p[k]
      /\ \A k \in 1..Len(s) - i : (p \o q)[i + k] = q[k]
  BY <1>1, <1>2, JoinedText
<1>4. ASSUME NEW k \in 1..Len(s) PROVE (p \o q)[k] = s[k]
  <2>1. CASE k <= i
    BY <1>2, <1>3, <2>1
  <2>2. CASE k > i
    <3>1. PICK l \in 1..Len(s) - i : k = i + l
      <4>1. k - i \in 1..Len(s) - i /\ k = i + (k - i)
        BY <1>1, <2>2
      <4>. QED BY <4>1
    <3>2. (p \o q)[i + l] = q[l] /\ q[l] = s[i + l]
      BY <1>2, <1>3
    <3>. QED BY <3>1, <3>2
  <2>3. k <= i \/ k > i
    BY <1>1
  <2>. QED BY <2>1, <2>2, <2>3, Zenon
<1>5. p \o q = s
  BY <1>3, <1>4, SameText
<1>. QED BY <1>5 DEF p, q

\* Where joined texts are cut.
LEMMA SplitJoined ==
  ASSUME NEW s \in Text, NEW t \in Text, NEW i \in 0..Len(s)
  PROVE  SubSeq(s \o t, 1, i) = SubSeq(s, 1, i) /\ After(s \o t, i) = After(s, i) \o t
<1>. DEFINE p == SubSeq(s, 1, i)
            q == After(s, i)
            u == s \o t
<1>1. Len(s) \in Nat /\ Len(t) \in Nat /\ u \in Text /\ Len(u) = Len(s) + Len(t) /\ i \in 0..Len(u)
  BY LenText, JoinedText
<1>2. p \in Text /\ q \in Text /\ p \o q = s /\ Len(p) = i /\ \A k \in 1..i : p[k] = s[k]
  BY FirstText, AfterText, Split
<1>3. /\ SubSeq(u, 1, i) \in Text /\ Len(SubSeq(u, 1, i)) = i
      /\ \A k \in 1..i : SubSeq(u, 1, i)[k] = u[k]
      /\ After(u, i) \in Text /\ SubSeq(u, 1, i) \o After(u, i) = u
  BY <1>1, FirstText, AfterText, Split
<1>4. \A k \in 1..i : u[k] = s[k]
  BY <1>1, JoinedText
<1>. HIDE DEF p, q, u
<1>5. SubSeq(u, 1, i) = p
  BY <1>2, <1>3, <1>4, SameText
<1>6. p \o (q \o t) = u /\ q \o t \in Text
  <2>1. p \in Text /\ q \in Text /\ p \o q = s
    BY <1>2
  <2>2. (p \o q) \o t = p \o (q \o t)
    BY <2>1, JoinAssoc, Zenon
  <2>3. q \o t \in Text
    BY <2>1, JoinedText
  <2>. QED BY <2>1, <2>2, <2>3 DEF u
<1>7. After(u, i) = q \o t
  <2>1. p \o After(u, i) = p \o (q \o t)
    BY <1>3, <1>5, <1>6
  <2>. QED BY <1>2, <1>3, <1>6, <2>1, JoinCancel
<1>. QED BY <1>5, <1>7 DEF p, q, u

-----------------------------------------------------------------------------
(* Where a text opens a mark, and where that closes.                        *)

\* What opens a call, and what opens a sticker.
Openings == {Call, Sticker}
\* A mark opens at place k.
Here(open, s, k) == s[k] = "[" /\ s[k + 1] = open[2]

LEMMA OpeningIs ==
  ASSUME NEW open \in Openings
  PROVE  /\ open[1] = "[" /\ open[2] # "[" /\ open[2] # "]" /\ open \in Text /\ Len(open) = 2
         /\ \A x, y : <<x, y>> = open <=> x = "[" /\ y = open[2]
<1>1. open = <<"[", "cap">> \/ open = <<"[", "sti">>
  BY DEF Openings, Call, Sticker
<1>2. open \in Text
  <2>1. {"[", "cap", "sti"} \subseteq Written \cup Canned
    BY DEF Written
  <2>2. \A S : \A x, y \in S : <<x, y>> \in Seq(S)
    OBVIOUS
  <2>3. open \in Seq({"[", "cap", "sti"})
    BY <1>1, <2>2
  <2>. QED BY <2>1, <2>3, SeqMonotonic DEF Text
<1>3. open[1] = "[" /\ open[2] # "[" /\ open[2] # "]" /\ Len(open) = 2
  BY <1>1
<1>4. \A x, y : <<x, y>> = open <=> x = "[" /\ y = open[2]
  <2>1. \A x, y : <<x, y>> = <<"[", "cap">> <=> x = "[" /\ y = "cap"
    OBVIOUS
  <2>2. \A x, y : <<x, y>> = <<"[", "sti">> <=> x = "[" /\ y = "sti"
    OBVIOUS
  <2>. QED BY <1>1, <2>1, <2>2
<1>. QED BY <1>2, <1>3, <1>4

\* The place where a text opens is the first where a mark does.
LEMMA OpensAtIs ==
  ASSUME NEW open \in Openings, NEW s \in Text
  PROVE  \/ OpensAt(open, s) = 0 /\ \A k \in 1..Len(s) - 1 : ~Here(open, s, k)
         \/ /\ OpensAt(open, s) \in 1..Len(s) - 1 /\ Here(open, s, OpensAt(open, s))
            /\ \A k \in 1..OpensAt(open, s) - 1 : ~Here(open, s, k)
<1>. DEFINE places == {i \in 1..Len(s) - 1 : <<s[i], s[i + 1]>> = open}
<1>1. OpensAt(open, s) = IF places = {} THEN 0 ELSE Min(places)
  BY DEF OpensAt
<1>2. \A k \in 1..Len(s) - 1 : k \in places <=> Here(open, s, k)
  BY OpeningIs DEF Here
<1>3. places \subseteq 1..Len(s) - 1 /\ places \subseteq Nat /\ Len(s) \in Nat
  BY LenText
<1>. HIDE DEF places
<1>4. CASE places = {}
  BY <1>1, <1>2, <1>4
<1>5. CASE places # {}
  <2>. DEFINE i == Min(places)
  <2>1. i \in places /\ \A n \in places : i <= n
    BY <1>3, <1>5, MinOf
  <2>. HIDE DEF i
  <2>2. i \in 1..Len(s) - 1 /\ \A k \in 1..i - 1 : k \in 1..Len(s) - 1 /\ k \notin places
    BY <1>3, <2>1
  <2>3. Here(open, s, i) /\ \A k \in 1..i - 1 : ~Here(open, s, k)
    BY <1>2, <2>1, <2>2
  <2>. QED BY <1>1, <1>5, <2>2, <2>3 DEF i
<1>. QED BY <1>4, <1>5

\* Where a text opens, said of any number.
LEMMA OpensAtWhere ==
  ASSUME NEW open \in Openings, NEW s \in Text
  PROVE  /\ (\A k \in 1..Len(s) - 1 : ~Here(open, s, k)) => OpensAt(open, s) = 0
         /\ \A i \in 1..Len(s) - 1 :
              Here(open, s, i) /\ (\A k \in 1..i - 1 : ~Here(open, s, k)) => OpensAt(open, s) = i
<1>1. Len(s) \in Nat
  BY LenText
<1>2. (\A k \in 1..Len(s) - 1 : ~Here(open, s, k)) => OpensAt(open, s) = 0
  BY <1>1, OpensAtIs
<1>3. ASSUME NEW i \in 1..Len(s) - 1, Here(open, s, i), \A k \in 1..i - 1 : ~Here(open, s, k)
      PROVE  OpensAt(open, s) = i
  <2>. DEFINE j == OpensAt(open, s)
  <2>1. j # 0
    BY <1>3, OpensAtIs
  <2>2. j \in 1..Len(s) - 1 /\ Here(open, s, j) /\ \A k \in 1..j - 1 : ~Here(open, s, k)
    BY <2>1, OpensAtIs
  <2>. HIDE DEF j
  <2>3. ~(j < i) /\ ~(i < j)
    <3>1. j < i => j \in 1..i - 1
      BY <1>1, <2>2
    <3>2. i < j => i \in 1..j - 1
      BY <1>1, <2>2
    <3>. QED BY <1>3, <2>2, <3>1, <3>2
  <2>. QED BY <1>1, <2>2, <2>3 DEF j
<1>. QED BY <1>2, <1>3

\* The place where it closes is the first closing symbol behind it.
LEMMA ClosesAtIs ==
  ASSUME NEW open \in Openings, NEW s \in Text
  PROVE  LET i == OpensAt(open, s)
             j == ClosesAt(open, s)
         IN \/ j = 0 /\ (i = 0 \/ \A k \in i..Len(s) : s[k] # "]")
            \/ /\ i \in 1..Len(s) - 1 /\ j \in i + 2..Len(s) /\ s[j] = "]"
               /\ \A k \in i..j - 1 : s[k] # "]"
<1>. DEFINE i == OpensAt(open, s)
            places == {k \in 1..Len(s) : i \in 1..k /\ s[k] = "]"}
<1>1. ClosesAt(open, s) = IF places = {} THEN 0 ELSE Min(places)
  BY DEF ClosesAt
<1>2. Len(s) \in Nat /\ i \in 0..Len(s) /\ (i # 0 => i \in 1..Len(s) - 1 /\ Here(open, s, i))
  BY LenText, OpensAtIs
<1>. HIDE DEF i
<1>3. \A k \in 1..Len(s) : k \in places <=> i # 0 /\ i <= k /\ s[k] = "]"
  BY <1>2
<1>4. places \subseteq 1..Len(s) /\ places \subseteq Nat
  OBVIOUS
<1>. HIDE DEF places
<1>5. CASE places = {}
  <2>1. i = 0 \/ \A k \in i..Len(s) : s[k] # "]"
    BY <1>2, <1>3, <1>5
  <2>. QED BY <1>1, <1>5, <2>1 DEF i
<1>6. CASE places # {}
  <2>. DEFINE j == Min(places)
  <2>1. j \in places /\ \A k \in places : j <= k
    BY <1>2, <1>4, <1>6, MinOf
  <2>. HIDE DEF j
  <2>2. j \in 1..Len(s) /\ i # 0 /\ i <= j /\ s[j] = "]"
    BY <1>3, <1>4, <2>1
  <2>3. s[i] = "[" /\ s[i + 1] # "]"
    BY <1>2, <2>2, OpeningIs DEF Here
  <2>4. j \in i + 2..Len(s)
    BY <1>2, <2>2, <2>3
  <2>5. \A k \in i..j - 1 : k \in 1..Len(s) /\ k \notin places
    BY <1>2, <2>1, <2>2
  <2>6. \A k \in i..j - 1 : s[k] # "]"
    BY <1>2, <1>3, <2>2, <2>5
  <2>. QED BY <1>1, <1>2, <1>6, <2>2, <2>4, <2>6 DEF i, j
<1>. QED BY <1>5, <1>6

-----------------------------------------------------------------------------
(* The scan for marks.                                                      *)

\* Induction over the length of a text, as a fact about a set of texts.
LEMMA ByLength ==
  ASSUME NEW P, \A s \in Text : (\A t \in Text : Len(t) < Len(s) => t \in P) => s \in P
  PROVE  Text \subseteq P
<1>. DEFINE S == {n \in Nat : \A s \in Text : Len(s) = n => s \in P}
<1>1. ASSUME NEW n \in Nat, \A m \in Nat : m < n => m \in S PROVE n \in S
  <2>1. \A t \in Text : Len(t) < n => t \in P
    BY <1>1, LenText
  <2>. QED BY <2>1
<1>2. Nat \subseteq S
  <2>. HIDE DEF S
  <2>. QED BY <1>1, AllNumbers
<1>. QED BY <1>2, LenText

\* What a scan returns, and one round of it.
Scanned == [out : Text, bodies : Seq(Text), rest : Text]

ScanStep(open, f, s) ==
  LET i == OpensAt(open, s)
      j == ClosesAt(open, s)
      behind == f[After(s, j)]
  IN IF j = 0
     THEN [out |-> << >>, bodies |-> << >>, rest |-> s]
     ELSE [out |-> SubSeq(s, 1, i - 1) \o behind.out,
           bodies |-> <<SubSeq(s, i + 2, j - 1)>> \o behind.bodies,
           rest |-> behind.rest]

\* A complete mark: what is before, in and behind it.
LEMMA MarkParts ==
  ASSUME NEW open \in Openings, NEW s \in Text, ClosesAt(open, s) # 0
  PROVE  LET i == OpensAt(open, s)
             j == ClosesAt(open, s)
         IN /\ i \in 1..Len(s) - 1 /\ j \in i + 2..Len(s)
            /\ SubSeq(s, 1, i - 1) \in Text /\ SubSeq(s, i + 2, j - 1) \in Text
            /\ After(s, j) \in Text /\ Len(After(s, j)) < Len(s)
<1>. DEFINE i == OpensAt(open, s)
            j == ClosesAt(open, s)
<1>1. i \in 1..Len(s) - 1 /\ j \in i + 2..Len(s) /\ Len(s) \in Nat
  BY ClosesAtIs, LenText
<1>. HIDE DEF i, j
<1>2. /\ i - 1 \in 0..Len(s) /\ i + 2 \in 1..Len(s) + 1 /\ j - 1 \in (i + 2) - 1..Len(s)
      /\ j \in 0..Len(s)
  BY <1>1
<1>3. SubSeq(s, 1, i - 1) \in Text
  BY <1>2, FirstText
<1>4. SubSeq(s, i + 2, j - 1) \in Text
  BY <1>2, PartText
<1>5. After(s, j) \in Text /\ Len(After(s, j)) = Len(s) - j
  BY <1>2, AfterText
<1>6. Len(After(s, j)) < Len(s)
  BY <1>1, <1>5
<1>. QED BY <1>1, <1>3, <1>4, <1>5, <1>6 DEF i, j

\* The recursive function of Scan exists.
LEMMA SomeScan ==
  ASSUME NEW open \in Openings
  PROVE  \E f : f = [s \in Text |-> ScanStep(open, f, s)]
<1>. DEFINE size == [s \in Text |-> Len(s)]
            stop == {s \in Text : ClosesAt(open, s) = 0}
            behind == [s \in Text |-> IF ClosesAt(open, s) = 0 THEN s ELSE After(s, ClosesAt(open, s))]
            base == [s \in Text |-> [out |-> << >>, bodies |-> << >>, rest |-> s]]
            comb == [p \in Text \X Scanned |->
                       IF p[1] \in stop THEN p[2] ELSE
                       [out |-> SubSeq(p[1], 1, OpensAt(open, p[1]) - 1) \o p[2].out,
                        bodies |-> <<SubSeq(p[1], OpensAt(open, p[1]) + 2, ClosesAt(open, p[1]) - 1)>>
                                   \o p[2].bodies,
                        rest |-> p[2].rest]]
<1>1. size \in [Text -> Nat] /\ stop \in SUBSET Text
  BY LenText
<1>2. behind \in [Text -> Text] /\ \A s \in Text \ stop : size[behind[s]] < size[s]
  BY MarkParts
<1>3. base \in [Text -> Scanned]
  BY EmptyText, EmptySeq DEF Scanned
<1>4. comb \in [Text \X Scanned -> Scanned]
  <2>. SUFFICES ASSUME NEW p \in Text \X Scanned PROVE comb[p] \in Scanned
    OBVIOUS
  <2>1. p[1] \in Text /\ p[2] \in Scanned
    OBVIOUS
  <2>2. CASE p[1] \in stop
    BY <2>1, <2>2
  <2>3. CASE p[1] \notin stop
    <3>1. /\ SubSeq(p[1], 1, OpensAt(open, p[1]) - 1) \in Text
          /\ SubSeq(p[1], OpensAt(open, p[1]) + 2, ClosesAt(open, p[1]) - 1) \in Text
      BY <2>1, <2>3, MarkParts
    <3>2. p[2].out \in Text /\ p[2].bodies \in Seq(Text) /\ p[2].rest \in Text
      BY <2>1 DEF Scanned
    <3>3. SubSeq(p[1], 1, OpensAt(open, p[1]) - 1) \o p[2].out \in Text
      BY <3>1, <3>2, JoinedText
    <3>4. \A b \in Text, bs \in Seq(Text) : <<b>> \o bs \in Seq(Text)
      BY ConcatProperties
    <3>. QED BY <2>1, <2>3, <3>1, <3>2, <3>3, <3>4 DEF Scanned
  <2>. QED BY <2>2, <2>3
<1>5. \E f \in [Text -> Scanned] : \A s \in Text : f[s] = Step(f, s, stop, behind, base, comb)
  <2>1. Recursive(Text, Scanned, size, stop, behind, base, comb)
    BY <1>1, <1>2, <1>3, <1>4 DEF Recursive
  <2>. HIDE DEF size, stop, behind, base, comb
  <2>. QED BY <2>1, Recursion
<1>6. PICK f \in [Text -> Scanned] : \A s \in Text : f[s] = Step(f, s, stop, behind, base, comb)
  BY <1>5
<1>7. ASSUME NEW s \in Text PROVE f[s] = ScanStep(open, f, s)
  <2>1. f[s] = IF s \in stop THEN base[s] ELSE comb[<<s, f[behind[s]]>>]
    BY <1>6 DEF Step
  <2>2. CASE s \in stop
    BY <2>1, <2>2 DEF ScanStep
  <2>3. CASE s \notin stop
    <3>1. behind[s] = After(s, ClosesAt(open, s)) /\ behind[s] \in Text
      BY <1>2, <2>3
    <3>2. f[behind[s]] \in Scanned
      BY <1>6, <3>1
    <3>. QED BY <2>1, <2>3, <3>1, <3>2 DEF ScanStep
  <2>. QED BY <2>2, <2>3
<1>. QED BY <1>6, <1>7

\* So Scan unfolds.
LEMMA ScanIs ==
  ASSUME NEW open \in Openings, NEW s \in Text
  PROVE  LET i == OpensAt(open, s)
             j == ClosesAt(open, s)
             behind == Scan(open, After(s, j))
         IN Scan(open, s) =
              IF j = 0
              THEN [out |-> << >>, bodies |-> << >>, rest |-> s]
              ELSE [out |-> SubSeq(s, 1, i - 1) \o behind.out,
                    bodies |-> <<SubSeq(s, i + 2, j - 1)>> \o behind.bodies,
                    rest |-> behind.rest]
<1>. DEFINE g == CHOOSE g : g = [u \in Text |-> ScanStep(open, g, u)]
<1>1. g = [u \in Text |-> ScanStep(open, g, u)]
  BY SomeScan
<1>2. \A u : Scan(open, u) = g[u]
  BY DEF Scan, ScanStep
<1>. HIDE DEF g
<1>3. g[s] = ScanStep(open, g, s)
  BY <1>1
<1>. QED BY <1>2, <1>3 DEF ScanStep

\* Its results are texts.
LEMMA ScanType ==
  ASSUME NEW open \in Openings, NEW s \in Text
  PROVE  Scan(open, s) \in Scanned /\ ClosesAt(open, Scan(open, s).rest) = 0
<1>. DEFINE P == {u \in Text : Scan(open, u) \in Scanned /\ ClosesAt(open, Scan(open, u).rest) = 0}
<1>1. ASSUME NEW u \in Text, \A t \in Text : Len(t) < Len(u) => t \in P PROVE u \in P
  <2>1. CASE ClosesAt(open, u) = 0
    <3>1. Scan(open, u) = [out |-> << >>, bodies |-> << >>, rest |-> u]
      BY <2>1, ScanIs
    <3>2. << >> \in Text /\ << >> \in Seq(Text)
      BY EmptyText, EmptySeq
    <3>3. Scan(open, u) \in Scanned
      BY <3>1, <3>2 DEF Scanned
    <3>4. Scan(open, u).rest = u
      BY <3>1
    <3>. QED BY <2>1, <3>3, <3>4
  <2>2. CASE ClosesAt(open, u) # 0
    <3>. DEFINE i == OpensAt(open, u)
                j == ClosesAt(open, u)
                behind == Scan(open, After(u, j))
                p == SubSeq(u, 1, i - 1)
                b == SubSeq(u, i + 2, j - 1)
    <3>1. p \in Text /\ b \in Text /\ After(u, j) \in Text /\ Len(After(u, j)) < Len(u)
      BY <2>2, MarkParts
    <3>2. behind \in Scanned /\ ClosesAt(open, behind.rest) = 0
      BY <1>1, <3>1
    <3>3. Scan(open, u) = [out |-> p \o behind.out, bodies |-> <<b>> \o behind.bodies, rest |-> behind.rest]
      BY <2>2, ScanIs
    <3>. HIDE DEF i, j, behind, p, b
    <3>4. p \o behind.out \in Text
      BY <3>1, <3>2, JoinedText DEF Scanned
    <3>5. <<b>> \o behind.bodies \in Seq(Text)
      BY <3>1, <3>2, ConcatProperties DEF Scanned
    <3>6. behind.rest \in Text
      BY <3>2 DEF Scanned
    <3>7. Scan(open, u) \in Scanned
      BY <3>3, <3>4, <3>5, <3>6 DEF Scanned
    <3>8. Scan(open, u).rest = behind.rest
      BY <3>3
    <3>. QED BY <3>2, <3>7, <3>8
  <2>. QED BY <2>1, <2>2
<1>2. Text \subseteq P
  <2>. HIDE DEF P
  <2>. QED BY <1>1, ByLength
<1>. QED BY <1>2

\* All and nothing of a text.
LEMMA WholeText ==
  ASSUME NEW s \in Text
  PROVE  SubSeq(s, 1, Len(s)) = s /\ After(s, Len(s)) = << >> /\ SubSeq(s, 1, 0) = << >> /\ After(s, 0) = s
<1>1. Len(s) \in Nat /\ 0 \in 0..Len(s) /\ Len(s) \in 0..Len(s)
  BY LenText
<1>2. After(s, Len(s)) \in Text /\ Len(After(s, Len(s))) = 0
  BY <1>1, AfterText
<1>3. SubSeq(s, 1, 0) \in Text /\ Len(SubSeq(s, 1, 0)) = 0
  BY <1>1, FirstText
<1>4. After(s, Len(s)) = << >> /\ SubSeq(s, 1, 0) = << >>
  BY <1>2, <1>3, LenText
<1>5. SubSeq(s, 1, Len(s)) \in Text /\ After(s, 0) \in Text
  BY <1>1, FirstText, AfterText
<1>6. SubSeq(s, 1, Len(s)) \o << >> = s /\ << >> \o After(s, 0) = s
  BY <1>1, <1>4, Split
<1>. QED BY <1>4, <1>5, <1>6, JoinEmpty

\* What begins behind a first part.
LEMMA Shifted ==
  ASSUME NEW p \in Text, NEW v \in Text, NEW j \in 0..Len(v)
  PROVE  SubSeq(p \o v, 1, Len(p) + j) = p \o SubSeq(v, 1, j) /\ After(p \o v, Len(p) + j) = After(v, j)
<1>. DEFINE a == SubSeq(v, 1, j)
            b == After(v, j)
            s == p \o a
<1>1. a \in Text /\ b \in Text /\ a \o b = v /\ Len(a) = j
  BY FirstText, AfterText, Split
<1>2. s \in Text /\ Len(s) = Len(p) + j
  <2>. HIDE DEF a, b
  <2>. QED BY <1>1, JoinedText
<1>3. s \o b = p \o v
  <2>. HIDE DEF a, b
  <2>1. s \o b = p \o (a \o b)
    BY <1>1, JoinAssoc, Zenon
  <2>. QED BY <1>1, <2>1, Zenon
<1>. HIDE DEF a, b, s
<1>4. Len(s) \in 0..Len(s)
  BY <1>2, LenText
<1>5. SubSeq(s \o b, 1, Len(s)) = SubSeq(s, 1, Len(s)) /\ After(s \o b, Len(s)) = After(s, Len(s)) \o b
  BY <1>1, <1>2, <1>4, SplitJoined
<1>6. SubSeq(s \o b, 1, Len(s)) = s /\ After(s \o b, Len(s)) = b
  BY <1>1, <1>2, <1>5, WholeText, JoinEmpty
<1>. QED BY <1>2, <1>3, <1>6 DEF a, b, s

\* Where a text closes, said of any number.
LEMMA ClosesAtWhere ==
  ASSUME NEW open \in Openings, NEW s \in Text, OpensAt(open, s) # 0
  PROVE  /\ (\A k \in OpensAt(open, s)..Len(s) : s[k] # "]") => ClosesAt(open, s) = 0
         /\ \A j \in OpensAt(open, s)..Len(s) :
              s[j] = "]" /\ (\A k \in OpensAt(open, s)..j - 1 : s[k] # "]") => ClosesAt(open, s) = j
<1>. DEFINE i == OpensAt(open, s)
            c == ClosesAt(open, s)
<1>1. \/ c = 0 /\ (i = 0 \/ \A k \in i..Len(s) : s[k] # "]")
      \/ /\ i \in 1..Len(s) - 1 /\ c \in i + 2..Len(s) /\ s[c] = "]"
         /\ \A k \in i..c - 1 : s[k] # "]"
  BY ClosesAtIs
<1>2. i \in 1..Len(s) - 1 /\ Len(s) \in Nat
  BY OpensAtIs, LenText
<1>. HIDE DEF i, c
<1>3. (\A k \in i..Len(s) : s[k] # "]") => c = 0
  BY <1>1, <1>2
<1>4. ASSUME NEW j \in i..Len(s), s[j] = "]", \A k \in i..j - 1 : s[k] # "]" PROVE c = j
  <2>1. c # 0
    BY <1>1, <1>2, <1>4
  <2>2. c \in i + 2..Len(s) /\ s[c] = "]" /\ \A k \in i..c - 1 : s[k] # "]"
    BY <1>1, <2>1
  <2>3. ~(c < j) /\ ~(j < c)
    <3>1. c < j => c \in i..j - 1
      BY <1>2, <2>2
    <3>2. j < c => j \in i..c - 1
      BY <1>2, <2>2
    <3>. QED BY <1>4, <2>2, <3>1, <3>2
  <2>. QED BY <1>2, <2>2, <2>3
<1>. QED BY <1>2, <1>3, <1>4 DEF i, c

\* What a text opens and closes, it opens and closes however it goes on.
LEMMA GrownOpens ==
  ASSUME NEW open \in Openings, NEW s \in Text, NEW t \in Text, OpensAt(open, s) # 0
  PROVE  OpensAt(open, s \o t) = OpensAt(open, s)
<1>. DEFINE i == OpensAt(open, s)
            u == s \o t
<1>1. i \in 1..Len(s) - 1 /\ Here(open, s, i) /\ \A k \in 1..i - 1 : ~Here(open, s, k)
  BY OpensAtIs
<1>2. u \in Text /\ Len(u) = Len(s) + Len(t) /\ Len(s) \in Nat /\ Len(t) \in Nat
      /\ \A k \in 1..Len(s) : u[k] = s[k]
  BY JoinedText, LenText
<1>. HIDE DEF i, u
<1>3. \A k \in 1..Len(s) - 1 : Here(open, u, k) <=> Here(open, s, k)
  BY <1>2 DEF Here
<1>4. i \in 1..Len(u) - 1 /\ Here(open, u, i) /\ \A k \in 1..i - 1 : ~Here(open, u, k)
  BY <1>1, <1>2, <1>3
<1>. QED BY <1>2, <1>4, OpensAtWhere DEF i, u

LEMMA GrownCloses ==
  ASSUME NEW open \in Openings, NEW s \in Text, NEW t \in Text, ClosesAt(open, s) # 0
  PROVE  OpensAt(open, s \o t) = OpensAt(open, s) /\ ClosesAt(open, s \o t) = ClosesAt(open, s)
<1>. DEFINE i == OpensAt(open, s)
            j == ClosesAt(open, s)
            u == s \o t
<1>1. /\ i \in 1..Len(s) - 1 /\ j \in i + 2..Len(s) /\ s[j] = "]"
      /\ \A k \in i..j - 1 : s[k] # "]"
  BY ClosesAtIs
<1>2. u \in Text /\ Len(u) = Len(s) + Len(t) /\ Len(s) \in Nat /\ Len(t) \in Nat
      /\ \A k \in 1..Len(s) : u[k] = s[k]
  BY JoinedText, LenText
<1>3. OpensAt(open, u) = i
  <2>1. i # 0
    BY <1>1
  <2>. QED BY <2>1, GrownOpens
<1>. HIDE DEF i, j, u
<1>4. j \in i..Len(u) /\ u[j] = "]" /\ \A k \in i..j - 1 : u[k] # "]"
  BY <1>1, <1>2
<1>5. OpensAt(open, u) # 0
  BY <1>1, <1>3
<1>6. ClosesAt(open, u) = j
  BY <1>2, <1>3, <1>4, <1>5, ClosesAtWhere
<1>. QED BY <1>3, <1>6 DEF i, j, u

\* Nothing opens in the text that is put in front of another.
Clear(open, p, v) == \A k \in 1..Len(p) : k + 1 <= Len(p \o v) => ~Here(open, p \o v, k)

\* A clear beginning moves what opens behind it.
LEMMA ClearOpens ==
  ASSUME NEW open \in Openings, NEW p \in Text, NEW v \in Text, Clear(open, p, v)
  PROVE  /\ OpensAt(open, v) = 0 => OpensAt(open, p \o v) = 0
         /\ OpensAt(open, v) # 0 => OpensAt(open, p \o v) = Len(p) + OpensAt(open, v)
         /\ ClosesAt(open, v) = 0 => ClosesAt(open, p \o v) = 0
         /\ ClosesAt(open, v) # 0 => ClosesAt(open, p \o v) = Len(p) + ClosesAt(open, v)
<1>. DEFINE i == OpensAt(open, v)
            j == ClosesAt(open, v)
            u == p \o v
            n == Len(p)
            m == Len(v)
<1>1. u \in Text /\ Len(u) = n + m /\ n \in Nat /\ m \in Nat
      /\ (\A k \in 1..n : u[k] = p[k]) /\ (\A k \in 1..m : u[n + k] = v[k])
  BY JoinedText, LenText
<1>2. \A k \in 1..n : k + 1 <= Len(u) => ~Here(open, u, k)
  BY DEF Clear
<1>3. \/ i = 0 /\ \A k \in 1..m - 1 : ~Here(open, v, k)
      \/ i \in 1..m - 1 /\ Here(open, v, i) /\ \A k \in 1..i - 1 : ~Here(open, v, k)
  BY OpensAtIs
<1>4. \/ j = 0 /\ (i = 0 \/ \A k \in i..m : v[k] # "]")
      \/ /\ i \in 1..m - 1 /\ j \in i + 2..m /\ v[j] = "]"
         /\ \A k \in i..j - 1 : v[k] # "]"
  BY ClosesAtIs
<1>. HIDE DEF i, j, u, n, m
<1>5. \A k \in 1..m - 1 : Here(open, u, n + k) <=> Here(open, v, k)
  <2>. SUFFICES ASSUME NEW k \in 1..m - 1 PROVE Here(open, u, n + k) <=> Here(open, v, k)
    OBVIOUS
  <2>1. k \in 1..m /\ k + 1 \in 1..m /\ (n + k) + 1 = n + (k + 1)
    BY <1>1
  <2>2. u[n + k] = v[k] /\ u[(n + k) + 1] = v[k + 1]
    BY <1>1, <2>1
  <2>. QED BY <2>2 DEF Here
<1>6. i = 0 => OpensAt(open, u) = 0
  <2>. SUFFICES ASSUME i = 0 PROVE OpensAt(open, u) = 0
    OBVIOUS
  <2>1. ASSUME NEW k \in 1..Len(u) - 1 PROVE ~Here(open, u, k)
    <3>1. CASE k <= n
      BY <1>1, <1>2, <3>1
    <3>2. CASE k > n
      <4>1. k - n \in 1..m - 1 /\ k = n + (k - n)
        BY <1>1, <3>2
      <4>2. \A l \in 1..m - 1 : ~Here(open, u, n + l)
        BY <1>3, <1>5
      <4>. QED BY <4>1, <4>2
    <3>. QED BY <1>1, <3>1, <3>2
  <2>. QED BY <1>1, <2>1, OpensAtWhere
<1>7. i # 0 => OpensAt(open, u) = n + i
  <2>. SUFFICES ASSUME i # 0 PROVE OpensAt(open, u) = n + i
    OBVIOUS
  <2>1. i \in 1..m - 1 /\ Here(open, v, i) /\ \A k \in 1..i - 1 : ~Here(open, v, k)
    BY <1>3
  <2>2. n + i \in 1..Len(u) - 1 /\ Here(open, u, n + i)
    BY <1>1, <1>5, <2>1
  <2>3. ASSUME NEW k \in 1..(n + i) - 1 PROVE ~Here(open, u, k)
    <3>1. CASE k <= n
      BY <1>1, <1>2, <2>1, <3>1
    <3>2. CASE k > n
      <4>1. k - n \in 1..i - 1 /\ k - n \in 1..m - 1 /\ k = n + (k - n)
        BY <1>1, <2>1, <3>2
      <4>2. \A l \in 1..m - 1 : l \in 1..i - 1 => ~Here(open, u, n + l)
        BY <1>5, <2>1
      <4>. QED BY <4>1, <4>2
    <3>. QED BY <1>1, <2>1, <3>1, <3>2
  <2>. QED BY <1>1, <2>2, <2>3, OpensAtWhere
<1>8. j = 0 => ClosesAt(open, u) = 0
  <2>. SUFFICES ASSUME j = 0 PROVE ClosesAt(open, u) = 0
    OBVIOUS
  <2>1. CASE i = 0
    <3>1. OpensAt(open, u) = 0
      BY <1>6, <2>1
    <3>2. \A w \in Text : OpensAt(open, w) = 0 => ClosesAt(open, w) = 0
      BY ClosesAtIs, LenText
    <3>. QED BY <1>1, <3>1, <3>2
  <2>2. CASE i # 0
    <3>1. i \in 1..m - 1 /\ \A k \in i..m : v[k] # "]"
      BY <1>3, <1>4, <2>2
    <3>2. OpensAt(open, u) = n + i /\ n + i # 0
      BY <1>1, <1>7, <2>2, <3>1
    <3>3. ASSUME NEW k \in n + i..Len(u) PROVE u[k] # "]"
      <4>1. k - n \in i..m /\ k - n \in 1..m /\ k = n + (k - n)
        BY <1>1, <3>1
      <4>2. \A l \in 1..m : l \in i..m => u[n + l] # "]"
        BY <1>1, <3>1
      <4>. QED BY <4>1, <4>2
    <3>. QED BY <1>1, <3>2, <3>3, ClosesAtWhere
  <2>. QED BY <2>1, <2>2
<1>9. j # 0 => ClosesAt(open, u) = n + j
  <2>. SUFFICES ASSUME j # 0 PROVE ClosesAt(open, u) = n + j
    OBVIOUS
  <2>1. i \in 1..m - 1 /\ j \in i + 2..m /\ v[j] = "]" /\ \A k \in i..j - 1 : v[k] # "]"
    BY <1>4
  <2>2. OpensAt(open, u) = n + i /\ n + i # 0
    BY <1>1, <1>7, <2>1
  <2>3. n + j \in n + i..Len(u) /\ u[n + j] = "]"
    BY <1>1, <2>1
  <2>4. ASSUME NEW k \in n + i..(n + j) - 1 PROVE u[k] # "]"
    <3>1. k - n \in i..j - 1 /\ k - n \in 1..m /\ k = n + (k - n)
      BY <1>1, <2>1
    <3>2. \A l \in 1..m : l \in i..j - 1 => u[n + l] # "]"
      BY <1>1, <2>1
    <3>. QED BY <3>1, <3>2
  <2>. QED BY <1>1, <2>2, <2>3, <2>4, ClosesAtWhere
<1>. QED BY <1>6, <1>7, <1>8, <1>9 DEF i, j, u, n

-----------------------------------------------------------------------------
(* The gate and the filter, piece by piece.                                 *)

\* The three results of a scan.
LEMMA ScanParts ==
  ASSUME NEW open \in Openings, NEW s \in Text
  PROVE  /\ ClosesAt(open, s) = 0 => Scan(open, s).out = << >> /\ Scan(open, s).rest = s
         /\ ClosesAt(open, s) # 0 =>
              /\ Scan(open, s).out = SubSeq(s, 1, OpensAt(open, s) - 1)
                                     \o Scan(open, After(s, ClosesAt(open, s))).out
              /\ Scan(open, s).rest = Scan(open, After(s, ClosesAt(open, s))).rest
<1>. DEFINE i == OpensAt(open, s)
            j == ClosesAt(open, s)
            z == Scan(open, After(s, j))
            p == SubSeq(s, 1, i - 1)
            b == SubSeq(s, i + 2, j - 1)
            r == Scan(open, s)
<1>1. r = IF j = 0 THEN [out |-> << >>, bodies |-> << >>, rest |-> s]
          ELSE [out |-> p \o z.out, bodies |-> <<b>> \o z.bodies, rest |-> z.rest]
  BY ScanIs
<1>. HIDE DEF r, p, b, z, j
<1>2. j = 0 => r.out = << >> /\ r.rest = s
  BY <1>1
<1>3. j # 0 => r.out = p \o z.out /\ r.rest = z.rest
  <2>. SUFFICES ASSUME j # 0 PROVE r.out = p \o z.out /\ r.rest = z.rest
    OBVIOUS
  <2>. DEFINE o == p \o z.out
              l == <<b>> \o z.bodies
  <2>1. r = [out |-> o, bodies |-> l, rest |-> z.rest]
    BY <1>1
  <2>. HIDE DEF o, l
  <2>2. r.out = o /\ r.rest = z.rest
    BY <2>1
  <2>. QED BY <2>2 DEF o
<1>. QED BY <1>2, <1>3 DEF r, p, z, j, i

\* How much of a rest goes on.
Passed(open, w) == Len(w) - Hold(open, w)

\* What Feed lets through and keeps back.
LEMMA FeedParts ==
  ASSUME NEW open, NEW s
  PROVE  /\ Feed(open, s).out = Scan(open, s).out
                                \o SubSeq(Scan(open, s).rest, 1, Passed(open, Scan(open, s).rest))
         /\ Feed(open, s).held = After(Scan(open, s).rest, Passed(open, Scan(open, s).rest))
BY DEF Feed, Passed

\* Feed on a text whose scan is known.
LEMMA FeedRest ==
  ASSUME NEW open, NEW s, Scan(open, s).out = << >>, Scan(open, s).rest = s
  PROVE  /\ Feed(open, s).out = << >> \o SubSeq(s, 1, Passed(open, s))
         /\ Feed(open, s).held = After(s, Passed(open, s))
<1>. DEFINE r == Scan(open, s)
<1>1. /\ Feed(open, s).out = r.out \o SubSeq(r.rest, 1, Passed(open, r.rest))
      /\ Feed(open, s).held = After(r.rest, Passed(open, r.rest))
  BY FeedParts
<1>2. r.out = << >> /\ r.rest = s
  OBVIOUS
<1>. HIDE DEF r
<1>. QED BY <1>1, <1>2

\* What an unfinished text leaves behind is scanned with what comes next.
LEMMA ScanJoined ==
  ASSUME NEW open \in Openings, NEW s \in Text, NEW t \in Text
  PROVE  LET r == Scan(open, s)
             after == Scan(open, r.rest \o t)
         IN Scan(open, s \o t).out = r.out \o after.out /\ Scan(open, s \o t).rest = after.rest
<1>. DEFINE Joins(u) == /\ Scan(open, u \o t).out = Scan(open, u).out \o Scan(open, Scan(open, u).rest \o t).out
                        /\ Scan(open, u \o t).rest = Scan(open, Scan(open, u).rest \o t).rest
            P == {u \in Text : Joins(u)}
<1>1. ASSUME NEW u \in Text, \A v \in Text : Len(v) < Len(u) => v \in P PROVE u \in P
  <2>1. CASE ClosesAt(open, u) = 0
    <3>1. Scan(open, u).out = << >> /\ Scan(open, u).rest = u
      BY <2>1, ScanParts
    <3>2. u \o t \in Text
      BY JoinedText
    <3>3. Scan(open, u \o t).out \in Text
      BY <3>2, ScanType DEF Scanned
    <3>4. Scan(open, u \o t).out = << >> \o Scan(open, u \o t).out
      BY <3>3, JoinEmpty
    <3>. QED BY <3>1, <3>4
  <2>2. CASE ClosesAt(open, u) # 0
    <3>. DEFINE i == OpensAt(open, u)
                j == ClosesAt(open, u)
                a == SubSeq(u, 1, i - 1)
                v == After(u, j)
                r == Scan(open, v)
                z == Scan(open, v \o t)
                y == Scan(open, r.rest \o t)
    <3>1. /\ i \in 1..Len(u) - 1 /\ j \in i + 2..Len(u) /\ Len(u) \in Nat
          /\ a \in Text /\ v \in Text /\ Len(v) < Len(u)
      BY <2>2, MarkParts, LenText
    <3>2. z.out = r.out \o y.out /\ z.rest = y.rest
      BY <1>1, <3>1
    <3>3. Scan(open, u).out = a \o r.out /\ Scan(open, u).rest = r.rest
      BY <2>2, ScanParts
    <3>4. OpensAt(open, u \o t) = i /\ ClosesAt(open, u \o t) = j /\ u \o t \in Text
      BY <2>2, GrownCloses, JoinedText
    <3>5. SubSeq(u \o t, 1, i - 1) = a /\ After(u \o t, j) = v \o t
      <4>1. i - 1 \in 0..Len(u) /\ j \in 0..Len(u)
        BY <3>1
      <4>. HIDE DEF i, j
      <4>. QED BY <4>1, SplitJoined
    <3>6. Scan(open, u \o t).out = a \o z.out /\ Scan(open, u \o t).rest = z.rest
      <4>1. ClosesAt(open, u \o t) # 0 /\ u \o t \in Text
        BY <2>2, <3>4
      <4>2. SubSeq(u \o t, 1, OpensAt(open, u \o t) - 1) = a /\ After(u \o t, ClosesAt(open, u \o t)) = v \o t
        BY <3>4, <3>5
      <4>3. /\ Scan(open, u \o t).out = SubSeq(u \o t, 1, OpensAt(open, u \o t) - 1)
                                       \o Scan(open, After(u \o t, ClosesAt(open, u \o t))).out
              /\ Scan(open, u \o t).rest = Scan(open, After(u \o t, ClosesAt(open, u \o t))).rest
        BY <4>1, ScanParts
      <4>. QED BY <4>2, <4>3, Zenon
    <3>7. r.out \in Text /\ r.rest \in Text /\ r.rest \o t \in Text /\ y.out \in Text
      <4>1. r.out \in Text /\ r.rest \in Text
        BY <3>1, ScanType DEF Scanned
      <4>2. r.rest \o t \in Text
        BY <4>1, JoinedText
      <4>3. y.out \in Text
        BY <4>2, ScanType DEF Scanned
      <4>. QED BY <4>1, <4>2, <4>3
    <3>. HIDE DEF i, j, a, v, r, z, y
    <3>8. (a \o r.out) \o y.out = a \o (r.out \o y.out)
      <4>1. a \in Text /\ r.out \in Text /\ y.out \in Text
        BY <3>1, <3>7
      <4>. QED BY <4>1, JoinAssoc, Zenon
    <3>9. y = Scan(open, Scan(open, u).rest \o t)
      BY <3>3 DEF y
    <3>. QED BY <3>2, <3>3, <3>6, <3>8, <3>9
  <2>. QED BY <2>1, <2>2
<1>2. Text \subseteq P
  <2>. HIDE DEF P
  <2>. QED BY <1>1, ByLength
<1>. QED BY <1>2

\* A text in front that opens nothing stays as it is.
LEMMA ScanBehind ==
  ASSUME NEW open \in Openings, NEW p \in Text, NEW v \in Text, Clear(open, p, v)
  PROVE  LET r == Scan(open, p \o v)
         IN IF ClosesAt(open, v) = 0
            THEN r.out = << >> /\ r.rest = p \o v
            ELSE r.out = p \o Scan(open, v).out /\ r.rest = Scan(open, v).rest
<1>. DEFINE i == OpensAt(open, v)
            j == ClosesAt(open, v)
<1>1. p \o v \in Text /\ Len(p) \in Nat
  BY JoinedText, LenText
<1>2. CASE j = 0
  <2>1. ClosesAt(open, p \o v) = 0
    BY <1>2, ClearOpens
  <2>2. Scan(open, p \o v) = [out |-> << >>, bodies |-> << >>, rest |-> p \o v]
    BY <1>1, <2>1, ScanIs
  <2>. QED BY <1>2, <2>2
<1>3. CASE j # 0
  <2>. DEFINE a == SubSeq(v, 1, i - 1)
              w == After(v, j)
              z == Scan(open, w)
  <2>1. i \in 1..Len(v) - 1 /\ j \in i + 2..Len(v) /\ a \in Text /\ w \in Text /\ Len(v) \in Nat
    BY <1>3, MarkParts, LenText
  <2>2. OpensAt(open, p \o v) = Len(p) + i /\ ClosesAt(open, p \o v) = Len(p) + j
    BY <1>3, <2>1, ClearOpens
  <2>3. Len(p) + j # 0 /\ (Len(p) + i) - 1 = Len(p) + (i - 1) /\ i - 1 \in 0..Len(v) /\ j \in 0..Len(v)
    BY <1>1, <2>1
  <2>4. SubSeq(p \o v, 1, (Len(p) + i) - 1) = p \o a /\ After(p \o v, Len(p) + j) = w
    <3>. HIDE DEF i, j
    <3>. QED BY <2>3, Shifted
  <2>5. Scan(open, p \o v).out = (p \o a) \o z.out /\ Scan(open, p \o v).rest = z.rest
    <3>1. ClosesAt(open, p \o v) # 0
      BY <2>2, <2>3
    <3>2. SubSeq(p \o v, 1, OpensAt(open, p \o v) - 1) = p \o a /\ After(p \o v, ClosesAt(open, p \o v)) = w
      BY <2>2, <2>4
    <3>3. /\ Scan(open, p \o v).out = SubSeq(p \o v, 1, OpensAt(open, p \o v) - 1)
                                     \o Scan(open, After(p \o v, ClosesAt(open, p \o v))).out
          /\ Scan(open, p \o v).rest = Scan(open, After(p \o v, ClosesAt(open, p \o v))).rest
      BY <1>1, <3>1, ScanParts
    <3>. QED BY <3>2, <3>3, Zenon
  <2>6. Scan(open, v).out = a \o z.out /\ Scan(open, v).rest = z.rest
    BY <1>3, ScanParts
  <2>7. z.out \in Text
    BY <2>1, ScanType DEF Scanned
  <2>. HIDE DEF i, j, a, w, z
  <2>8. (p \o a) \o z.out = p \o (a \o z.out)
    BY <2>1, <2>7, JoinAssoc, Zenon
  <2>. QED BY <1>3, <2>5, <2>6, <2>8 DEF j
<1>. QED BY <1>2, <1>3

\* The last symbol of a text.
LEMMA LastText ==
  ASSUME NEW s \in Text, s # << >>
  PROVE  Last(s) = s[Len(s)] /\ Len(s) \in Nat \ {0} /\ \A t \in Text : Last(t \o s) = Last(s)
<1>1. Len(s) \in Nat \ {0}
  BY LenText
<1>2. ASSUME NEW t \in Text PROVE Last(t \o s) = Last(s)
  <2>1. Len(t \o s) = Len(t) + Len(s) /\ (t \o s)[Len(t) + Len(s)] = s[Len(s)]
    BY <1>1, JoinedText
  <2>. QED BY <2>1 DEF Last
<1>. QED BY <1>1, <1>2 DEF Last

\* How much is let through lies inside the text.
LEMMA PassedIs ==
  ASSUME NEW open \in Openings, NEW w \in Text
  PROVE  /\ Passed(open, w) \in 0..Len(w)
         /\ OpensAt(open, w) # 0 => Passed(open, w) = OpensAt(open, w) - 1
         /\ OpensAt(open, w) = 0 => Passed(open, w) = Len(w) - Partial(w)
         /\ Partial(w) = IF w # << >> /\ w[Len(w)] = "[" THEN 1 ELSE 0
<1>1. Len(w) \in Nat /\ (w # << >> => Len(w) \in Nat \ {0})
  BY LenText
<1>2. Partial(w) = IF w # << >> /\ w[Len(w)] = "[" THEN 1 ELSE 0
  BY DEF Partial, Last
<1>3. Len(w) - Partial(w) \in 0..Len(w)
  BY <1>1, <1>2
<1>4. OpensAt(open, w) # 0 => OpensAt(open, w) \in 1..Len(w) - 1
  BY OpensAtIs
<1>. HIDE DEF Partial
<1>5. CASE OpensAt(open, w) = 0
  BY <1>2, <1>3, <1>5 DEF Passed, Hold
<1>6. CASE OpensAt(open, w) # 0
  <2>1. Passed(open, w) = OpensAt(open, w) - 1
    BY <1>1, <1>4, <1>6 DEF Passed, Hold
  <2>. QED BY <1>1, <1>2, <1>4, <1>6, <2>1
<1>. QED BY <1>5, <1>6

\* Feed splits what the scan leaves: nothing is lost or added.
LEMMA FeedIs ==
  ASSUME NEW open \in Openings, NEW s \in Text
  PROVE  LET r == Scan(open, s)
             n == Passed(open, r.rest)
         IN /\ n \in 0..Len(r.rest) /\ r.out \in Text /\ r.rest \in Text
            /\ Feed(open, s).out = r.out \o SubSeq(r.rest, 1, n)
            /\ Feed(open, s).held = After(r.rest, n)
            /\ Feed(open, s).out \in Text /\ Feed(open, s).held \in Text
            /\ Feed(open, s).out \o Feed(open, s).held = r.out \o r.rest
<1>. DEFINE r == Scan(open, s)
            w == r.rest
            n == Passed(open, w)
            p == SubSeq(w, 1, n)
            h == After(w, n)
            o == r.out
<1>1. o \in Text /\ w \in Text
  BY ScanType DEF Scanned
<1>2. n \in 0..Len(w)
  <2>. HIDE DEF w
  <2>. QED BY <1>1, PassedIs
<1>3. p \in Text /\ h \in Text /\ p \o h = w
  <2>. HIDE DEF w, n
  <2>. QED BY <1>1, <1>2, FirstText, AfterText, Split
<1>4. Feed(open, s).out = o \o p /\ Feed(open, s).held = h
  BY DEF Feed, Passed
<1>. HIDE DEF w, n, p, h, o
<1>5. o \o p \in Text
  BY <1>1, <1>3, JoinedText
<1>6. (o \o p) \o h = o \o (p \o h)
  BY <1>1, <1>3, JoinAssoc, Zenon
<1>7. Feed(open, s).out \in Text /\ Feed(open, s).held \in Text
  BY <1>3, <1>4, <1>5
<1>8. Feed(open, s).out \o Feed(open, s).held = o \o w
  BY <1>3, <1>4, <1>6, Zenon
<1>. QED BY <1>1, <1>2, <1>4, <1>7, <1>8 DEF o, w, n, p, h

\* A part let through and the rest are fed like the two together.
LEMMA FeedBehind ==
  ASSUME NEW open \in Openings, NEW p \in Text, NEW v \in Text, Clear(open, p, v),
         v # << >> \/ p = << >> \/ Last(p) # "["
  PROVE  /\ Feed(open, p \o v).out = p \o Feed(open, v).out
         /\ Feed(open, p \o v).held = Feed(open, v).held
<1>1. p \o v \in Text /\ Len(p) \in Nat /\ Len(v) \in Nat /\ Len(p \o v) = Len(p) + Len(v)
  BY JoinedText, LenText
<1>2. CASE ClosesAt(open, v) = 0
  <2>. DEFINE n == Passed(open, v)
  <2>1. Scan(open, p \o v).out = << >> /\ Scan(open, p \o v).rest = p \o v
        /\ Scan(open, v).out = << >> /\ Scan(open, v).rest = v
    BY <1>2, ScanBehind, ScanParts
  <2>2. n \in 0..Len(v)
    BY PassedIs
  <2>3. Partial(p \o v) = Partial(v)
    <3>1. CASE v = << >>
      <4>1. p \o v = p
        BY <3>1, JoinEmpty
      <4>2. p = << >> \/ Last(p) # "["
        BY <3>1
      <4>. QED BY <3>1, <4>1, <4>2 DEF Partial
    <3>2. CASE v # << >>
      <4>1. Last(p \o v) = Last(v)
        BY <3>2, LastText
      <4>2. Len(v) # 0 /\ Len(p \o v) # 0 /\ p \o v # << >>
        BY <1>1, <3>2, LenText
      <4>. QED BY <3>2, <4>1, <4>2 DEF Partial
    <3>. QED BY <3>1, <3>2
  <2>4. Passed(open, p \o v) = Len(p) + n
    <3>1. CASE OpensAt(open, v) = 0
      <4>1. OpensAt(open, p \o v) = 0
        BY <3>1, ClearOpens
      <4>2. Passed(open, p \o v) = Len(p \o v) - Partial(p \o v) /\ n = Len(v) - Partial(v)
        BY <1>1, <3>1, <4>1, PassedIs
      <4>3. Partial(v) \in {0, 1}
        BY DEF Partial
      <4>. HIDE DEF n
      <4>. QED BY <1>1, <2>3, <4>2, <4>3
    <3>2. CASE OpensAt(open, v) # 0
      <4>1. OpensAt(open, p \o v) = Len(p) + OpensAt(open, v) /\ OpensAt(open, v) \in Nat \ {0}
        BY <3>2, ClearOpens, OpensAtIs
      <4>2. Passed(open, p \o v) = OpensAt(open, p \o v) - 1 /\ n = OpensAt(open, v) - 1
        BY <1>1, <3>2, <4>1, PassedIs
      <4>. HIDE DEF n
      <4>. QED BY <1>1, <4>1, <4>2
    <3>. QED BY <3>1, <3>2
  <2>. HIDE DEF n
  <2>5. SubSeq(p \o v, 1, Len(p) + n) = p \o SubSeq(v, 1, n) /\ After(p \o v, Len(p) + n) = After(v, n)
    BY <2>2, Shifted
  <2>6. /\ Feed(open, p \o v).out = << >> \o SubSeq(p \o v, 1, Len(p) + n)
        /\ Feed(open, p \o v).held = After(p \o v, Len(p) + n)
        /\ Feed(open, v).out = << >> \o SubSeq(v, 1, n)
        /\ Feed(open, v).held = After(v, n)
    <3>1. Scan(open, p \o v).out = << >> /\ Scan(open, p \o v).rest = p \o v
          /\ Scan(open, v).out = << >> /\ Scan(open, v).rest = v /\ Passed(open, v) = n
      BY <2>1 DEF n
    <3>2. /\ Feed(open, p \o v).out = << >> \o SubSeq(p \o v, 1, Passed(open, p \o v))
          /\ Feed(open, p \o v).held = After(p \o v, Passed(open, p \o v))
      BY <3>1, FeedRest
    <3>3. /\ Feed(open, v).out = << >> \o SubSeq(v, 1, Passed(open, v))
          /\ Feed(open, v).held = After(v, Passed(open, v))
      BY <3>1, FeedRest
    <3>. QED BY <2>4, <3>1, <3>2, <3>3, Zenon
  <2>7. SubSeq(v, 1, n) \in Text /\ p \o SubSeq(v, 1, n) \in Text
    BY <2>2, FirstText, JoinedText
  <2>8. << >> \o SubSeq(v, 1, n) = SubSeq(v, 1, n) /\ << >> \o (p \o SubSeq(v, 1, n)) = p \o SubSeq(v, 1, n)
    BY <2>7, JoinEmpty
  <2>. QED BY <2>5, <2>6, <2>8
<1>3. CASE ClosesAt(open, v) # 0
  <2>. DEFINE w == Scan(open, v).rest
              o == Scan(open, v).out
              q == SubSeq(w, 1, Passed(open, w))
  <2>1. Scan(open, p \o v).out = p \o o /\ Scan(open, p \o v).rest = w
    BY <1>3, ScanBehind
  <2>2. o \in Text /\ w \in Text /\ Passed(open, w) \in 0..Len(w)
    BY FeedIs
  <2>3. q \in Text
    <3>. HIDE DEF w
    <3>. QED BY <2>2, FirstText
  <2>4. /\ Feed(open, p \o v).out = (p \o o) \o q /\ Feed(open, v).out = o \o q
        /\ Feed(open, p \o v).held = Feed(open, v).held
    <3>1. Scan(open, v).out = o /\ Scan(open, v).rest = w
      OBVIOUS
    <3>. HIDE DEF o, w
    <3>. QED BY <2>1, <3>1, FeedParts, Zenon
  <2>. HIDE DEF w, o, q
  <2>5. (p \o o) \o q = p \o (o \o q)
    BY <2>2, <2>3, JoinAssoc, Zenon
  <2>. QED BY <2>4, <2>5
<1>. QED BY <1>2, <1>3

\* Nothing opens in what a scan lets go, whatever comes behind the rest.
LEMMA ClearHeld ==
  ASSUME NEW open \in Openings, NEW w \in Text, NEW t \in Text
  PROVE  LET p == SubSeq(w, 1, Passed(open, w))
             h == After(w, Passed(open, w))
         IN Clear(open, p, h \o t) /\ (h \o t # << >> \/ p = << >> \/ Last(p) # "[")
<1>. DEFINE n == Passed(open, w)
            p == SubSeq(w, 1, n)
            h == After(w, n)
            u == w \o t
            i == OpensAt(open, w)
<1>0. Len(w) \in Nat /\ Len(t) \in Nat
  BY LenText
<1>1. n \in 0..Len(w) /\ (i # 0 => n = i - 1) /\ (i = 0 => n = Len(w) - Partial(w))
      /\ Partial(w) = IF w # << >> /\ w[Len(w)] = "[" THEN 1 ELSE 0
  BY PassedIs
<1>2. \/ i = 0 /\ \A k \in 1..Len(w) - 1 : ~Here(open, w, k)
      \/ i \in 1..Len(w) - 1 /\ Here(open, w, i) /\ \A k \in 1..i - 1 : ~Here(open, w, k)
  BY OpensAtIs
<1>3. /\ p \in Text /\ Len(p) = n /\ (\A k \in 1..n : p[k] = w[k])
      /\ h \in Text /\ Len(h) = Len(w) - n /\ p \o h = w
  <2>. HIDE DEF n
  <2>. QED BY <1>1, FirstText, AfterText, Split
<1>4. u \in Text /\ Len(u) = Len(w) + Len(t) /\ \A k \in 1..Len(w) : u[k] = w[k]
  BY JoinedText
<1>. HIDE DEF n, p, h, i
<1>5. p \o (h \o t) = u
  BY <1>3, JoinAssoc, Zenon
<1>6. ASSUME NEW k \in 1..n, k + 1 <= Len(u) PROVE ~Here(open, u, k)
  <2>1. CASE k = Len(w)
    <3>1. w # << >> /\ w[Len(w)] # "["
      BY <1>0, <1>1, <1>2, <2>1, LenText
    <3>. QED BY <1>0, <1>1, <1>4, <2>1, <3>1 DEF Here
  <2>2. CASE k # Len(w)
    <3>1. k \in 1..Len(w) - 1
      BY <1>0, <1>1, <2>2
    <3>2. ~Here(open, w, k)
      BY <1>0, <1>1, <1>2, <3>1
    <3>3. u[k] = w[k] /\ u[k + 1] = w[k + 1]
      BY <1>0, <1>4, <3>1
    <3>. QED BY <3>2, <3>3 DEF Here
  <2>. QED BY <2>1, <2>2
<1>7. Clear(open, p, h \o t)
  BY <1>3, <1>5, <1>6 DEF Clear
<1>8. ASSUME h \o t = << >>, p # << >> PROVE Last(p) # "["
  <2>1. Len(h \o t) = Len(h) + Len(t) /\ Len(h \o t) = 0 /\ Len(h) \in Nat
    BY <1>3, <1>8, JoinedText, LenText
  <2>2. n = Len(w)
    BY <1>0, <1>1, <1>3, <2>1
  <2>3. Len(p) \in Nat \ {0} /\ w # << >>
    BY <1>3, <1>8, <2>2, LenText
  <2>4. w[Len(w)] # "["
    BY <1>0, <1>1, <1>2, <2>2, <2>3
  <2>. QED BY <1>3, <2>2, <2>3, <2>4 DEF Last
<1>. QED BY <1>7, <1>8 DEF n, p, h

\* Gate.Feed and MarkerFilter.Feed, whatever the cutting: a text that comes in two
\* pieces lets through and keeps back what it would as a whole.
THEOREM FeedJoined ==
  ASSUME NEW open \in Openings, NEW s \in Text, NEW t \in Text
  PROVE  LET f == Feed(open, s)
             g == Feed(open, f.held \o t)
         IN Feed(open, s \o t).out = f.out \o g.out /\ Feed(open, s \o t).held = g.held
<1>. DEFINE o == Scan(open, s).out
            w == Scan(open, s).rest
            n == Passed(open, w)
            p == SubSeq(w, 1, n)
            h == After(w, n)
            z == Scan(open, w \o t)
            q == SubSeq(z.rest, 1, Passed(open, z.rest))
<1>1. /\ n \in 0..Len(w) /\ o \in Text /\ w \in Text
      /\ Feed(open, s).out = o \o p /\ Feed(open, s).held = h
  BY FeedIs
<1>2. p \in Text /\ h \in Text /\ p \o h = w
  <2>. HIDE DEF w, n
  <2>. QED BY <1>1, FirstText, AfterText, Split
<1>3. Scan(open, s \o t).out = o \o z.out /\ Scan(open, s \o t).rest = z.rest
  BY ScanJoined
<1>4. w \o t \in Text /\ s \o t \in Text /\ h \o t \in Text
  <2>. HIDE DEF w, h
  <2>. QED BY <1>1, <1>2, JoinedText
<1>5. /\ z.out \in Text /\ z.rest \in Text /\ Passed(open, z.rest) \in 0..Len(z.rest)
      /\ Feed(open, w \o t).out = z.out \o q
      /\ Feed(open, w \o t).held = After(z.rest, Passed(open, z.rest))
  BY <1>4, FeedIs
<1>6. /\ Feed(open, s \o t).out = (o \o z.out) \o q
      /\ Feed(open, s \o t).held = After(z.rest, Passed(open, z.rest))
  <2>1. Scan(open, s \o t).out = o \o z.out /\ Scan(open, s \o t).rest = z.rest
    BY <1>3
  <2>. HIDE DEF o, z
  <2>. QED BY <2>1, FeedParts, Zenon
<1>7. q \in Text
  <2>. HIDE DEF z
  <2>. QED BY <1>5, FirstText
<1>8. Clear(open, p, h \o t) /\ (h \o t # << >> \/ p = << >> \/ Last(p) # "[")
  <2>. HIDE DEF w
  <2>. QED BY <1>1, ClearHeld
<1>9. Feed(open, h \o t).out \in Text
  <2>. HIDE DEF h
  <2>. QED BY <1>4, FeedIs
<1>. HIDE DEF o, w, n, p, h, z, q
<1>10. /\ Feed(open, p \o (h \o t)).out = p \o Feed(open, h \o t).out
       /\ Feed(open, p \o (h \o t)).held = Feed(open, h \o t).held
  BY <1>2, <1>4, <1>8, FeedBehind
<1>11. p \o (h \o t) = w \o t
  BY <1>2, JoinAssoc, Zenon
<1>12. (o \o z.out) \o q = o \o (z.out \o q)
  BY <1>1, <1>5, <1>7, JoinAssoc, Zenon
<1>13. (o \o p) \o Feed(open, h \o t).out = o \o (p \o Feed(open, h \o t).out)
  <2>1. o \in Text /\ p \in Text /\ Feed(open, h \o t).out \in Text
    BY <1>1, <1>2, <1>9
  <2>. QED BY <2>1, JoinAssoc, Zenon
<1>14. Feed(open, s \o t).out = o \o Feed(open, w \o t).out
  BY <1>5, <1>6, <1>12, Zenon
<1>15. Feed(open, w \o t).out = p \o Feed(open, h \o t).out
  BY <1>10, <1>11, Zenon
<1>16. Feed(open, s \o t).out = (o \o p) \o Feed(open, h \o t).out
  BY <1>13, <1>14, <1>15, Zenon
<1>17. Feed(open, s \o t).held = Feed(open, h \o t).held
  BY <1>5, <1>6, <1>10, <1>11, Zenon
<1>. QED BY <1>1, <1>16, <1>17, Zenon

-----------------------------------------------------------------------------
(* The whole text at once.                                                  *)

LEMMA IsOpening == Call \in Openings /\ Sticker \in Openings
BY DEF Openings

\* What is held back opens a mark exactly when the rest of the scan does.
LEMMA HeldOpens ==
  ASSUME NEW open \in Openings, NEW w \in Text
  PROVE  OpensAt(open, After(w, Passed(open, w))) = 0 <=> OpensAt(open, w) = 0
<1>. DEFINE n == Passed(open, w)
            p == SubSeq(w, 1, n)
            h == After(w, n)
<1>1. n \in 0..Len(w)
  BY PassedIs
<1>2. p \in Text /\ h \in Text /\ p \o h = w
  <2>. HIDE DEF n
  <2>. QED BY <1>1, FirstText, AfterText, Split
<1>3. Clear(open, p, h \o << >>)
  BY EmptyText, ClearHeld
<1>. HIDE DEF n, p, h
<1>4. Clear(open, p, h)
  BY <1>2, <1>3, JoinEmpty
<1>5. Len(p) \in Nat /\ (OpensAt(open, h) # 0 => OpensAt(open, h) \in Nat \ {0})
  BY <1>2, LenText, OpensAtIs
<1>6. /\ OpensAt(open, h) = 0 => OpensAt(open, w) = 0
      /\ OpensAt(open, h) # 0 => OpensAt(open, w) = Len(p) + OpensAt(open, h)
  <2>1. /\ OpensAt(open, h) = 0 => OpensAt(open, p \o h) = 0
        /\ OpensAt(open, h) # 0 => OpensAt(open, p \o h) = Len(p) + OpensAt(open, h)
    BY <1>2, <1>4, ClearOpens
  <2>. QED BY <1>2, <2>1
<1>. QED BY <1>5, <1>6 DEF n, h

LEMMA FlushType == ASSUME NEW s \in Text PROVE FlushFilter(s) \in Text
BY EmptyText DEF FlushFilter

\* MarkerFilter.Feed and Flush show of a text what ParseMarkers has left of the whole
\* when its markers are out, before stripMarkerDebris.
THEOREM FinishIs ==
  ASSUME NEW s \in Text
  PROVE  /\ WithoutMarkers(s) = Feed(Sticker, s).out \o FlushFilter(Feed(Sticker, s).held)
         /\ WithoutMarkers(s) \in Text
<1>. DEFINE o == Scan(Sticker, s).out
            w == Scan(Sticker, s).rest
            n == Passed(Sticker, w)
            p == SubSeq(w, 1, n)
            h == After(w, n)
            f == Feed(Sticker, s)
<1>1. /\ n \in 0..Len(w) /\ o \in Text /\ w \in Text
      /\ f.out = o \o p /\ f.held = h /\ f.out \in Text /\ f.held \in Text
      /\ f.out \o f.held = o \o w
  BY IsOpening, FeedIs
<1>2. OpensAt(Sticker, h) = 0 <=> OpensAt(Sticker, w) = 0
  <2>. HIDE DEF w
  <2>. QED BY <1>1, IsOpening, HeldOpens
<1>3. OpensAt(Sticker, w) # 0 => n = OpensAt(Sticker, w) - 1
  <2>. HIDE DEF w
  <2>. QED BY <1>1, IsOpening, PassedIs
<1>4. WithoutMarkers(s) = o \o Unclosed(w)
  BY DEF WithoutMarkers
<1>5. f.out \o FlushFilter(f.held) = o \o Unclosed(w)
  <2>. HIDE DEF o, w, n, h, f
  <2>1. CASE OpensAt(Sticker, w) = 0
    <3>1. Unclosed(w) = w /\ FlushFilter(f.held) = f.held
      BY <1>1, <1>2, <2>1 DEF Unclosed, FlushFilter
    <3>. QED BY <1>1, <3>1, Zenon
  <2>2. CASE OpensAt(Sticker, w) # 0
    <3>1. Unclosed(w) = p
      BY <1>3, <2>2 DEF Unclosed
    <3>2. FlushFilter(f.held) = << >>
      BY <1>1, <1>2, <2>2 DEF FlushFilter
    <3>3. f.out \o << >> = f.out
      BY <1>1, JoinEmpty
    <3>. HIDE DEF p
    <3>. QED BY <1>1, <3>1, <3>2, <3>3, Zenon
  <2>. QED BY <2>1, <2>2
<1>6. f.out \o FlushFilter(f.held) \in Text
  <2>1. FlushFilter(f.held) \in Text
    BY <1>1, FlushType
  <2>. HIDE DEF f
  <2>. QED BY <1>1, <2>1, JoinedText
<1>. QED BY <1>4, <1>5, <1>6, Zenon

\* The whole text, parsed with a part already let through.
LEMMA FinishJoined ==
  ASSUME NEW s \in Text, NEW t \in Text
  PROVE  WithoutMarkers(s \o t) = Feed(Sticker, s).out \o WithoutMarkers(Feed(Sticker, s).held \o t)
<1>. DEFINE f == Feed(Sticker, s)
            u == f.held \o t
            g == Feed(Sticker, u)
            l == FlushFilter(g.held)
<1>1. f.out \in Text /\ f.held \in Text
  BY IsOpening, FeedIs
<1>2. u \in Text /\ s \o t \in Text
  <2>. HIDE DEF f
  <2>. QED BY <1>1, JoinedText
<1>3. g.out \in Text /\ g.held \in Text
  <2>. HIDE DEF u
  <2>. QED BY <1>2, IsOpening, FeedIs
<1>4. Feed(Sticker, s \o t).out = f.out \o g.out /\ Feed(Sticker, s \o t).held = g.held
  BY IsOpening, FeedJoined
<1>5. /\ WithoutMarkers(s \o t) = Feed(Sticker, s \o t).out \o FlushFilter(Feed(Sticker, s \o t).held)
      /\ WithoutMarkers(u) = g.out \o l
  <2>. HIDE DEF u
  <2>. QED BY <1>2, FinishIs
<1>6. l \in Text
  <2>. HIDE DEF g
  <2>. QED BY <1>3, FlushType
<1>7. WithoutMarkers(s \o t) = (f.out \o g.out) \o l
  <2>1. Feed(Sticker, s \o t).out = f.out \o g.out /\ Feed(Sticker, s \o t).held = g.held
    BY <1>4
  <2>2. WithoutMarkers(s \o t) = Feed(Sticker, s \o t).out \o FlushFilter(Feed(Sticker, s \o t).held)
    BY <1>5
  <2>. HIDE DEF f, g
  <2>. QED BY <2>1, <2>2, Zenon
<1>. HIDE DEF f, g, l
<1>8. (f.out \o g.out) \o l = f.out \o (g.out \o l)
  <2>1. f.out \in Text /\ g.out \in Text /\ l \in Text
    BY <1>1, <1>3, <1>6
  <2>. QED BY <2>1, JoinAssoc, Zenon
<1>9. WithoutMarkers(u) = g.out \o l
  BY <1>5
<1>. HIDE DEF u
<1>10. WithoutMarkers(s \o t) = f.out \o WithoutMarkers(u)
  BY <1>7, <1>8, <1>9, Zenon
<1>. QED BY <1>10 DEF f, u

\* What the gate lets through and holds back is the answer without its calls.
LEMMA ExtractIs ==
  ASSUME NEW s \in Text
  PROVE  /\ ExtractCalls(s).text = Feed(Call, s).out \o Feed(Call, s).held
         /\ ExtractCalls(s).text \in Text
         /\ ClosesAt(Call, s) = 0 => ExtractCalls(s).text = s
<1>1. ExtractCalls(s).text = Scan(Call, s).out \o Scan(Call, s).rest
  BY DEF ExtractCalls
<1>2. /\ Scan(Call, s).out \in Text /\ Scan(Call, s).rest \in Text
      /\ Feed(Call, s).out \o Feed(Call, s).held = Scan(Call, s).out \o Scan(Call, s).rest
  BY IsOpening, FeedIs
<1>3. Scan(Call, s).out \o Scan(Call, s).rest \in Text
  BY <1>2, JoinedText
<1>4. ASSUME ClosesAt(Call, s) = 0 PROVE ExtractCalls(s).text = s
  <2>1. Scan(Call, s).out = << >> /\ Scan(Call, s).rest = s
    BY <1>4, IsOpening, ScanParts
  <2>2. << >> \o s = s
    BY JoinEmpty
  <2>. QED BY <1>1, <2>1, <2>2, Zenon
<1>. QED BY <1>1, <1>2, <1>3, <1>4, Zenon

\* A text that opens no marker stays as it is.
LEMMA UnmarkedIs ==
  ASSUME NEW s \in Text, OpensAt(Sticker, s) = 0
  PROVE  WithoutMarkers(s) = s
<1>1. ClosesAt(Sticker, s) = 0
  BY IsOpening, ClosesAtIs, LenText
<1>2. Scan(Sticker, s).out = << >> /\ Scan(Sticker, s).rest = s
  BY <1>1, IsOpening, ScanParts
<1>3. WithoutMarkers(s) = Scan(Sticker, s).out \o Unclosed(Scan(Sticker, s).rest)
  BY DEF WithoutMarkers
<1>4. Unclosed(s) = s /\ << >> \o s = s
  BY JoinEmpty DEF Unclosed
<1>. QED BY <1>2, <1>3, <1>4, Zenon

\* Nothing fed, nothing out.
LEMMA EmptyFeeds ==
  ASSUME NEW open \in Openings
  PROVE  Feed(open, << >>).out = << >> /\ Feed(open, << >>).held = << >>
<1>1. OpensAt(open, << >>) = 0
  BY EmptyText, OpensAtIs
<1>2. ClosesAt(open, << >>) = 0
  BY <1>1, EmptyText, ClosesAtIs
<1>3. Scan(open, << >>).out = << >> /\ Scan(open, << >>).rest = << >>
  BY <1>2, EmptyText, ScanParts
<1>4. Passed(open, << >>) = 0
  BY EmptyText, PassedIs
<1>5. /\ Feed(open, << >>).out = << >> \o SubSeq(<< >>, 1, 0)
      /\ Feed(open, << >>).held = After(<< >>, 0)
  BY <1>3, <1>4, FeedRest
<1>6. SubSeq(<< >>, 1, 0) = << >> /\ After(<< >>, 0) = << >> /\ << >> \o << >> = << >>
  BY EmptyText, WholeText, JoinEmpty
<1>. QED BY <1>5, <1>6, Zenon

\* One step of the cleaning: whether what follows the opening closes it, and what is left.
Empties(s) == LET i == OpensAt(Sticker, s) IN i + 2 <= Len(s) /\ s[i + 2] = "]"

LEMMA SomeWord == <<"w">> \in Text /\ Notice \in Text /\ Len(<<"w">>) = 1 /\ Len(Notice) = 1 /\ Notice[1] = "more"
<1>1. "w" \in Written \cup Canned /\ "more" \in Written \cup Canned
  BY DEF Written, Canned
<1>2. \A S : \A x \in S : <<x>> \in Seq(S)
  OBVIOUS
<1>. QED BY <1>1, <1>2 DEF Text, Notice

\* A step of the cleaning goes on with a shorter text.
LEMMA DebrisStep ==
  ASSUME NEW s \in Text, OpensAt(Sticker, s) # 0
  PROVE  LET i == OpensAt(Sticker, s)
         IN /\ SubSeq(s, 1, i - 1) \in Text /\ After(s, i + 1) \in Text /\ Len(After(s, i + 1)) < Len(s)
            /\ Empties(s) => After(s, i + 2) \in Text /\ Len(After(s, i + 2)) < Len(s)
<1>. DEFINE i == OpensAt(Sticker, s)
<1>1. i \in 1..Len(s) - 1 /\ Len(s) \in Nat
  BY IsOpening, OpensAtIs, LenText
<1>2. Empties(s) => i + 2 \in 0..Len(s)
  BY <1>1 DEF Empties
<1>. HIDE DEF i
<1>3. i - 1 \in 0..Len(s) /\ i + 1 \in 0..Len(s)
  BY <1>1
<1>4. SubSeq(s, 1, i - 1) \in Text
  BY <1>3, FirstText
<1>5. After(s, i + 1) \in Text /\ Len(After(s, i + 1)) = Len(s) - (i + 1)
  BY <1>3, AfterText
<1>6. Empties(s) => After(s, i + 2) \in Text /\ Len(After(s, i + 2)) = Len(s) - (i + 2)
  BY <1>2, AfterText
<1>7. Len(After(s, i + 1)) < Len(s) /\ (Empties(s) => Len(After(s, i + 2)) < Len(s))
  BY <1>1, <1>5, <1>6
<1>. QED BY <1>4, <1>5, <1>6, <1>7 DEF i

CleanStep(f, s) ==
  LET i == OpensAt(Sticker, s)
  IN IF i = 0 THEN s
     ELSE SubSeq(s, 1, i - 1) \o
          (IF i + 2 <= Len(s) /\ s[i + 2] = "]" THEN f[After(s, i + 2)]
           ELSE <<"w">> \o f[After(s, i + 1)])

\* The recursive function of Debris exists.
LEMMA SomeClean == \E f \in [Text -> Text] : f = [s \in Text |-> CleanStep(f, s)]
<1>. DEFINE size == [s \in Text |-> Len(s)]
            stop == {s \in Text : OpensAt(Sticker, s) = 0}
            succ == [s \in Text |-> IF s \in stop THEN s
                                    ELSE IF Empties(s) THEN After(s, OpensAt(Sticker, s) + 2)
                                    ELSE After(s, OpensAt(Sticker, s) + 1)]
            base == [s \in Text |-> s]
            comb == [p \in Text \X Text |->
                       IF p[1] \in stop THEN p[2]
                       ELSE SubSeq(p[1], 1, OpensAt(Sticker, p[1]) - 1)
                            \o (IF Empties(p[1]) THEN p[2] ELSE <<"w">> \o p[2])]
<1>1. size \in [Text -> Nat] /\ stop \in SUBSET Text
  BY LenText
<1>2. succ \in [Text -> Text] /\ \A s \in Text \ stop : size[succ[s]] < size[s]
  BY DebrisStep
<1>3. base \in [Text -> Text]
  OBVIOUS
<1>4. comb \in [Text \X Text -> Text]
  <2>. SUFFICES ASSUME NEW p \in Text \X Text PROVE comb[p] \in Text
    OBVIOUS
  <2>1. p[1] \in Text /\ p[2] \in Text
    OBVIOUS
  <2>2. CASE p[1] \in stop
    BY <2>1, <2>2
  <2>3. CASE p[1] \notin stop
    <3>1. SubSeq(p[1], 1, OpensAt(Sticker, p[1]) - 1) \in Text
      BY <2>1, <2>3, DebrisStep
    <3>2. <<"w">> \o p[2] \in Text
      BY <2>1, SomeWord, JoinedText
    <3>. DEFINE a == SubSeq(p[1], 1, OpensAt(Sticker, p[1]) - 1)
                b == IF Empties(p[1]) THEN p[2] ELSE <<"w">> \o p[2]
    <3>3. a \in Text /\ b \in Text /\ comb[p] = a \o b
      BY <2>1, <2>3, <3>1, <3>2
    <3>. HIDE DEF a, b, comb
    <3>. QED BY <3>3, JoinedText
  <2>. QED BY <2>2, <2>3
<1>5. \E f \in [Text -> Text] : \A s \in Text : f[s] = Step(f, s, stop, succ, base, comb)
  <2>1. Recursive(Text, Text, size, stop, succ, base, comb)
    BY <1>1, <1>2, <1>3, <1>4 DEF Recursive
  <2>. HIDE DEF size, stop, succ, base, comb
  <2>. QED BY <2>1, Recursion
<1>6. PICK f \in [Text -> Text] : \A s \in Text : f[s] = Step(f, s, stop, succ, base, comb)
  BY <1>5
<1>7. ASSUME NEW s \in Text PROVE f[s] = CleanStep(f, s)
  <2>1. f[s] = IF s \in stop THEN base[s] ELSE comb[<<s, f[succ[s]]>>]
    BY <1>6 DEF Step
  <2>2. CASE s \in stop
    BY <2>1, <2>2 DEF CleanStep
  <2>3. CASE s \notin stop
    <3>1. succ[s] = IF Empties(s) THEN After(s, OpensAt(Sticker, s) + 2) ELSE After(s, OpensAt(Sticker, s) + 1)
      BY <2>3
    <3>2. succ[s] \in Text
      BY <1>2
    <3>3. f[succ[s]] \in Text
      BY <1>6, <3>2
    <3>4. comb[<<s, f[succ[s]]>>] = SubSeq(s, 1, OpensAt(Sticker, s) - 1)
                                     \o (IF Empties(s) THEN f[succ[s]] ELSE <<"w">> \o f[succ[s]])
      BY <2>3, <3>3
    <3>. HIDE DEF comb, succ
    <3>. QED BY <2>1, <2>3, <3>1, <3>4 DEF CleanStep, Empties
  <2>. QED BY <2>2, <2>3
<1>8. f = [s \in Text |-> CleanStep(f, s)]
  BY <1>6, <1>7
<1>. QED BY <1>6, <1>8

\* So Debris leaves a text alone that opens no marker.
LEMMA DebrisIs ==
  ASSUME NEW s \in Text
  PROVE  /\ OpensAt(Sticker, s) = 0 => Debris(s) = s
         /\ OpensAt(Sticker, s) # 0 =>
              Debris(s) = SubSeq(s, 1, OpensAt(Sticker, s) - 1)
                          \o (IF Empties(s) THEN Debris(After(s, OpensAt(Sticker, s) + 2))
                              ELSE <<"w">> \o Debris(After(s, OpensAt(Sticker, s) + 1)))
<1>. DEFINE g == CHOOSE g : g = [u \in Text |-> CleanStep(g, u)]
<1>1. g = [u \in Text |-> CleanStep(g, u)]
  BY SomeClean
<1>2. \A u : Debris(u) = g[u]
  BY DEF Debris, CleanStep
<1>. HIDE DEF g
<1>3. g[s] = CleanStep(g, s)
  BY <1>1
<1>. QED BY <1>2, <1>3 DEF CleanStep, Empties

LEMMA DebrisType == ASSUME NEW s \in Text PROVE Debris(s) \in Text
<1>. DEFINE P == {u \in Text : Debris(u) \in Text}
<1>1. ASSUME NEW u \in Text, \A t \in Text : Len(t) < Len(u) => t \in P PROVE u \in P
  <2>1. CASE OpensAt(Sticker, u) = 0
    BY <2>1, DebrisIs
  <2>2. CASE OpensAt(Sticker, u) # 0
    <3>. DEFINE i == OpensAt(Sticker, u)
                a == SubSeq(u, 1, i - 1)
                b == IF Empties(u) THEN Debris(After(u, i + 2)) ELSE <<"w">> \o Debris(After(u, i + 1))
    <3>1. a \in Text /\ Debris(After(u, i + 1)) \in Text /\ (Empties(u) => Debris(After(u, i + 2)) \in Text)
      BY <1>1, <2>2, DebrisStep
    <3>2. <<"w">> \o Debris(After(u, i + 1)) \in Text
      BY <3>1, SomeWord, JoinedText
    <3>3. b \in Text
      BY <3>1, <3>2
    <3>4. Debris(u) = a \o b
      BY <2>2, DebrisIs
    <3>. HIDE DEF a, b
    <3>5. a \o b \in Text
      BY <3>1, <3>3, JoinedText
    <3>. QED BY <3>4, <3>5
  <2>. QED BY <2>1, <2>2
<1>2. Text \subseteq P
  <2>. HIDE DEF P
  <2>. QED BY <1>1, ByLength
<1>. QED BY <1>2

-----------------------------------------------------------------------------
(* The messages of a text.                                                  *)

\* No part is longer than n.
Short(parts, n) == \A j \in DOMAIN parts : Len(parts[j]) <= n

\* One part more.
LEMMA Parted ==
  ASSUME NEW parts \in Seq(Text), NEW x \in Text
  PROVE  /\ Append(parts, x) \in Seq(Text) /\ Len(Append(parts, x)) = Len(parts) + 1
         /\ FlattenSeq(parts) \in Text /\ FlattenSeq(Append(parts, x)) = FlattenSeq(parts) \o x
         /\ \A n : Short(parts, n) /\ Len(x) <= n => Short(Append(parts, x), n)
<1>. DEFINE q == Append(parts, x)
<1>1. /\ q \in Seq(Text) /\ Len(q) = Len(parts) + 1 /\ q[Len(parts) + 1] = x
      /\ \A i \in 1..Len(parts) : q[i] = parts[i]
  BY AppendProperties
<1>2. FlattenSeq(parts) \in Text /\ FlattenSeq(q) = FlattenSeq(parts) \o x
  BY FlattenAppend DEF Text
<1>3. Len(parts) \in Nat /\ DOMAIN parts = 1..Len(parts) /\ DOMAIN q = 1..Len(q)
  BY <1>1, LenProperties
<1>. HIDE DEF q
<1>4. ASSUME NEW n, Short(parts, n), Len(x) <= n PROVE Short(q, n)
  <2>. SUFFICES ASSUME NEW j \in DOMAIN q PROVE Len(q[j]) <= n
    BY DEF Short
  <2>1. CASE j = Len(parts) + 1
    BY <1>1, <1>4, <2>1
  <2>2. CASE j \in 1..Len(parts)
    BY <1>1, <1>3, <1>4, <2>2 DEF Short
  <2>. QED BY <1>1, <1>3, <2>1, <2>2
<1>. QED BY <1>1, <1>2, <1>4 DEF q

LEMMA NoParts == << >> \in Seq(Text) /\ FlattenSeq(<< >>) = << >> /\ Len(<< >>) = 0 /\ \A n : Short(<< >>, n)
<1>1. << >> \in Seq(Text) /\ Len(<< >>) = 0 /\ DOMAIN << >> = {}
  BY EmptySeq
<1>2. FlattenSeq(<< >>) = << >>
  BY DEF FlattenSeq
<1>. QED BY <1>1, <1>2 DEF Short

\* Front and Last undo Append.
LEMMA FrontOf ==
  ASSUME NEW S, NEW s \in Seq(S), NEW e \in S
  PROVE  Front(Append(s, e)) = s /\ Last(Append(s, e)) = e
<1>. DEFINE q == Append(s, e)
            f == SubSeq(q, 1, Len(s))
<1>1. /\ q \in Seq(S) /\ Len(q) = Len(s) + 1 /\ q[Len(s) + 1] = e /\ Len(s) \in Nat
      /\ \A i \in 1..Len(s) : q[i] = s[i]
  BY AppendProperties
<1>2. \A i \in 1..Len(s) : q[i] \in S
  <2>. HIDE DEF q
  <2>. QED BY <1>1, ElementOfSeq
<1>. HIDE DEF q
<1>3. f \in Seq(S) /\ Len(f) = Len(s) /\ \A i \in 1..Len(s) : f[i] = q[i]
  BY <1>1, <1>2, SubSeqProperties
<1>4. f = s
  <2>. HIDE DEF f
  <2>. QED BY <1>1, <1>3, SeqEqual
<1>. QED BY <1>1, <1>4 DEF q, Front, Last

\* The notice lengthens a part by at most the slack and itself, and hides nothing.
LEMMA NoticeParts ==
  ASSUME NEW parts \in Seq(Text), NEW tail \in Text, Len(tail) <= MaxMessageRunes,
         Short(parts, MaxMessageRunes + Slack + 1)
  PROVE  LET r == AppendNotice(parts, tail)
         IN /\ r \in Seq(Text) /\ Len(r) <= Len(parts) + 1 /\ Short(r, MaxMessageRunes + Slack + 1)
            /\ FlattenSeq(r) = FlattenSeq(parts) \o (tail \o Notice)
<1>. USE MarkersAssumption
<1>. DEFINE r == AppendNotice(parts, tail)
            n == MaxMessageRunes + Slack + 1
<1>1. tail \o Notice \in Text /\ Len(tail \o Notice) = Len(tail) + 1 /\ Len(tail) \in Nat
  <2>1. Notice \in Text /\ Len(Notice) = 1
    BY SomeWord
  <2>2. tail \o Notice \in Text /\ Len(tail \o Notice) = Len(tail) + Len(Notice)
    BY <2>1, JoinedText, Zenon
  <2>. QED BY <2>1, <2>2, LenText
<1>2. Len(parts) \in Nat
  BY LenProperties
<1>3. CASE parts # << >> /\ Len(Last(parts)) + Len(tail) + 1 <= MaxMessageRunes + Slack
  <2>1. PICK q \in Seq(Text), e \in Text : parts = Append(q, e)
    BY <1>3, SequenceEmptyOrAppend
  <2>2. Front(parts) = q /\ Last(parts) = e
    BY <2>1, FrontOf
  <2>. DEFINE x == (e \o tail) \o Notice
  <2>3. e \o tail \in Text /\ Len(e \o tail) = Len(e) + Len(tail) /\ Len(e) \in Nat
    BY JoinedText, LenText
  <2>4. x \in Text /\ Len(x) = Len(e) + Len(tail) + 1
    <3>1. Notice \in Text /\ Len(Notice) = 1
      BY SomeWord
    <3>2. x \in Text /\ Len(x) = Len(e \o tail) + Len(Notice)
      BY <2>3, <3>1, JoinedText, Zenon
    <3>. HIDE DEF x
    <3>. QED BY <2>3, <3>1, <3>2, LenText
  <2>5. r = q \o <<x>>
    BY <1>3, <2>2 DEF AppendNotice
  <2>6. x = e \o (tail \o Notice)
    BY SomeWord, JoinAssoc, Zenon
  <2>. HIDE DEF x, r
  <2>7. r = Append(q, x)
    BY <2>4, <2>5, AppendIsConcat
  <2>8. Len(e) + Len(tail) + 1 <= n
    BY <1>1, <1>3, <2>2, <2>3
  <2>9. Short(q, n)
    <3>1. Len(q) \in Nat /\ DOMAIN q = 1..Len(q) /\ DOMAIN parts = 1..Len(q) + 1
          /\ \A i \in 1..Len(q) : parts[i] = q[i]
      <4>1. parts \in Seq(Text) /\ Len(parts) = Len(q) + 1 /\ \A i \in 1..Len(q) : parts[i] = q[i]
        BY <2>1, AppendProperties
      <4>. QED BY <4>1, LenProperties
    <3>. QED BY <3>1 DEF Short
  <2>10. /\ r \in Seq(Text) /\ Len(r) = Len(q) + 1 /\ FlattenSeq(r) = FlattenSeq(q) \o x
         /\ Short(r, n) /\ Len(parts) = Len(q) + 1
         /\ FlattenSeq(parts) = FlattenSeq(q) \o e /\ FlattenSeq(q) \in Text
    BY <2>1, <2>4, <2>7, <2>8, <2>9, Parted
  <2>11. (FlattenSeq(q) \o e) \o (tail \o Notice) = FlattenSeq(q) \o (e \o (tail \o Notice))
    <3>1. FlattenSeq(q) \in Text /\ tail \o Notice \in Text
      BY <1>1, <2>10
    <3>. QED BY <3>1, JoinAssoc, Zenon
  <2>12. FlattenSeq(r) = FlattenSeq(parts) \o (tail \o Notice)
    BY <2>6, <2>10, <2>11, Zenon
  <2>. QED BY <1>2, <2>10, <2>12 DEF r
<1>4. CASE ~(parts # << >> /\ Len(Last(parts)) + Len(tail) + 1 <= MaxMessageRunes + Slack)
  <2>1. r = Append(parts, tail \o Notice)
    BY <1>4 DEF AppendNotice
  <2>2. Len(tail \o Notice) <= n
    BY <1>1
  <2>. HIDE DEF r
  <2>3. /\ r \in Seq(Text) /\ Len(r) = Len(parts) + 1 /\ Short(r, n)
        /\ FlattenSeq(r) = FlattenSeq(parts) \o (tail \o Notice)
    BY <1>1, <2>1, <2>2, Parted
  <2>. QED BY <1>2, <2>3 DEF r
<1>. QED BY <1>3, <1>4

\* A cut lies inside the text.
LEMMA CutIs ==
  ASSUME NEW s \in Text, Len(s) > MaxMessageRunes
  PROVE  /\ Cut(s) \in 1..MaxMessageRunes /\ Cut(s) \in 0..Len(s)
         /\ SubSeq(s, 1, Cut(s)) \in Text /\ Len(SubSeq(s, 1, Cut(s))) <= MaxMessageRunes
         /\ After(s, Cut(s)) \in Text /\ Len(After(s, Cut(s))) < Len(s) /\ After(s, Cut(s)) # << >>
         /\ SubSeq(s, 1, Cut(s)) \o After(s, Cut(s)) = s
<1>. USE MarkersAssumption
<1>. DEFINE places == {i \in 1..MaxMessageRunes : s[i] = "w" /\ (i - 1) * Bytes > MaxMessageRunes \div 3}
            c == Cut(s)
<1>1. c = IF places = {} THEN MaxMessageRunes ELSE Max(places)
  BY DEF Cut
<1>2. places \subseteq 1..MaxMessageRunes /\ places \subseteq 0..MaxMessageRunes
  OBVIOUS
<1>. HIDE DEF places, c
<1>3. c \in 1..MaxMessageRunes
  <2>1. places # {} => Max(places) \in places
    BY <1>2, MaxOf
  <2>. QED BY <1>1, <1>2, <2>1
<1>4. Len(s) \in Nat /\ c \in 0..Len(s)
  BY <1>3, LenText
<1>5. SubSeq(s, 1, c) \in Text /\ Len(SubSeq(s, 1, c)) = c
  BY <1>4, FirstText
<1>6. After(s, c) \in Text /\ Len(After(s, c)) = Len(s) - c
  BY <1>4, AfterText
<1>7. After(s, c) # << >>
  BY <1>3, <1>4, <1>6, LenText
<1>8. SubSeq(s, 1, c) \o After(s, c) = s
  BY <1>4, Split
<1>. QED BY <1>3, <1>4, <1>5, <1>6, <1>7, <1>8 DEF c

\* One step of the cutting, of the parts there are and the text that is left.
CutStep(f, p) ==
  LET parts == p[1]
      s == p[2]
  IN IF s = << >> THEN parts
     ELSE IF Len(s) <= MaxMessageRunes
     THEN IF Len(parts) < MaxSegments - 1 THEN Append(parts, s) ELSE AppendNotice(parts, s)
     ELSE IF Len(parts) >= MaxSegments - 1
     THEN AppendNotice(parts, SubSeq(s, 1, MaxMessageRunes))
     ELSE f[<<Append(parts, SubSeq(s, 1, Cut(s))), After(s, Cut(s))>>]
CutEnds(p) == p[2] = << >> \/ Len(p[2]) <= MaxMessageRunes \/ Len(p[1]) >= MaxSegments - 1
CutNext(p) == <<Append(p[1], SubSeq(p[2], 1, Cut(p[2]))), After(p[2], Cut(p[2]))>>

LEMMA NoticeType ==
  ASSUME NEW parts \in Seq(Text), NEW tail \in Text
  PROVE  AppendNotice(parts, tail) \in Seq(Text)
<1>1. tail \o Notice \in Text
  BY SomeWord, JoinedText
<1>2. CASE parts # << >> /\ Len(Last(parts)) + Len(tail) + 1 <= MaxMessageRunes + Slack
  <2>1. PICK q \in Seq(Text), e \in Text : parts = Append(q, e)
    BY <1>2, SequenceEmptyOrAppend
  <2>2. Front(parts) = q /\ Last(parts) = e
    BY <2>1, FrontOf
  <2>3. e \o tail \in Text
    BY JoinedText
  <2>. DEFINE x == (e \o tail) \o Notice
  <2>4. x \in Text
    BY <2>3, SomeWord, JoinedText
  <2>5. AppendNotice(parts, tail) = q \o <<x>>
    BY <1>2, <2>2 DEF AppendNotice
  <2>. HIDE DEF x
  <2>. QED BY <2>4, <2>5, AppendIsConcat, AppendProperties
<1>3. CASE ~(parts # << >> /\ Len(Last(parts)) + Len(tail) + 1 <= MaxMessageRunes + Slack)
  BY <1>1, <1>3, AppendProperties DEF AppendNotice
<1>. QED BY <1>2, <1>3

\* The recursive function of Segments exists.
LEMMA SomeCutting ==
  \E f \in [Seq(Text) \X Text -> Seq(Text)] : f = [p \in Seq(Text) \X Text |-> CutStep(f, p)]
<1>. USE MarkersAssumption
<1>. DEFINE D == Seq(Text) \X Text
            V == Seq(Text)
            size == [p \in D |-> Len(p[2])]
            stop == {p \in D : CutEnds(p)}
            succ == [p \in D |-> IF p \in stop THEN p ELSE CutNext(p)]
            base == [p \in D |-> IF p \in stop THEN CutStep(<< >>, p) ELSE << >>]
            comb == [x \in D \X V |-> x[2]]
<1>1. size \in [D -> Nat] /\ stop \in SUBSET D
  BY LenText
<1>2. ASSUME NEW p \in D \ stop PROVE CutNext(p) \in D /\ size[CutNext(p)] < size[p]
  <2>1. p[1] \in Seq(Text) /\ p[2] \in Text /\ Len(p[2]) \in Nat /\ Len(p[2]) > MaxMessageRunes
    BY LenText DEF CutEnds
  <2>2. /\ SubSeq(p[2], 1, Cut(p[2])) \in Text /\ After(p[2], Cut(p[2])) \in Text
        /\ Len(After(p[2], Cut(p[2]))) < Len(p[2])
    BY <2>1, CutIs
  <2>3. Append(p[1], SubSeq(p[2], 1, Cut(p[2]))) \in Seq(Text)
    BY <2>1, <2>2, AppendProperties
  <2>4. CutNext(p) \in D /\ CutNext(p)[2] = After(p[2], Cut(p[2]))
    BY <2>2, <2>3 DEF CutNext
  <2>. QED BY <2>2, <2>4
<1>3. succ \in [D -> D] /\ \A p \in D \ stop : size[succ[p]] < size[p]
  BY <1>2
<1>4. base \in [D -> V]
  <2>. SUFFICES ASSUME NEW p \in D, CutEnds(p) PROVE CutStep(<< >>, p) \in V
    BY EmptySeq
  <2>1. p[1] \in Seq(Text) /\ p[2] \in Text /\ Len(p[2]) \in Nat
    BY LenText
  <2>2. AppendNotice(p[1], p[2]) \in V /\ Append(p[1], p[2]) \in V
    BY <2>1, NoticeType, AppendProperties
  <2>3. Len(p[2]) > MaxMessageRunes => AppendNotice(p[1], SubSeq(p[2], 1, MaxMessageRunes)) \in V
    <3>1. Len(p[2]) > MaxMessageRunes => MaxMessageRunes \in 0..Len(p[2])
      BY <2>1
    <3>2. Len(p[2]) > MaxMessageRunes => SubSeq(p[2], 1, MaxMessageRunes) \in Text
      BY <2>1, <3>1, FirstText
    <3>. QED BY <2>1, <3>2, NoticeType
  <2>4. CASE p[2] = << >>
    BY <2>1, <2>4 DEF CutStep
  <2>5. CASE p[2] # << >> /\ Len(p[2]) <= MaxMessageRunes
    BY <2>2, <2>5 DEF CutStep
  <2>6. CASE p[2] # << >> /\ ~(Len(p[2]) <= MaxMessageRunes)
    <3>1. Len(p[1]) >= MaxSegments - 1 /\ Len(p[2]) > MaxMessageRunes
      BY <2>1, <2>6 DEF CutEnds
    <3>2. CutStep(<< >>, p) = AppendNotice(p[1], SubSeq(p[2], 1, MaxMessageRunes))
      BY <2>6, <3>1 DEF CutStep
    <3>. QED BY <2>3, <3>1, <3>2
  <2>. QED BY <2>4, <2>5, <2>6
<1>5. comb \in [D \X V -> V]
  OBVIOUS
<1>6. \E f \in [D -> V] : \A p \in D : f[p] = Step(f, p, stop, succ, base, comb)
  <2>1. Recursive(D, V, size, stop, succ, base, comb)
    BY <1>1, <1>3, <1>4, <1>5 DEF Recursive
  <2>. HIDE DEF D, V, size, stop, succ, base, comb
  <2>. QED BY <2>1, Recursion
<1>7. PICK f \in [D -> V] : \A p \in D : f[p] = Step(f, p, stop, succ, base, comb)
  BY <1>6
<1>8. ASSUME NEW p \in D PROVE f[p] = CutStep(f, p)
  <2>1. f[p] = IF p \in stop THEN base[p] ELSE comb[<<p, f[succ[p]]>>]
    BY <1>7 DEF Step
  <2>2. CASE p \in stop
    <3>1. f[p] = CutStep(<< >>, p) /\ CutEnds(p)
      BY <2>1, <2>2
    <3>2. CutStep(<< >>, p) = CutStep(f, p)
      <4>1. p[2] \in Text /\ Len(p[2]) \in Nat
        BY LenText
      <4>. QED BY <3>1, <4>1 DEF CutStep, CutEnds
    <3>. QED BY <3>1, <3>2
  <2>3. CASE p \notin stop
    <3>1. succ[p] = CutNext(p) /\ succ[p] \in D
      BY <1>3, <2>3
    <3>2. f[succ[p]] \in V
      BY <1>7, <3>1
    <3>3. comb[<<p, f[succ[p]]>>] = f[succ[p]]
      BY <3>2
    <3>4. f[p] = f[CutNext(p)]
      BY <2>1, <2>3, <3>1, <3>3
    <3>5. ~CutEnds(p)
      BY <2>3
    <3>6. CutStep(f, p) = f[CutNext(p)]
      BY <3>5 DEF CutStep, CutEnds, CutNext
    <3>. QED BY <3>4, <3>6
  <2>. QED BY <2>2, <2>3
<1>. QED BY <1>7, <1>8

\* Parts hold a text, or its beginning and the notice.
Holds(all, before, s) ==
  \/ all = before \o s
  \/ \E k \in 0..Len(s) : all = before \o (SubSeq(s, 1, k) \o Notice)
\* There is room for a last message.
Few(parts) == Len(parts) <= MaxSegments - 1 /\ Short(parts, MaxMessageRunes + Slack + 1)
\* A result: bounded messages that hold the text, or its beginning and the notice.
Fair(r, parts, s) ==
  /\ r \in Seq(Text) /\ Len(r) <= MaxSegments /\ Short(r, MaxMessageRunes + Slack + 1)
  /\ Holds(FlattenSeq(r), FlattenSeq(parts), s)

\* What holds the rest of a text behind a part holds the text.
LEMMA HoldsCut ==
  ASSUME NEW before \in Text, NEW a \in Text, NEW b \in Text, NEW all, Holds(all, before \o a, b)
  PROVE  Holds(all, before, a \o b)
<1>1. CASE all = (before \o a) \o b
  BY <1>1, JoinAssoc, Zenon DEF Holds
<1>2. CASE \E k \in 0..Len(b) : all = (before \o a) \o (SubSeq(b, 1, k) \o Notice)
  <2>1. PICK k \in 0..Len(b) : all = (before \o a) \o (SubSeq(b, 1, k) \o Notice)
    BY <1>2
  <2>. DEFINE c == SubSeq(b, 1, k)
              d == SubSeq(a \o b, 1, Len(a) + k)
  <2>2. c \in Text /\ d = a \o c
    BY FirstText, Shifted
  <2>3. Len(a) + k \in 0..Len(a \o b)
    BY LenText, JoinedText
  <2>. HIDE DEF c, d
  <2>4. c \o Notice \in Text
    BY <2>2, SomeWord, JoinedText
  <2>5. (before \o a) \o (c \o Notice) = before \o (a \o (c \o Notice))
    BY <2>4, JoinAssoc, Zenon
  <2>6. (a \o c) \o Notice = a \o (c \o Notice)
    BY <2>2, SomeWord, JoinAssoc, Zenon
  <2>7. all = before \o (d \o Notice)
    <3>1. all = (before \o a) \o (c \o Notice)
      BY <2>1 DEF c
    <3>. QED BY <2>2, <2>5, <2>6, <3>1, Zenon
  <2>. QED BY <2>3, <2>7 DEF Holds, d
<1>. QED BY <1>1, <1>2 DEF Holds

\* The cutting, from any parts and any rest.
LEMMA CutHonest ==
  ASSUME NEW g, g = [p \in Seq(Text) \X Text |-> CutStep(g, p)], NEW t \in Text
  PROVE  Fair(g[<< << >>, t >>], << >>, t)
<1>. USE MarkersAssumption
<1>. DEFINE n == MaxMessageRunes + Slack + 1
            P == {s \in Text : \A parts \in Seq(Text) : Few(parts) => Fair(g[<<parts, s>>], parts, s)}
<1>1. ASSUME NEW s \in Text, \A u \in Text : Len(u) < Len(s) => u \in P PROVE s \in P
  <2>. SUFFICES ASSUME NEW parts \in Seq(Text), Few(parts) PROVE Fair(g[<<parts, s>>], parts, s)
    OBVIOUS
  <2>0. /\ g[<<parts, s>>] = CutStep(g, <<parts, s>>) /\ Len(s) \in Nat /\ Len(parts) \in Nat
        /\ FlattenSeq(parts) \in Text /\ Len(parts) <= MaxSegments - 1 /\ Short(parts, n)
    BY LenText, LenProperties, Parted DEF Few
  <2>. DEFINE before == FlattenSeq(parts)
  <2>1. CASE s = << >>
    <3>1. g[<<parts, s>>] = parts
      BY <2>0, <2>1 DEF CutStep
    <3>2. before \o s = before
      BY <2>0, <2>1, JoinEmpty
    <3>. QED BY <2>0, <3>1, <3>2 DEF Fair, Holds
  <2>2. CASE s # << >> /\ Len(s) <= MaxMessageRunes /\ Len(parts) < MaxSegments - 1
    <3>. DEFINE r == Append(parts, s)
    <3>1. g[<<parts, s>>] = r
      BY <2>0, <2>2 DEF CutStep
    <3>2. Len(s) <= n
      BY <2>0, <2>2
    <3>3. /\ r \in Seq(Text) /\ Len(r) = Len(parts) + 1 /\ Short(r, n)
          /\ FlattenSeq(r) = before \o s
      BY <2>0, <3>2, Parted
    <3>. HIDE DEF r
    <3>4. Holds(FlattenSeq(r), before, s)
      BY <3>3 DEF Holds
    <3>5. Len(r) <= MaxSegments
      BY <2>0, <3>3
    <3>. QED BY <3>1, <3>3, <3>4, <3>5 DEF Fair
  <2>3. CASE s # << >> /\ Len(s) <= MaxMessageRunes /\ ~(Len(parts) < MaxSegments - 1)
    <3>. DEFINE r == AppendNotice(parts, s)
    <3>1. g[<<parts, s>>] = r
      BY <2>0, <2>3 DEF CutStep
    <3>2. /\ r \in Seq(Text) /\ Len(r) <= Len(parts) + 1 /\ Short(r, n)
          /\ FlattenSeq(r) = before \o (s \o Notice)
      BY <2>0, <2>3, NoticeParts
    <3>. HIDE DEF r
    <3>3. Len(r) <= MaxSegments
      BY <2>0, <3>2, LenProperties
    <3>4. SubSeq(s, 1, Len(s)) = s /\ Len(s) \in 0..Len(s)
      BY <2>0, WholeText
    <3>5. Holds(FlattenSeq(r), before, s)
      BY <3>2, <3>4 DEF Holds
    <3>. QED BY <3>1, <3>2, <3>3, <3>5 DEF Fair
  <2>4. CASE s # << >> /\ ~(Len(s) <= MaxMessageRunes) /\ Len(parts) >= MaxSegments - 1
    <3>. DEFINE c == SubSeq(s, 1, MaxMessageRunes)
                r == AppendNotice(parts, c)
    <3>1. g[<<parts, s>>] = r
      BY <2>0, <2>4 DEF CutStep
    <3>2. MaxMessageRunes \in 0..Len(s)
      BY <2>0, <2>4
    <3>3. c \in Text /\ Len(c) <= MaxMessageRunes
      BY <3>2, FirstText
    <3>. HIDE DEF c
    <3>4. /\ r \in Seq(Text) /\ Len(r) <= Len(parts) + 1 /\ Short(r, n)
          /\ FlattenSeq(r) = before \o (c \o Notice)
      BY <2>0, <3>3, NoticeParts
    <3>. HIDE DEF r
    <3>5. Len(r) <= MaxSegments
      BY <2>0, <3>4, LenProperties
    <3>6. Holds(FlattenSeq(r), before, s)
      BY <3>2, <3>4 DEF Holds, c
    <3>. QED BY <3>1, <3>4, <3>5, <3>6 DEF Fair
  <2>5. CASE s # << >> /\ ~(Len(s) <= MaxMessageRunes) /\ ~(Len(parts) >= MaxSegments - 1)
    <3>. DEFINE a == SubSeq(s, 1, Cut(s))
                b == After(s, Cut(s))
                q == Append(parts, a)
                r == g[<<q, b>>]
    <3>1. g[<<parts, s>>] = r
      <4>1. CutStep(g, <<parts, s>>) = r
        BY <2>5 DEF CutStep
      <4>. HIDE DEF r
      <4>. QED BY <2>0, <4>1, Zenon
    <3>2. a \in Text /\ Len(a) <= MaxMessageRunes /\ b \in Text /\ Len(b) < Len(s) /\ a \o b = s
      <4>. HIDE DEF r, q
      <4>1. Len(s) > MaxMessageRunes
        BY <2>0, <2>5
      <4>. QED BY <4>1, CutIs
    <3>. HIDE DEF a, b
    <3>3. Len(a) <= n
      BY <3>2, LenText
    <3>4. q \in Seq(Text) /\ Len(q) = Len(parts) + 1 /\ Short(q, n) /\ FlattenSeq(q) = before \o a
      BY <2>0, <3>2, <3>3, Parted
    <3>. HIDE DEF q
    <3>5. Few(q)
      BY <2>0, <2>5, <3>4 DEF Few
    <3>6. b \in P
      BY <1>1, <3>2
    <3>7. Fair(r, q, b)
      BY <3>4, <3>5, <3>6
    <3>. HIDE DEF r
    <3>8. Holds(FlattenSeq(r), before \o a, b)
      BY <3>4, <3>7 DEF Fair
    <3>9. Holds(FlattenSeq(r), before, a \o b)
      BY <2>0, <3>2, <3>8, HoldsCut
    <3>. QED BY <3>1, <3>2, <3>7, <3>9 DEF Fair
  <2>. QED BY <2>1, <2>2, <2>3, <2>4, <2>5
<1>2. Text \subseteq P
  <2>. HIDE DEF P
  <2>. QED BY <1>1, ByLength
<1>3. Few(<< >>) /\ << >> \in Seq(Text)
  BY NoParts DEF Few
<1>. QED BY <1>2, <1>3

\* SplitMessage (and appendNotice), of every text: at most MaxSegments messages, each of
\* bounded length, that hold the text, or its beginning and the notice.
THEOREM SplitHonest ==
  ASSUME NEW t \in Text
  PROVE  LET parts == SplitMessage(t)
             all == FlattenSeq(parts)
         IN /\ Len(parts) <= MaxSegments
            /\ \A j \in DOMAIN parts : Len(parts[j]) <= MaxMessageRunes + Slack + 1
            /\ \/ all = t
               \/ all # << >> /\ Last(all) = "more" /\ IsPrefix(Front(all), t)
<1>. USE MarkersAssumption
<1>. DEFINE n == MaxMessageRunes + Slack + 1
            parts == SplitMessage(t)
            all == FlattenSeq(parts)
<1>1. Fair(parts, << >>, t)
  <2>1. CASE Len(t) <= MaxMessageRunes
    <3>1. parts = <<t>>
      BY <2>1 DEF SplitMessage
    <3>2. <<t>> = Append(<< >>, t)
      OBVIOUS
    <3>3. << >> \in Seq(Text) /\ FlattenSeq(<< >>) = << >> /\ Len(<< >>) = 0 /\ Short(<< >>, n) /\ Len(t) <= n
      BY <2>1, NoParts, LenText
    <3>. DEFINE q == Append(<< >>, t)
    <3>4. q \in Seq(Text) /\ Len(q) = 0 + 1 /\ Short(q, n) /\ FlattenSeq(q) = << >> \o t
      BY <3>3, Parted
    <3>. HIDE DEF q, parts
    <3>5. parts = q
      BY <3>1, <3>2 DEF q
    <3>6. Holds(FlattenSeq(q), FlattenSeq(<< >>), t)
      BY <3>3, <3>4 DEF Holds
    <3>7. q \in Seq(Text) /\ Len(q) <= MaxSegments /\ Short(q, MaxMessageRunes + Slack + 1)
      BY <3>4
    <3>8. Fair(q, << >>, t)
      BY <3>6, <3>7 DEF Fair
    <3>. QED BY <3>5, <3>8
  <2>2. CASE ~(Len(t) <= MaxMessageRunes)
    <3>. DEFINE g == CHOOSE g : g = [p \in Seq(Text) \X Text |-> CutStep(g, p)]
    <3>1. g = [p \in Seq(Text) \X Text |-> CutStep(g, p)]
      BY SomeCutting
    <3>2. Segments(t) = g[<< << >>, t >>]
      BY DEF Segments, CutStep
    <3>3. parts = g[<< << >>, t >>]
      BY <2>2, <3>2 DEF SplitMessage
    <3>. HIDE DEF g, parts
    <3>. QED BY <3>1, <3>3, CutHonest
  <2>. QED BY <2>1, <2>2
<1>. HIDE DEF parts
<1>2. Len(parts) <= MaxSegments /\ \A j \in DOMAIN parts : Len(parts[j]) <= n
  BY <1>1 DEF Fair, Short
<1>3. Holds(all, << >>, t)
  BY <1>1, NoParts DEF Fair
<1>4. CASE all = << >> \o t
  BY <1>2, <1>4, JoinEmpty DEF parts
<1>5. CASE \E k \in 0..Len(t) : all = << >> \o (SubSeq(t, 1, k) \o Notice)
  <2>1. PICK k \in 0..Len(t) : all = << >> \o (SubSeq(t, 1, k) \o Notice)
    BY <1>5
  <2>. DEFINE x == SubSeq(t, 1, k)
  <2>2. x \in Text /\ Len(x) = k /\ k \in 0..Len(x)
    BY FirstText
  <2>3. x = SubSeq(t, 1, k)
    OBVIOUS
  <2>. HIDE DEF x
  <2>4. x \o Notice \in Text /\ Len(x \o Notice) = k + 1 /\ (x \o Notice)[k + 1] = "more"
    <3>1. Notice \in Text /\ Len(Notice) = 1 /\ Notice[1] = "more"
      BY SomeWord
    <3>2. x \o Notice \in Text /\ Len(x \o Notice) = Len(x) + Len(Notice)
          /\ \A i \in 1..Len(Notice) : (x \o Notice)[Len(x) + i] = Notice[i]
      BY <2>2, <3>1, JoinedText, Zenon
    <3>. QED BY <2>2, <3>1, <3>2
  <2>5. all = x \o Notice
    BY <2>1, <2>3, <2>4, JoinEmpty
  <2>6. SubSeq(x \o Notice, 1, k) = x
    <3>1. SubSeq(x \o Notice, 1, k) = SubSeq(x, 1, k)
      BY <2>2, SomeWord, SplitJoined
    <3>. QED BY <2>2, <3>1, WholeText
  <2>. HIDE DEF all
  <2>7. all # << >> /\ Last(all) = "more" /\ Front(all) = x
    <3>1. all \in Text /\ Len(all) = k + 1 /\ all[k + 1] = "more" /\ SubSeq(all, 1, k) = x
      BY <2>4, <2>5, <2>6
    <3>2. all # << >> /\ (k + 1) - 1 = k
      BY <3>1, LenText
    <3>. QED BY <3>1, <3>2 DEF Last, Front
  <2>8. IsPrefix(x, t)
    <3>1. SubSeq(x, 1, Len(x)) = x /\ Len(x) <= Len(t)
      BY <2>2, WholeText, LenText
    <3>. QED BY <2>2, <2>3, <3>1 DEF IsPrefix
  <2>. QED BY <1>2, <2>7, <2>8 DEF all, parts
<1>. QED BY <1>3, <1>4, <1>5 DEF Holds

-----------------------------------------------------------------------------
(* What a turn shows and says.                                              *)

LEMMA LastOfIs == ASSUME NEW c, NEW s \in Text PROVE LastOf(c, s) \in 0..Len(s)
<1>. DEFINE places == {i \in 1..Len(s) : s[i] = c}
<1>1. Len(s) \in Nat /\ places \subseteq 0..Len(s)
  BY LenText
<1>2. LastOf(c, s) = IF places = {} THEN 0 ELSE Max(places)
  BY DEF LastOf
<1>. HIDE DEF places
<1>3. places # {} => Max(places) \in places
  BY <1>1, MaxOf
<1>4. CASE places = {}
  BY <1>1, <1>2, <1>4
<1>5. CASE places # {}
  <2>1. LastOf(c, s) = Max(places)
    BY <1>2, <1>5
  <2>. QED BY <1>1, <1>3, <1>5, <2>1
<1>. QED BY <1>4, <1>5

\* The place of a cut lies in the text: what CutOutside says is another place.
LEMMA StreamCutIs ==
  ASSUME NEW s \in Text, NEW timeout \in BOOLEAN
  PROVE  StreamCut(s, timeout) \in 0..Len(s)
<1>1. Len(s) \in Nat /\ LastOf("w", s) \in 0..Len(s) /\ LastOf("]", s) \in 0..Len(s)
  BY LenText, LastOfIs
<1>2. HardCap \in Nat
  BY MarkersAssumption
<1>. QED BY <1>1, <1>2 DEF StreamCut

\* An empty text adds no message and loses nothing.
LEMMA SayIs ==
  ASSUME NEW parts \in Seq(Text), NEW x \in Text
  PROVE  /\ parts \o Say(x) \in Seq(Text)
         /\ FlattenSeq(parts \o Say(x)) = FlattenSeq(parts) \o x
         /\ x # << >> => parts \o Say(x) # << >>
<1>0. FlattenSeq(parts) \in Text
  BY Parted, EmptyText
<1>1. CASE x = << >>
  <2>1. parts \o << >> = parts
    BY ConcatEmptySeq
  <2>2. FlattenSeq(parts) \o << >> = FlattenSeq(parts)
    BY <1>0, JoinEmpty
  <2>. QED BY <1>1, <2>1, <2>2 DEF Say
<1>2. CASE x # << >>
  <2>1. parts \o Say(x) = Append(parts, x)
    BY <1>2, AppendIsConcat DEF Say
  <2>2. /\ Append(parts, x) \in Seq(Text) /\ Append(parts, x) # << >>
        /\ FlattenSeq(Append(parts, x)) = FlattenSeq(parts) \o x
    BY Parted, AppendProperties
  <2>. QED BY <2>1, <2>2
<1>. QED BY <1>1, <1>2

LEMMA SayMany ==
  ASSUME NEW parts \in Seq(Text), NEW x \in Text, NEW more \in Seq(Text)
  PROVE  parts \o Say(x) \o more \in Seq(Text) /\ parts \o more \o Say(x) \in Seq(Text)
<1>1. parts \o Say(x) \in Seq(Text)
  BY SayIs
<1>2. \A a, b \in Seq(Text) : a \o b \in Seq(Text)
  BY ConcatProperties
<1>3. parts \o more \in Seq(Text)
  BY <1>2
<1>4. (parts \o more) \o Say(x) \in Seq(Text)
  BY <1>3, SayIs
<1>. QED BY <1>1, <1>2, <1>4

\* What is pending is what comes behind what was sent.
LEMMA NextPart ==
  ASSUME NEW v \in Text, NEW w \in Text, NEW m \in 0..Len(v)
  PROVE  LET u == v \o w
             rest == After(u, m)
         IN /\ rest \in Text /\ u \in Text /\ m \in 0..Len(u) /\ Len(rest) = Len(u) - m
            /\ \A n \in 0..Len(rest) : /\ m + n \in 0..Len(u) /\ SubSeq(rest, 1, n) \in Text
                                       /\ SubSeq(v, 1, m) \o SubSeq(rest, 1, n) = SubSeq(u, 1, m + n)
<1>. DEFINE u == v \o w
            rest == After(u, m)
            p == SubSeq(u, 1, m)
<1>1. u \in Text /\ Len(u) = Len(v) + Len(w) /\ Len(v) \in Nat /\ Len(w) \in Nat
  BY JoinedText, LenText
<1>2. p = SubSeq(v, 1, m)
  BY SplitJoined
<1>. HIDE DEF u
<1>3. m \in 0..Len(u)
  BY <1>1
<1>4. p \in Text /\ Len(p) = m /\ rest \in Text /\ Len(rest) = Len(u) - m /\ p \o rest = u
  BY <1>1, <1>3, FirstText, AfterText, Split
<1>. HIDE DEF p, rest
<1>5. ASSUME NEW n \in 0..Len(rest)
      PROVE  m + n \in 0..Len(u) /\ SubSeq(rest, 1, n) \in Text /\ p \o SubSeq(rest, 1, n) = SubSeq(u, 1, m + n)
  <2>1. m + n \in 0..Len(u)
    BY <1>1, <1>3, <1>4
  <2>2. SubSeq(rest, 1, n) \in Text
    BY <1>4, FirstText
  <2>3. SubSeq(p \o rest, 1, Len(p) + n) = p \o SubSeq(rest, 1, n)
    BY <1>4, Shifted
  <2>. QED BY <1>4, <2>1, <2>2, <2>3
<1>. QED BY <1>1, <1>2, <1>3, <1>4, <1>5 DEF u, rest

\* A text is a beginning of itself and more.
LEMMA PrefixJoined ==
  ASSUME NEW a \in Text, NEW b \in Text
  PROVE  IsPrefix(a, a \o b)
<1>1. Len(a) \in 0..Len(a) /\ Len(a) <= Len(a \o b)
  BY LenText, JoinedText
<1>2. SubSeq(a \o b, 1, Len(a)) = SubSeq(a, 1, Len(a))
  BY <1>1, SplitJoined
<1>. QED BY <1>1, <1>2 DEF IsPrefix

\* A part of a text that opens nothing opens nothing.
LEMMA PartOpens ==
  ASSUME NEW open \in Openings, NEW a \in Text, NEW b \in Text, OpensAt(open, a \o b) = 0
  PROVE  OpensAt(open, a) = 0 /\ OpensAt(open, b) = 0
<1>1. OpensAt(open, a) = 0
  <2>1. CASE OpensAt(open, a) # 0
    <3>1. OpensAt(open, a \o b) = OpensAt(open, a)
      BY <2>1, GrownOpens
    <3>. QED BY <3>1
  <2>. QED BY <2>1
<1>2. OpensAt(open, b) = 0
  <2>. DEFINE u == a \o b
              i == OpensAt(open, b)
              n == Len(a)
  <2>1. CASE i # 0
    <3>1. i \in 1..Len(b) - 1 /\ Here(open, b, i)
      BY <2>1, OpensAtIs
    <3>2. /\ u \in Text /\ Len(u) = n + Len(b) /\ n \in Nat /\ Len(b) \in Nat
          /\ \A k \in 1..Len(b) : u[n + k] = b[k]
      BY JoinedText, LenText
    <3>3. OpensAt(open, u) = 0
      OBVIOUS
    <3>. HIDE DEF u, i, n
    <3>4. \A k \in 1..Len(u) - 1 : ~Here(open, u, k)
      BY <3>2, <3>3, OpensAtIs
    <3>5. n + i \in 1..Len(u) - 1 /\ u[n + i] = b[i] /\ (n + i) + 1 = n + (i + 1) /\ u[n + (i + 1)] = b[i + 1]
      BY <3>1, <3>2
    <3>6. Here(open, u, n + i)
      BY <3>1, <3>5 DEF Here
    <3>. QED BY <3>4, <3>5, <3>6
  <2>. QED BY <2>1
<1>. QED BY <1>1, <1>2

\* Short sequences, flattened.
LEMMA OnePart == ASSUME NEW s \in Seq(Text), Len(s) = 1 PROVE s[1] \in Text /\ FlattenSeq(s) = s[1]
<1>1. PICK q \in Seq(Text), a \in Text : s = Append(q, a)
  BY EmptySeq, SequenceEmptyOrAppend
<1>2. Len(s) = Len(q) + 1 /\ s[Len(q) + 1] = a /\ Len(q) \in Nat
  BY <1>1, AppendProperties
<1>3. Len(q) = 0
  BY <1>2
<1>4. q = << >> /\ s[1] = a
  <2>1. q = << >>
    BY <1>3, EmptySeq
  <2>2. Len(q) + 1 = 1
    BY <1>3
  <2>. QED BY <1>2, <2>1, <2>2, Zenon
<1>5. FlattenSeq(s) = << >> \o a
  BY <1>1, <1>4, Parted, NoParts
<1>. QED BY <1>4, <1>5, JoinEmpty

LEMMA TwoParts == ASSUME NEW s \in Seq(Text), Len(s) = 2 PROVE s[1] \in Text /\ s[2] \in Text /\ FlattenSeq(s) = s[1] \o s[2]
<1>1. PICK q \in Seq(Text), a \in Text : s = Append(q, a)
  BY EmptySeq, SequenceEmptyOrAppend
<1>2. Len(s) = Len(q) + 1 /\ s[Len(q) + 1] = a /\ Len(q) \in Nat
  BY <1>1, AppendProperties
<1>2a. \A i \in 1..Len(q) : s[i] = q[i]
  BY <1>1, AppendProperties
<1>3. Len(q) = 1
  <2>1. Len(s) = Len(q) + 1 /\ Len(q) \in Nat /\ Len(s) = 2
    BY <1>2
  <2>2. \A n \in Nat : 2 = n + 1 => n = 1
    OBVIOUS
  <2>. QED BY <2>1, <2>2
<1>4. s[1] = q[1] /\ s[2] = a
  BY <1>2, <1>2a, <1>3
<1>5. q[1] \in Text /\ FlattenSeq(q) = q[1]
  BY <1>3, OnePart
<1>6. FlattenSeq(s) = FlattenSeq(q) \o a
  BY <1>1, Parted
<1>. QED BY <1>4, <1>5, <1>6

\* Spoken, of any answers.
SpokenOf(rs) == FlattenSeq([i \in DOMAIN rs |-> ExtractCalls(rs[i]).text])

\* It joins one answer or two.
LEMMA SpokenIs ==
  ASSUME NEW rs \in Seq(Text)
  PROVE  /\ Len(rs) = 0 => SpokenOf(rs) = << >>
         /\ Len(rs) = 1 => SpokenOf(rs) = ExtractCalls(rs[1]).text
         /\ Len(rs) = 2 => SpokenOf(rs) = ExtractCalls(rs[1]).text \o ExtractCalls(rs[2]).text
<1>. DEFINE s == [i \in DOMAIN rs |-> ExtractCalls(rs[i]).text]
<1>1. /\ Len(rs) \in Nat /\ DOMAIN rs = 1..Len(rs)
      /\ \A i \in 1..Len(rs) : rs[i] \in Text /\ ExtractCalls(rs[i]).text \in Text
  BY LenProperties, ElementOfSeq, ExtractIs
<1>2. s \in Seq(Text) /\ Len(s) = Len(rs) /\ \A i \in 1..Len(rs) : s[i] = ExtractCalls(rs[i]).text
  <2>1. s \in [1..Len(rs) -> Text]
    BY <1>1
  <2>. QED BY <1>1, <2>1
<1>3. SpokenOf(rs) = FlattenSeq(s)
  BY DEF SpokenOf
<1>. HIDE DEF s
<1>4. CASE Len(rs) = 0
  BY <1>2, <1>3, <1>4, EmptySeq, NoParts
<1>5. CASE Len(rs) = 1
  BY <1>1, <1>2, <1>3, <1>5, OnePart
<1>6. CASE Len(rs) = 2
  <2>1. FlattenSeq(s) = s[1] \o s[2]
    BY <1>2, <1>6, TwoParts
  <2>2. s[1] = ExtractCalls(rs[1]).text /\ s[2] = ExtractCalls(rs[2]).text
    BY <1>2, <1>6
  <2>3. SpokenOf(rs) = ExtractCalls(rs[1]).text \o ExtractCalls(rs[2]).text
    BY <1>3, <2>1, <2>2, Zenon
  <2>. QED BY <1>6, <2>3
<1>. QED BY <1>1, <1>4, <1>5, <1>6

LEMMA WrittenText == Seq(Written) \subseteq Text
<1>1. Written \subseteq Written \cup Canned
  OBVIOUS
<1>. QED BY <1>1, SeqMonotonic DEF Text

\* A phrase of the program is a text without marks.
LEMMA CannedText ==
  ASSUME NEW c \in Canned
  PROVE  /\ <<c>> \in Text /\ Len(<<c>>) = 1 /\ <<c>> # << >>
         /\ \A open \in Openings : OpensAt(open, <<c>>) = 0 /\ ClosesAt(open, <<c>>) = 0
<1>1. <<c>> \in Text /\ Len(<<c>>) = 1
  <2>1. c \in Written \cup Canned
    OBVIOUS
  <2>2. \A S : \A x \in S : <<x>> \in Seq(S)
    OBVIOUS
  <2>. QED BY <2>1, <2>2 DEF Text
<1>2. ASSUME NEW t \in Text, Len(t) = 1, NEW open \in Openings PROVE OpensAt(open, t) = 0 /\ ClosesAt(open, t) = 0
  <2>1. OpensAt(open, t) # 0 => OpensAt(open, t) \in 1..Len(t) - 1
    BY OpensAtIs
  <2>2. OpensAt(open, t) = 0
    BY <1>2, <2>1
  <2>3. ClosesAt(open, t) # 0 => OpensAt(open, t) \in 1..Len(t) - 1
    BY ClosesAtIs
  <2>. QED BY <1>2, <2>2, <2>3
<1>. QED BY <1>1, <1>2

\* What the model may say, and its pieces, are texts.
LEMMA AnswersAre == Answers \subseteq Seq(Written) /\ Answers \subseteq Text
BY TurnAssumption, WrittenText DEF Answers

LEMMA LimitedText ==
  ASSUME NEW s \in Text, NEW n \in Nat
  PROVE  Limited(s, n) \in Text
<1>1. (IF Len(s) < n THEN Len(s) ELSE n) \in 0..Len(s)
  BY LenText
<1>. QED BY <1>1, FirstText DEF Limited

LEMMA PiecesAre ==
  ASSUME raws \in Seq(Text), raws # << >>
  PROVE  Pieces \subseteq Text
<1>1. Last(raws) \in Text
  BY EmptySeq, ElementOfSeq DEF Last
<1>2. Rests \subseteq Text
  <2>. SUFFICES ASSUME NEW t \in Answers, IsPrefix(Last(raws), t) PROVE After(t, Len(Last(raws))) \in Text
    BY DEF Rests
  <2>1. t \in Text
    BY AnswersAre
  <2>2. Len(Last(raws)) \in 0..Len(t)
    BY <1>1, LenText DEF IsPrefix
  <2>. QED BY <2>1, <2>2, AfterText
<1>3. ASSUME NEW rest \in Rests, NEW n \in 1..MaxPiece PROVE Limited(rest, n) \in Text
  BY <1>2, LimitedText, TurnAssumption
<1>. QED BY <1>3 DEF Pieces

-----------------------------------------------------------------------------
(* The inductive invariant of a turn: the beginning, and one piece of a stream.*)

LEMMA EmptyRaws == << >> \in Seq(Text) /\ Len(<< >>) = 0
BY NoParts

\* The invariant holds at the beginning.
LEMMA TurnInitIInv == TurnInit => TurnIInv
<1>. SUFFICES ASSUME TurnInit PROVE TurnIInv
  OBVIOUS
<1>. USE DEF TurnInit
<1>1. DataOK
  BY EmptyText, EmptyRaws DEF DataOK
<1>2. SaidOK
  <2>1. SubSeq(<< >>, 1, 0) = << >> /\ FlattenSeq(<< >>) = << >>
    BY EmptyText, WholeText, NoParts
  <2>. QED BY <2>1 DEF SaidOK
<1>3. FilterOK
  <2>1. Spoken = << >>
    BY EmptyRaws, SpokenIs DEF Spoken, SpokenOf
  <2>2. Heard = << >>
    BY <2>1 DEF Heard
  <2>3. Feed(Sticker, << >>).out = << >> /\ Feed(Sticker, << >>).held = << >>
    BY IsOpening, EmptyFeeds
  <2>4. Streaming
    BY DEF Streaming
  <2>. QED BY <2>2, <2>3, <2>4 DEF FilterOK
<1>4. WholeOK
  BY DEF WholeOK
<1>5. WholeAnswers
  BY DEF WholeAnswers
<1>. QED BY <1>1, <1>2, <1>3, <1>4, <1>5 DEF TurnIInv

\* What one piece does to the filter and to what is sent.

\* What a flush sends is the next part of what is visible.
LEMMA Flushed ==
  ASSUME DataOK, NEW out \in Text, visible' = visible \o out, NEW timeout \in BOOLEAN, FlushPart(timeout)
  PROVE  /\ visible' \in Text /\ sent' \in 0..Len(visible') /\ said' \in Seq(Text)
         /\ FlattenSeq(said) = SubSeq(visible, 1, sent) => FlattenSeq(said') = SubSeq(visible', 1, sent')
<1>. DEFINE pending == After(visible', sent)
            n == StreamCut(pending, timeout)
            x == SubSeq(pending, 1, n)
<1>1. visible \in Text /\ sent \in 0..Len(visible) /\ said \in Seq(Text)
  BY DEF DataOK
<1>2. sent' = sent + n /\ said' = said \o Say(x)
  BY DEF FlushPart
<1>3. pending \in Text /\ visible' \in Text
  BY <1>1, NextPart
<1>4. n \in 0..Len(pending)
  <2>. HIDE DEF pending
  <2>. QED BY <1>3, StreamCutIs
<1>5. sent + n \in 0..Len(visible') /\ x \in Text /\ SubSeq(visible, 1, sent) \o x = SubSeq(visible', 1, sent + n)
  <2>1. \A k \in 0..Len(pending) : /\ sent + k \in 0..Len(visible') /\ SubSeq(pending, 1, k) \in Text
                                   /\ SubSeq(visible, 1, sent) \o SubSeq(pending, 1, k) = SubSeq(visible', 1, sent + k)
    BY <1>1, NextPart
  <2>. HIDE DEF n, pending
  <2>. QED BY <1>4, <2>1
<1>. HIDE DEF x, n
<1>6. said' \in Seq(Text) /\ FlattenSeq(said') = FlattenSeq(said) \o x
  BY <1>1, <1>2, <1>5, SayIs
<1>7. FlattenSeq(said) = SubSeq(visible, 1, sent) => FlattenSeq(said') = SubSeq(visible', 1, sent')
  BY <1>2, <1>5, <1>6
<1>. QED BY <1>2, <1>3, <1>5, <1>6, <1>7

\* The filter goes on as if it had read all of the text at once.
LEMMA DeltaEffect ==
  ASSUME DataOK, NEW out \in Text, NEW place, OnDelta(out, place)
  PROVE  /\ held' \in Text /\ visible' \in Text /\ sent' \in 0..Len(visible') /\ said' \in Seq(Text)
         /\ pc' \in {place, "crashed"}
         /\ FlattenSeq(said) = SubSeq(visible, 1, sent) =>
              pc' = "crashed" \/ FlattenSeq(said') = SubSeq(visible', 1, sent')
         /\ \A h \in Text : visible = Feed(Sticker, h).out /\ held = Feed(Sticker, h).held =>
              visible' = Feed(Sticker, h \o out).out /\ held' = Feed(Sticker, h \o out).held
<1>. DEFINE f == Feed(Sticker, held \o out)
<1>0. /\ visible \in Text /\ held \in Text /\ sent \in 0..Len(visible) /\ said \in Seq(Text)
      /\ held \o out \in Text
  BY JoinedText DEF DataOK
<1>1. f.out \in Text /\ f.held \in Text
  BY <1>0, IsOpening, FeedIs
<1>2. CASE out = << >>
  <2>1. pc' = place /\ UNCHANGED stream /\ UNCHANGED said
    BY <1>2 DEF OnDelta
  <2>2. held' = held /\ visible' = visible /\ sent' = sent /\ said' = said
    BY <2>1 DEF stream
  <2>3. \A h \in Text : h \o out = h
    BY <1>2, JoinEmpty
  <2>. QED BY <1>0, <2>1, <2>2, <2>3
<1>3. CASE out # << >>
  <2>1. /\ held' = f.held /\ visible' = visible \o f.out
        /\ \E timeout \in BOOLEAN :
             IF CutOutside(After(visible', sent), timeout)
             THEN pc' = "crashed" /\ UNCHANGED <<sent, said>>
             ELSE pc' = place /\ FlushPart(timeout)
    BY <1>3 DEF OnDelta
  <2>2. ASSUME NEW h \in Text, visible = Feed(Sticker, h).out, held = Feed(Sticker, h).held
        PROVE  visible' = Feed(Sticker, h \o out).out /\ held' = Feed(Sticker, h \o out).held
    <3>1. /\ Feed(Sticker, h \o out).out = Feed(Sticker, h).out \o Feed(Sticker, Feed(Sticker, h).held \o out).out
          /\ Feed(Sticker, h \o out).held = Feed(Sticker, Feed(Sticker, h).held \o out).held
      BY IsOpening, FeedJoined
    <3>2. held' = Feed(Sticker, held \o out).held /\ visible' = visible \o Feed(Sticker, held \o out).out
      BY <2>1
    <3>. QED BY <2>2, <3>1, <3>2, Zenon
  <2>3. PICK timeout \in BOOLEAN :
             IF CutOutside(After(visible', sent), timeout)
             THEN pc' = "crashed" /\ UNCHANGED <<sent, said>>
             ELSE pc' = place /\ FlushPart(timeout)
    BY <2>1
  <2>. HIDE DEF f
  <2>4. CASE CutOutside(After(visible', sent), timeout)
    <3>1. pc' = "crashed" /\ sent' = sent /\ said' = said
      BY <2>3, <2>4
    <3>2. visible' \in Text /\ Len(visible') = Len(visible) + Len(f.out) /\ Len(f.out) \in Nat /\ Len(visible) \in Nat
      BY <1>0, <1>1, <2>1, JoinedText, LenText
    <3>3. sent' \in 0..Len(visible')
      BY <1>0, <3>1, <3>2
    <3>. QED BY <1>0, <1>1, <2>1, <2>2, <3>1, <3>2, <3>3
  <2>5. CASE ~CutOutside(After(visible', sent), timeout)
    <3>1. pc' = place /\ FlushPart(timeout)
      BY <2>3, <2>5
    <3>2. /\ visible' \in Text /\ sent' \in 0..Len(visible') /\ said' \in Seq(Text)
          /\ FlattenSeq(said) = SubSeq(visible, 1, sent) => FlattenSeq(said') = SubSeq(visible', 1, sent')
      BY <1>1, <2>1, <3>1, Flushed
    <3>. QED BY <1>1, <2>1, <2>2, <3>1, <3>2
  <2>. QED BY <2>4, <2>5
<1>. QED BY <1>2, <1>3

\* What one piece does to the gate.
LEMMA GateEffect ==
  ASSUME DataOK, NEW d \in Text, Delta(d)
  PROVE  LET n == Len(raws)
             g == Feed(Call, gate \o d)
         IN /\ g.out \in Text /\ g.held \in Text /\ n \in 1..2 /\ (pc = "ask" => n = 1) /\ (pc = "again" => n = 2)
            /\ gate' = g.held /\ raws' \in Seq(Text) /\ Len(raws') = n
            /\ raws'[n] = raws[n] \o d /\ (n = 2 => raws'[1] = raws[1])
            /\ gate = Feed(Call, raws[n]).held =>
                 /\ Feed(Call, raws'[n]).out = Feed(Call, raws[n]).out \o g.out
                 /\ Feed(Call, raws'[n]).held = g.held
<1>. DEFINE n == Len(raws)
            g == Feed(Call, gate \o d)
<1>1. /\ raws \in Seq(Text) /\ gate \in Text /\ n \in 1..2 /\ (pc = "ask" => n = 1) /\ (pc = "again" => n = 2)
  BY DEF DataOK, Delta
<1>2. gate' = g.held /\ raws' = [raws EXCEPT ![n] = raws[n] \o d]
  BY DEF Delta
<1>3. gate \o d \in Text /\ \A i \in 1..n : raws[i] \in Text
  BY <1>1, JoinedText, ElementOfSeq
<1>4. g.out \in Text /\ g.held \in Text
  BY <1>3, IsOpening, FeedIs
<1>5. raws[n] \in Text /\ raws[n] \o d \in Text
  <2>0. n \in 1..2 /\ \A k \in 1..2 : k \in 1..k
    BY <1>1
  <2>1. n \in 1..n
    BY <2>0, Zenon
  <2>. HIDE DEF n
  <2>2. raws[n] \in Text
    BY <1>3, <2>1
  <2>. QED BY <2>2, JoinedText
<1>6. raws' \in Seq(Text) /\ Len(raws') = n /\ raws'[n] = raws[n] \o d /\ (n = 2 => raws'[1] = raws[1])
  <2>. DEFINE x == raws[n] \o d
  <2>1. raws' = [raws EXCEPT ![n] = x] /\ x \in Text
    BY <1>2, <1>5
  <2>. HIDE DEF x
  <2>2. raws' \in Seq(Text) /\ Len(raws') = n /\ raws'[n] = x /\ (n = 2 => raws'[1] = raws[1])
    BY <1>1, <2>1, ExceptSeq
  <2>. QED BY <2>2 DEF x
<1>7. ASSUME gate = Feed(Call, raws[n]).held
      PROVE  Feed(Call, raws[n] \o d).out = Feed(Call, raws[n]).out \o g.out /\ Feed(Call, raws[n] \o d).held = g.held
  <2>1. /\ Feed(Call, raws[n] \o d).out = Feed(Call, raws[n]).out \o Feed(Call, Feed(Call, raws[n]).held \o d).out
        /\ Feed(Call, raws[n] \o d).held = Feed(Call, Feed(Call, raws[n]).held \o d).held
    BY <1>5, IsOpening, FeedJoined
  <2>. QED BY <1>7, <2>1, Zenon
<1>8. gate = Feed(Call, raws[n]).held =>
        /\ Feed(Call, raws'[n]).out = Feed(Call, raws[n]).out \o g.out
        /\ Feed(Call, raws'[n]).held = g.held
  BY <1>6, <1>7, Zenon
<1>. HIDE DEF g, n
<1>9. gate' = g.held
  BY <1>2
<1>. QED BY <1>1, <1>4, <1>6, <1>8, <1>9 DEF g, n

-----------------------------------------------------------------------------
(* The types of a turn.                                                     *)

LEMMA OneRaw == ASSUME NEW t \in Text PROVE <<t>> \in Seq(Text) /\ Len(<<t>>) = 1 /\ <<t>>[1] = t
OBVIOUS

LEMMA NewRaw ==
  ASSUME NEW rs \in Seq(Text), NEW n \in 1..Len(rs), NEW t \in Text
  PROVE  /\ [rs EXCEPT ![n] = t] \in Seq(Text) /\ Len([rs EXCEPT ![n] = t]) = Len(rs)
         /\ \A j \in 1..Len(rs) : [rs EXCEPT ![n] = t][j] = IF j = n THEN t ELSE rs[j]
BY ExceptSeq

LEMMA PluginText == RunPlugin \subseteq Text /\ {<<"w">>} \subseteq Text
BY SomeWord, EmptyText DEF RunPlugin

\* What handleIncoming makes of the answer before it is sent.
LEMMA ReplyText ==
  ASSUME NEW t \in Text
  PROVE  /\ ParseMarkers(t).text \in Text /\ StripCalls(t) \in Text
         /\ OpensAt(Sticker, t) = 0 => ParseMarkers(t).text = t
         /\ ClosesAt(Call, t) = 0 => StripCalls(t) = t
<1>1. ParseMarkers(t).text = Debris(WithoutMarkers(t))
  BY DEF ParseMarkers
<1>2. WithoutMarkers(t) \in Text
  BY FinishIs
<1>3. Debris(WithoutMarkers(t)) \in Text
  BY <1>2, DebrisType
<1>4. OpensAt(Sticker, t) = 0 => WithoutMarkers(t) = t /\ Debris(t) = t
  BY UnmarkedIs, DebrisIs
<1>5. StripCalls(t) = ExtractCalls(t).text
  BY DEF StripCalls
<1>6. ExtractCalls(t).text \in Text /\ (ClosesAt(Call, t) = 0 => ExtractCalls(t).text = t)
  BY ExtractIs
<1>7. OpensAt(Sticker, t) = 0 => ParseMarkers(t).text = t
  BY <1>1, <1>4
<1>. QED BY <1>1, <1>3, <1>5, <1>6, <1>7

LEMMA CommandData == ASSUME DataOK, NEW texts, texts \subseteq Text, Command(texts) PROVE DataOK'
BY DEF DataOK, Command, engine, stream

LEMMA DeltaData == ASSUME DataOK, NEW d \in Text, Delta(d) PROVE DataOK'
<1>. DEFINE g == Feed(Call, gate \o d)
<1>1. /\ g.out \in Text /\ g.held \in Text /\ Len(raws) \in 1..2
      /\ (pc = "ask" => Len(raws) = 1) /\ (pc = "again" => Len(raws) = 2)
      /\ gate' = g.held /\ raws' \in Seq(Text) /\ Len(raws') = Len(raws)
  BY GateEffect
<1>2. OnDelta(g.out, pc) /\ pc \in {"ask", "again"} /\ mode = "stream" /\ mode' = mode /\ text' = text /\ extra' = extra /\ branch' = branch
  BY DEF Delta
<1>. HIDE DEF g
<1>3. /\ held' \in Text /\ visible' \in Text /\ sent' \in 0..Len(visible') /\ said' \in Seq(Text)
      /\ pc' \in {pc, "crashed"}
  BY <1>1, <1>2, DeltaEffect
<1>. QED BY <1>1, <1>2, <1>3 DEF DataOK

LEMMA FlushData == ASSUME DataOK, Flush PROVE DataOK'
<1>. DEFINE place == IF pc = "ask" THEN "calls" ELSE "finish"
<1>1. /\ pc \in {"ask", "again"} /\ gate' = << >> /\ OnDelta(gate, place)
      /\ raws' = raws /\ text' = text /\ extra' = extra /\ branch' = branch
  BY DEF Flush
<1>2. gate \in Text
  BY DEF DataOK
<1>3. /\ held' \in Text /\ visible' \in Text /\ sent' \in 0..Len(visible') /\ said' \in Seq(Text)
      /\ pc' \in {place, "crashed"}
  BY <1>1, <1>2, DeltaEffect
<1>. QED BY <1>1, <1>3, EmptyText DEF DataOK

LEMMA UnstreamedData == ASSUME DataOK, NEW t \in Text, Unstreamed(t) PROVE DataOK'
<1>1. raws \in Seq(Text) /\ Len(raws) \in 1..2 /\ raws' = [raws EXCEPT ![Len(raws)] = t]
  BY DEF DataOK, Unstreamed
<1>2. raws' \in Seq(Text) /\ Len(raws') = Len(raws)
  BY <1>1, NewRaw
<1>. QED BY <1>2 DEF DataOK, Unstreamed, stream

LEMMA AnswerData == ASSUME DataOK, NEW t \in Text, Answer(t) PROVE DataOK'
<1>1. raws' = <<t>> /\ text' = ExtractCalls(t).text /\ pc' = "calls" /\ mode = "whole"
  BY DEF Answer
<1>2. raws' \in Seq(Text) /\ Len(raws') = 1 /\ text' \in Text
  BY <1>1, OneRaw, ExtractIs
<1>3. gate' = gate /\ extra' = extra /\ UNCHANGED stream /\ said' = said /\ branch' = branch
  BY DEF Answer
<1>. QED BY <1>1, <1>2, <1>3 DEF DataOK, Answer, stream

LEMMA AnswerAgainData == ASSUME DataOK, NEW t \in Text, AnswerAgain(t) PROVE DataOK'
<1>0. pc = "again" /\ raws' = [raws EXCEPT ![2] = t]
  BY DEF AnswerAgain
<1>1. raws \in Seq(Text) /\ Len(raws) = 2
  BY <1>0 DEF DataOK
<1>2. raws' \in Seq(Text) /\ Len(raws') = 2
  <2>1. 2 \in 1..Len(raws)
    BY <1>1
  <2>. QED BY <1>0, <1>1, <2>1, NewRaw
<1>3. text' \in Text
  BY ExtractIs, CannedText DEF AnswerAgain, Canned
<1>. QED BY <1>2, <1>3 DEF DataOK, AnswerAgain, stream

LEMMA RunCallData == ASSUME DataOK, NEW outcome, RunCall(outcome) PROVE DataOK'
<1>1. extra' \in Seq(Text)
  BY SomeWord, AppendProperties DEF DataOK, RunCall
<1>. QED BY <1>1 DEF DataOK, RunCall, stream

LEMMA CallsDoneData == ASSUME DataOK, CallsDone PROVE DataOK'
<1>1. raws \in Seq(Text) /\ Len(raws) = 1 /\ pc = "calls"
  BY DEF DataOK, CallsDone
<1>2. CASE found
  <2>1. raws' = Append(raws, << >>) /\ pc' = "again"
    BY <1>2 DEF CallsDone
  <2>2. raws' \in Seq(Text) /\ Len(raws') = 2
    <3>1. raws' \in Seq(Text) /\ Len(raws') = Len(raws) + 1
      BY <1>1, <2>1, EmptyText, AppendProperties
    <3>. QED BY <1>1, <3>1
  <2>. QED BY <2>1, <2>2 DEF DataOK, CallsDone, stream
<1>3. CASE ~found
  BY <1>1, <1>3 DEF DataOK, CallsDone, stream
<1>. QED BY <1>2, <1>3

LEMMA FinishStreamData == ASSUME DataOK, FinishStream PROVE DataOK'
<1>. DEFINE late == Feed(Sticker, held \o text)
            missed == visible = << >> /\ text # << >>
            rest == IF missed THEN late.out \o FlushFilter(late.held) ELSE FlushFilter(held)
            x == After(visible', sent)
<1>1. held \in Text /\ text \in Text /\ held \o text \in Text /\ visible \in Text /\ sent \in 0..Len(visible)
      /\ said \in Seq(Text) /\ extra \in Seq(Text)
  BY JoinedText DEF DataOK
<1>2. late.out \in Text /\ late.held \in Text
  BY <1>1, IsOpening, FeedIs
<1>. HIDE DEF late
<1>3. FlushFilter(late.held) \in Text /\ FlushFilter(held) \in Text
  BY <1>1, <1>2, FlushType
<1>4. late.out \o FlushFilter(late.held) \in Text
  BY <1>2, <1>3, JoinedText
<1>5. rest \in Text
  BY <1>3, <1>4
<1>6. /\ held' = << >> /\ visible' = visible \o rest /\ sent' = Len(visible')
      /\ said' = said \o Say(x) \o extra /\ extra' = << >> /\ text' = << >> /\ pc' = "reply"
      /\ raws' = raws /\ gate' = gate /\ branch' = branch /\ mode' = mode /\ mode = "stream" /\ pc = "finish"
  BY DEF FinishStream, engine, late
<1>. HIDE DEF rest, x
<1>7. visible' \in Text /\ x \in Text /\ Len(visible') \in Nat
  BY <1>1, <1>5, <1>6, NextPart, LenText DEF x
<1>8. said' \in Seq(Text)
  BY <1>1, <1>6, <1>7, SayMany
<1>9. sent' \in 0..Len(visible')
  BY <1>6, <1>7
<1>. QED BY <1>6, <1>7, <1>8, <1>9, EmptyText, EmptyRaws DEF DataOK

LEMMA ReplyData == ASSUME DataOK, Reply PROVE DataOK'
<1>. DEFINE told == branch = "chat" /\ extra # << >>
            before == IF told THEN ParseMarkers(text).text ELSE text
            plain == ParseMarkers(before)
            spoken == IF told THEN extra ELSE << >>
<1>1. text \in Text /\ extra \in Seq(Text) /\ said \in Seq(Text)
  BY DEF DataOK
<1>2. before \in Text
  BY <1>1, ReplyText
<1>3. StripCalls(plain.text) \in Text
  <2>. HIDE DEF before
  <2>1. plain.text \in Text
    BY <1>2, ReplyText
  <2>. HIDE DEF plain
  <2>. QED BY <2>1, ReplyText
<1>4. /\ text' = StripCalls(plain.text) /\ extra' = << >> /\ said' = said \o spoken \o Say(text')
      /\ pc' = "archive" /\ pc = "reply"
  BY DEF Reply
<1>5. spoken \in Seq(Text)
  BY <1>1, EmptyRaws
<1>. HIDE DEF spoken, plain
<1>6. text' \in Text /\ said' \in Seq(Text)
  BY <1>1, <1>3, <1>4, <1>5, SayMany
<1>. QED BY <1>4, <1>6, EmptyRaws DEF DataOK, Reply, engine, stream

\* Every step keeps the types.
LEMMA TurnData == ASSUME DataOK, TurnNext PROVE DataOK'
<1>1. CASE Ignore
  BY <1>1 DEF DataOK, Ignore, engine, stream
<1>2. CASE QuickCommand
  BY <1>2, CommandData, PluginText DEF QuickCommand
<1>3. CASE Command(RunPlugin)
  BY <1>3, CommandData, PluginText
<1>4. CASE \E b \in {"chat", "search"} : Chat(b)
  <2>1. raws' = << << >> >> /\ raws' \in Seq(Text) /\ Len(raws') = 1
    BY <1>4, EmptyText, OneRaw DEF Chat
  <2>. QED BY <1>4, <2>1 DEF DataOK, Chat, stream
<1>5. CASE pc \in {"ask", "again"} /\ \E d \in Pieces : Delta(d)
  <2>1. raws \in Seq(Text) /\ raws # << >>
    <3>1. raws \in Seq(Text) /\ Len(raws) \in 1..2
      BY <1>5 DEF DataOK
    <3>2. Len(<< >>) = 0
      BY EmptyRaws
    <3>. QED BY <3>1, <3>2
  <2>. QED BY <1>5, <2>1, PiecesAre, DeltaData
<1>6. CASE \E t \in Answers : Unstreamed(t) \/ Answer(t) \/ PlainAnswer(t) \/ AnswerAgain(t)
  <2>1. PICK t \in Text : Unstreamed(t) \/ Answer(t) \/ PlainAnswer(t) \/ AnswerAgain(t)
    BY <1>6, AnswersAre
  <2>2. CASE PlainAnswer(t)
    <3>1. raws' = <<t>> /\ raws' \in Seq(Text) /\ Len(raws') = 1
      BY <2>2, OneRaw DEF PlainAnswer
    <3>. QED BY <2>2, <3>1 DEF DataOK, PlainAnswer, stream
  <2>. QED BY <2>1, <2>2, UnstreamedData, AnswerData, AnswerAgainData
<1>7. CASE Flush
  BY <1>7, FlushData
<1>8. CASE FailsAgain \/ Fails
  <2>1. <<"found">> \in Text /\ <<"sorry">> \in Text
    BY CannedText DEF Canned
  <2>. QED BY <1>8, <2>1 DEF DataOK, FailsAgain, Fails, engine, stream
<1>9. CASE \E r \in Results : RunCall(r)
  BY <1>9, RunCallData
<1>10. CASE CallsDone
  BY <1>10, CallsDoneData
<1>11. CASE FinishWhole
  <2>1. <<"again">> \in Text
    BY CannedText DEF Canned
  <2>. QED BY <1>11, <2>1 DEF DataOK, FinishWhole, Fallback, engine, stream
<1>12. CASE FinishStream
  BY <1>12, FinishStreamData
<1>13. CASE Reply
  BY <1>13, ReplyData
<1>14. CASE Archive
  BY <1>14 DEF DataOK, Archive, engine, stream
<1>15. CASE \E d \in {Handler, Goroutine} : TryKey(d)
  BY <1>15 DEF DataOK, TryKey, engine, stream
<1>16. CASE TryScene
  BY <1>16 DEF DataOK, TryScene, engine, stream
<1>. QED BY <1>1, <1>2, <1>3, <1>4, <1>5, <1>6, <1>7, <1>8, <1>9, <1>10, <1>11, <1>12, <1>13, <1>14, <1>15, <1>16
         DEF TurnNext

-----------------------------------------------------------------------------
(* What is sent.                                                            *)

\* While the model answers there is an answer.
LEMMA SomeRaws ==
  ASSUME DataOK, pc \in {"ask", "again"}
  PROVE  /\ raws \in Seq(Text) /\ Len(raws) \in 1..2 /\ Pieces \subseteq Text
         /\ Last(raws) = raws[Len(raws)] /\ (pc = "ask" => Len(raws) = 1) /\ (pc = "again" => Len(raws) = 2)
<1>1. raws \in Seq(Text) /\ Len(raws) \in 1..2 /\ (pc = "ask" => Len(raws) = 1) /\ (pc = "again" => Len(raws) = 2)
  BY DEF DataOK
<1>2. Len(<< >>) = 0
  BY EmptyRaws
<1>3. raws # << >>
  BY <1>1, <1>2
<1>. QED BY <1>1, <1>3, PiecesAre DEF Last

\* What is spoken is a text.
LEMMA SpokenText == ASSUME DataOK PROVE Spoken \in Text /\ \A i \in DOMAIN raws : ExtractCalls(raws[i]).text \in Text
<1>. DEFINE s == [i \in DOMAIN raws |-> ExtractCalls(raws[i]).text]
<1>1. /\ Len(raws) \in Nat /\ DOMAIN raws = 1..Len(raws)
      /\ \A i \in 1..Len(raws) : raws[i] \in Text /\ ExtractCalls(raws[i]).text \in Text
  BY LenProperties, ElementOfSeq, ExtractIs DEF DataOK
<1>2. s \in [1..Len(raws) -> Text]
  BY <1>1
<1>3. s \in Seq(Text)
  BY <1>1, <1>2
<1>. HIDE DEF s
<1>4. FlattenSeq(s) \in Text
  BY <1>3, Parted, EmptyText
<1>. QED BY <1>1, <1>4 DEF Spoken, s

\* What is let through is never ahead of the text without markers.
LEMMA Ahead ==
  ASSUME NEW h \in Text, NEW g \in Text
  PROVE  IsPrefix(Feed(Sticker, h).out, WithoutMarkers(h \o g))
<1>. DEFINE f == Feed(Sticker, h)
            u == f.held \o g
<1>1. f.out \in Text /\ f.held \in Text
  BY IsOpening, FeedIs
<1>2. u \in Text
  <2>. HIDE DEF f
  <2>. QED BY <1>1, JoinedText
<1>. HIDE DEF u
<1>3. WithoutMarkers(u) \in Text
  BY <1>2, FinishIs
<1>4. WithoutMarkers(h \o g) = f.out \o WithoutMarkers(u)
  BY FinishJoined DEF u
<1>. HIDE DEF f
<1>5. IsPrefix(f.out, f.out \o WithoutMarkers(u))
  BY <1>1, <1>3, PrefixJoined
<1>. QED BY <1>4, <1>5 DEF f

\* What the gate keeps back is missing behind what the filter has heard.
LEMMA HeardIs ==
  ASSUME DataOK, Streaming
  PROVE  /\ Heard \in Text
         /\ pc \in {"decide", "calls", "finish"} => Heard = Spoken
         /\ pc \in {"ask", "again"} /\ gate = Feed(Call, Last(raws)).held => Heard \o gate = Spoken
<1>. DEFINE n == Len(raws)
<1>0. /\ raws \in Seq(Text) /\ n \in Nat /\ (pc = "ask" => n = 1) /\ (pc = "again" => n = 2) /\ gate \in Text
      /\ \A i \in 1..n : raws[i] \in Text
  BY LenProperties, ElementOfSeq DEF DataOK
<1>1. CASE pc \in {"decide", "calls", "finish"}
  <2>1. Heard = Spoken
    BY <1>1 DEF Heard
  <2>. QED BY <1>1, <2>1, SpokenText
<1>2. CASE pc = "ask"
  <2>. DEFINE f == Feed(Call, raws[1])
  <2>1. raws[1] \in Text /\ Last(raws) = raws[1] /\ n = 1
    BY <1>0, <1>2 DEF Last
  <2>2. f.out \in Text /\ ExtractCalls(raws[1]).text = f.out \o f.held
    BY <2>1, IsOpening, FeedIs, ExtractIs
  <2>3. Heard = f.out
    BY <1>2 DEF Heard
  <2>4. Spoken = ExtractCalls(raws[1]).text
    BY <1>0, <2>1, SpokenIs DEF Spoken, SpokenOf
  <2>. HIDE DEF f
  <2>5. gate = Feed(Call, Last(raws)).held => Heard \o gate = Spoken
    BY <2>1, <2>2, <2>3, <2>4, Zenon DEF f
  <2>. QED BY <1>2, <2>2, <2>3, <2>5
<1>3. CASE pc = "again"
  <2>. DEFINE f == Feed(Call, raws[2])
              e == ExtractCalls(raws[1]).text
  <2>1. raws[1] \in Text /\ raws[2] \in Text /\ Last(raws) = raws[2] /\ n = 2
    <3>1. n = 2
      BY <1>0, <1>3
    <3>2. Last(raws) = raws[n]
      BY DEF Last
    <3>. HIDE DEF n
    <3>3. 1 \in 1..n /\ 2 \in 1..n
      BY <3>1
    <3>. QED BY <1>0, <3>1, <3>2, <3>3
  <2>2. f.out \in Text /\ f.held \in Text /\ ExtractCalls(raws[2]).text = f.out \o f.held /\ e \in Text
    BY <2>1, IsOpening, FeedIs, ExtractIs
  <2>3. Heard = e \o f.out
    BY <1>3 DEF Heard
  <2>4. Spoken = e \o ExtractCalls(raws[2]).text
    BY <1>0, <2>1, SpokenIs DEF Spoken, SpokenOf
  <2>5. gate = Feed(Call, Last(raws)).held => gate = f.held
    BY <2>1
  <2>. HIDE DEF f, e
  <2>6. (e \o f.out) \o f.held = e \o (f.out \o f.held)
    BY <2>2, JoinAssoc, Zenon
  <2>7. (e \o f.out) \o f.held = Spoken
    BY <2>2, <2>4, <2>6, Zenon
  <2>8. e \o f.out \in Text
    BY <2>2, JoinedText
  <2>. QED BY <1>3, <2>3, <2>5, <2>7, <2>8
<1>. QED BY <1>1, <1>2, <1>3 DEF Streaming

\* So the user never sees more than the parser of whole texts makes of it.
LEMMA VisiblePrefix ==
  ASSUME DataOK, FilterOK, mode = "stream", ~unseen
  PROVE  IsPrefix(visible, WithoutMarkers(Spoken))
<1>1. CASE ~Streaming
  BY <1>1 DEF FilterOK
<1>2. CASE Streaming
  <2>1. visible = Feed(Sticker, Heard).out /\ (pc \in {"ask", "again"} => gate = Feed(Call, Last(raws)).held)
    BY <1>2 DEF FilterOK
  <2>2. Heard \in Text /\ gate \in Text
    BY <1>2, HeardIs DEF DataOK
  <2>3. CASE pc \in {"ask", "again"}
    <3>1. Heard \o gate = Spoken
      BY <1>2, <2>1, <2>3, HeardIs
    <3>2. IsPrefix(Feed(Sticker, Heard).out, WithoutMarkers(Heard \o gate))
      BY <2>2, Ahead
    <3>. QED BY <2>1, <3>1, <3>2
  <2>4. CASE pc \in {"decide", "calls", "finish"}
    <3>1. Heard = Spoken
      BY <1>2, <2>4, HeardIs
    <3>2. IsPrefix(Feed(Sticker, Heard).out, WithoutMarkers(Heard \o << >>)) /\ Heard \o << >> = Heard
      BY <2>2, EmptyText, Ahead, JoinEmpty
    <3>. QED BY <2>1, <3>1, <3>2
  <2>. QED BY <1>2, <2>3, <2>4 DEF Streaming
<1>. QED BY <1>1, <1>2

\* What is sent is what is visible, in order and once.
LEMMA TurnSaid == ASSUME DataOK, SaidOK, TurnNext PROVE SaidOK'
<1>. SUFFICES ASSUME mode' = "stream", Streaming'
              PROVE  text' = << >> /\ recorded' = << >> /\ FlattenSeq(said') = SubSeq(visible', 1, sent')
  BY DEF SaidOK
<1>0. mode' = mode
  BY DEF TurnNext, Ignore, QuickCommand, Command, Chat, Delta, Unstreamed, Answer, PlainAnswer, AnswerAgain,
         Flush, FailsAgain, Fails, RunCall, CallsDone, FinishWhole, FinishStream, Reply, Archive, TryKey, TryScene
<1>1. Streaming => text = << >> /\ recorded = << >> /\ FlattenSeq(said) = SubSeq(visible, 1, sent)
  BY <1>0 DEF SaidOK
<1>. USE DEF Streaming
<1>2. CASE \E b \in {"chat", "search"} : Chat(b)
  BY <1>1, <1>2 DEF Chat, stream, records
<1>3. CASE pc \in {"ask", "again"} /\ \E d \in Pieces : Delta(d)
  <2>1. PICK d \in Pieces : Delta(d)
    BY <1>3
  <2>2. d \in Text
    BY <1>3, SomeRaws
  <2>. DEFINE g == Feed(Call, gate \o d)
  <2>3. g.out \in Text
    BY <2>1, <2>2, GateEffect
  <2>4. OnDelta(g.out, pc) /\ text' = text /\ recorded' = recorded
    BY <2>1 DEF Delta, records
  <2>. HIDE DEF g
  <2>5. FlattenSeq(said) = SubSeq(visible, 1, sent) =>
              pc' = "crashed" \/ FlattenSeq(said') = SubSeq(visible', 1, sent')
    BY <2>3, <2>4, DeltaEffect
  <2>. QED BY <1>1, <1>3, <2>4, <2>5
<1>4. CASE Flush
  <2>. DEFINE place == IF pc = "ask" THEN "calls" ELSE "finish"
  <2>1. /\ pc \in {"ask", "again"} /\ OnDelta(gate, place) /\ text' = text /\ recorded' = recorded
        /\ gate \in Text
    BY <1>4 DEF Flush, records, DataOK
  <2>. HIDE DEF place
  <2>2. FlattenSeq(said) = SubSeq(visible, 1, sent) =>
              pc' = "crashed" \/ FlattenSeq(said') = SubSeq(visible', 1, sent')
    BY <2>1, DeltaEffect
  <2>. QED BY <1>1, <2>1, <2>2
<1>5. CASE \E t \in Answers : Unstreamed(t) \/ Answer(t) \/ PlainAnswer(t) \/ AnswerAgain(t)
  <2>1. PICK t : Unstreamed(t)
    BY <1>0, <1>5 DEF Answer, PlainAnswer, AnswerAgain
  <2>. QED BY <1>1, <2>1 DEF Unstreamed, stream, records
<1>6. CASE \E r \in Results : RunCall(r)
  BY <1>1, <1>6 DEF RunCall, stream, records
<1>7. CASE CallsDone
  BY <1>1, <1>7 DEF CallsDone, stream, records
<1>8. CASE \E d \in {Handler, Goroutine} : TryKey(d)
  BY <1>1, <1>8 DEF TryKey, stream, records
<1>9. CASE \/ Ignore \/ QuickCommand \/ Command(RunPlugin) \/ FailsAgain \/ Fails \/ FinishWhole
           \/ FinishStream \/ Reply \/ Archive \/ TryScene
  BY <1>0, <1>9 DEF Ignore, QuickCommand, Command, FailsAgain, Fails, FinishWhole, FinishStream, Reply, Archive, TryScene
<1>. QED BY <1>2, <1>3, <1>4, <1>5, <1>6, <1>7, <1>8, <1>9 DEF TurnNext

-----------------------------------------------------------------------------
(* What the filter has heard.                                               *)

\* What the filter has heard of answers that are still coming.
HeardOf(p, rs) ==
  IF p = "ask" THEN Feed(Call, rs[1]).out ELSE ExtractCalls(rs[1]).text \o Feed(Call, rs[2]).out

\* A piece adds to what the filter hears what the gate lets through of it.
LEMMA HeardGrows ==
  ASSUME DataOK, NEW d \in Text, Delta(d), gate = Feed(Call, Last(raws)).held
  PROVE  LET g == Feed(Call, gate \o d)
         IN /\ g.out \in Text /\ Heard \in Text /\ gate' = g.held /\ gate' \in Text
            /\ HeardOf(pc, raws') = Heard \o g.out
            /\ SpokenOf(raws') = (Heard \o g.out) \o gate'
            /\ gate' = Feed(Call, Last(raws')).held
<1>. DEFINE n == Len(raws)
            g == Feed(Call, gate \o d)
<1>0. pc \in {"ask", "again"}
  BY DEF Delta
<1>1. /\ raws \in Seq(Text) /\ n \in 1..2 /\ Last(raws) = raws[n] /\ (pc = "ask" => n = 1) /\ (pc = "again" => n = 2)
      /\ Heard \in Text
  BY <1>0, SomeRaws, HeardIs DEF Streaming
<1>2. /\ g.out \in Text /\ g.held \in Text
      /\ gate' = g.held /\ raws' \in Seq(Text) /\ Len(raws') = n
      /\ raws'[n] = raws[n] \o d /\ (n = 2 => raws'[1] = raws[1])
      /\ gate = Feed(Call, raws[n]).held =>
           /\ Feed(Call, raws'[n]).out = Feed(Call, raws[n]).out \o g.out
           /\ Feed(Call, raws'[n]).held = g.held
  BY GateEffect
<1>. HIDE DEF g
<1>3. /\ Feed(Call, raws'[n]).out = Feed(Call, raws[n]).out \o g.out
      /\ Feed(Call, raws'[n]).held = g.held
  BY <1>1, <1>2
<1>4. Last(raws') = raws'[n]
  BY <1>2 DEF Last
<1>5. raws[n] \in Text /\ raws'[n] \in Text
  <2>0. n \in 1..2 /\ \A k \in 1..2 : k \in 1..k
    BY <1>1
  <2>1. n \in 1..n /\ n = Len(raws)
    BY <2>0, Zenon
  <2>2. raws' \in Seq(Text) /\ Len(raws') = n /\ raws \in Seq(Text)
    BY <1>1, <1>2
  <2>. HIDE DEF n
  <2>. QED BY <2>1, <2>2, ElementOfSeq
<1>6. /\ Feed(Call, raws[n]).out \in Text
      /\ ExtractCalls(raws'[n]).text = Feed(Call, raws'[n]).out \o Feed(Call, raws'[n]).held
  BY <1>5, IsOpening, FeedIs, ExtractIs
<1>. DEFINE h == Feed(Call, raws[n]).out
<1>7. ExtractCalls(raws'[n]).text = (h \o g.out) \o g.held
  BY <1>3, <1>6, Zenon
<1>8. CASE pc = "ask"
  <2>1. n = 1 /\ Heard = h
    BY <1>1, <1>8 DEF Heard
  <2>2. HeardOf(pc, raws') = h \o g.out
    BY <1>3, <1>8, <2>1 DEF HeardOf
  <2>3. SpokenOf(raws') = ExtractCalls(raws'[1]).text
    BY <1>2, <2>1, SpokenIs
  <2>. HIDE DEF h
  <2>4. SpokenOf(raws') = (h \o g.out) \o g.held
    BY <1>7, <2>1, <2>3
  <2>. QED BY <1>1, <1>2, <1>3, <1>4, <2>1, <2>2, <2>4 DEF g
<1>9. CASE pc = "again"
  <2>. DEFINE e == ExtractCalls(raws[1]).text
  <2>1. n = 2 /\ raws'[1] = raws[1] /\ raws[1] \in Text
    <3>1. n = 2 /\ raws'[1] = raws[1]
      BY <1>1, <1>2, <1>9
    <3>. HIDE DEF n
    <3>2. 1 \in 1..n
      BY <3>1
    <3>. QED BY <1>1, <3>1, <3>2, ElementOfSeq DEF n
  <2>2. Heard = e \o h /\ e \in Text
    BY <1>9, <2>1, ExtractIs DEF Heard
  <2>3. HeardOf(pc, raws') = e \o (h \o g.out)
    BY <1>3, <1>9, <2>1 DEF HeardOf
  <2>4. SpokenOf(raws') = e \o ExtractCalls(raws'[2]).text
    BY <1>2, <2>1, SpokenIs
  <2>. HIDE DEF e, h, n
  <2>5. SpokenOf(raws') = e \o ((h \o g.out) \o g.held)
    BY <1>7, <2>1, <2>4
  <2>6. h \in Text /\ h \o g.out \in Text
    BY <1>2, <1>6, JoinedText DEF h
  <2>7. (e \o h) \o g.out = e \o (h \o g.out)
    BY <1>2, <2>2, <2>6, JoinAssoc
  <2>8. (e \o (h \o g.out)) \o g.held = e \o ((h \o g.out) \o g.held)
    BY <1>2, <2>2, <2>6, JoinAssoc
  <2>9. HeardOf(pc, raws') = Heard \o g.out
    BY <2>2, <2>3, <2>7, Zenon
  <2>10. SpokenOf(raws') = (Heard \o g.out) \o g.held
    BY <2>2, <2>5, <2>7, <2>8, Zenon
  <2>. QED BY <1>1, <1>2, <1>3, <1>4, <2>9, <2>10 DEF g, n
<1>. QED BY <1>0, <1>8, <1>9

\* A piece leaves gate and filter where one pass over the longer text would.
LEMMA DeltaFilter == ASSUME DataOK, SaidOK, FilterOK, NEW d \in Text, Delta(d) PROVE FilterOK'
<1>. DEFINE g == Feed(Call, gate \o d)
            h == Heard \o g.out
<1>0. /\ pc \in {"ask", "again"} /\ mode = "stream" /\ ~unseen /\ mode' = mode /\ unseen' = unseen
      /\ OnDelta(g.out, pc) /\ recorded' = recorded
  BY DEF Delta, records
<1>1. /\ gate = Feed(Call, Last(raws)).held /\ visible = Feed(Sticker, Heard).out
      /\ held = Feed(Sticker, Heard).held /\ recorded = << >>
  BY <1>0 DEF FilterOK, SaidOK, Streaming
<1>2. /\ g.out \in Text /\ Heard \in Text /\ gate' = g.held /\ gate' \in Text
      /\ HeardOf(pc, raws') = h
      /\ SpokenOf(raws') = h \o gate'
      /\ gate' = Feed(Call, Last(raws')).held
  BY <1>1, HeardGrows
<1>. HIDE DEF g
<1>3. visible' = Feed(Sticker, h).out /\ held' = Feed(Sticker, h).held /\ pc' \in {pc, "crashed"}
  BY <1>0, <1>1, <1>2, DeltaEffect
<1>4. h \in Text
  BY <1>2, JoinedText
<1>. HIDE DEF h
<1>5. CASE pc' = pc
  <2>1. Heard' = HeardOf(pc, raws')
    BY <1>0, <1>5 DEF Heard, HeardOf
  <2>2. Streaming'
    BY <1>0, <1>5 DEF Streaming
  <2>. QED BY <1>0, <1>2, <1>3, <1>5, <2>1, <2>2 DEF FilterOK
<1>6. CASE pc' = "crashed"
  <2>1. Spoken' = h \o gate'
    BY <1>2 DEF Spoken, SpokenOf
  <2>2. IsPrefix(visible', WithoutMarkers(h \o gate'))
    BY <1>2, <1>3, <1>4, Ahead
  <2>3. IsPrefix(visible, WithoutMarkers(Spoken))'
    BY <2>1, <2>2
  <2>4. ~Streaming' /\ pc' \notin {"ask", "again"}
    BY <1>6 DEF Streaming
  <2>. QED BY <1>0, <1>1, <2>3, <2>4 DEF FilterOK
<1>. QED BY <1>3, <1>5, <1>6

\* With the rest the gate lets go, the filter has heard all of it.
LEMMA FlushHeard == ASSUME DataOK, SaidOK, FilterOK, Flush PROVE FilterOK'
<1>. SUFFICES ASSUME mode' = "stream", ~unseen' PROVE FilterOK'
  BY DEF FilterOK
<1>. DEFINE place == IF pc = "ask" THEN "calls" ELSE "finish"
<1>0. /\ pc \in {"ask", "again"} /\ mode = "stream" /\ ~unseen /\ gate' = << >> /\ raws' = raws
      /\ OnDelta(gate, place) /\ recorded' = recorded /\ mode' = mode /\ unseen' = unseen
  BY DEF Flush, records
<1>1. /\ gate = Feed(Call, Last(raws)).held /\ visible = Feed(Sticker, Heard).out
      /\ held = Feed(Sticker, Heard).held /\ recorded = << >> /\ gate \in Text
  BY <1>0 DEF FilterOK, SaidOK, Streaming, DataOK
<1>2. Heard \in Text /\ Heard \o gate = Spoken
  BY <1>0, <1>1, HeardIs DEF Streaming
<1>. HIDE DEF place
<1>3. visible' = Feed(Sticker, Heard \o gate).out /\ held' = Feed(Sticker, Heard \o gate).held /\ pc' \in {place, "crashed"}
  BY <1>0, <1>1, <1>2, DeltaEffect
<1>4. Spoken' = Spoken /\ Spoken \in Text
  BY <1>0, SpokenText DEF Spoken
<1>5. visible' = Feed(Sticker, Spoken).out /\ held' = Feed(Sticker, Spoken).held
  BY <1>2, <1>3
<1>6. CASE pc' = place
  <2>1. pc' \in {"calls", "finish"}
    BY <1>6 DEF place
  <2>2. Heard' = Spoken
    BY <1>4, <2>1 DEF Heard
  <2>. QED BY <1>5, <2>1, <2>2 DEF FilterOK, Streaming
<1>7. CASE pc' = "crashed"
  <2>1. IsPrefix(Feed(Sticker, Spoken).out, WithoutMarkers(Spoken \o << >>)) /\ Spoken \o << >> = Spoken
    BY <1>4, EmptyText, Ahead, JoinEmpty
  <2>2. IsPrefix(visible', WithoutMarkers(Spoken'))
    BY <1>4, <1>5, <2>1
  <2>. QED BY <1>0, <1>1, <1>7, <2>2 DEF FilterOK, Streaming
<1>. QED BY <1>3, <1>6, <1>7

\* An answer begins with nothing heard.
LEMMA ChatFilter == ASSUME DataOK, FilterOK, NEW b, Chat(b) PROVE FilterOK'
<1>. SUFFICES ASSUME mode' = "stream", ~unseen' PROVE FilterOK'
  BY DEF FilterOK
<1>1. /\ pc = "decide" /\ pc' = "ask" /\ raws' = << << >> >> /\ mode = "stream" /\ ~unseen
      /\ visible' = visible /\ held' = held /\ gate' = gate /\ gate = << >> /\ raws = << >>
  BY DEF Chat, stream, DataOK
<1>2. Spoken = << >>
  BY <1>1, EmptyRaws, SpokenIs DEF Spoken, SpokenOf
<1>3. Feed(Call, << >>).out = << >> /\ Feed(Call, << >>).held = << >>
  BY IsOpening, EmptyFeeds
<1>4. Len(raws') = 1 /\ raws'[1] = << >> /\ Last(raws') = << >>
  BY <1>1, EmptyText, OneRaw DEF Last
<1>5. Heard = << >> /\ Heard' = << >>
  BY <1>1, <1>2, <1>3, <1>4 DEF Heard
<1>6. visible = Feed(Sticker, << >>).out /\ held = Feed(Sticker, << >>).held
  BY <1>1, <1>5 DEF FilterOK, Streaming
<1>. QED BY <1>1, <1>3, <1>4, <1>5, <1>6 DEF FilterOK, Streaming

\* A second answer adds nothing until its first piece.
LEMMA CallsDoneFilter == ASSUME DataOK, FilterOK, CallsDone PROVE FilterOK'
<1>. SUFFICES ASSUME mode' = "stream", ~unseen' PROVE FilterOK'
  BY DEF FilterOK
<1>1. /\ pc = "calls" /\ mode = "stream" /\ ~unseen
      /\ visible' = visible /\ held' = held /\ gate' = gate /\ gate = << >>
      /\ raws \in Seq(Text) /\ Len(raws) = 1
      /\ IF found THEN pc' = "again" /\ raws' = Append(raws, << >>) ELSE pc' = "finish" /\ raws' = raws
  BY DEF CallsDone, stream, DataOK
<1>2. visible = Feed(Sticker, Heard).out /\ held = Feed(Sticker, Heard).held /\ Heard = Spoken
  BY <1>1 DEF FilterOK, Streaming, Heard
<1>3. CASE ~found
  <2>1. Heard' = Spoken
    BY <1>1, <1>3 DEF Heard, Spoken
  <2>. QED BY <1>1, <1>2, <1>3, <2>1 DEF FilterOK, Streaming
<1>4. CASE found
  <2>1. Feed(Call, << >>).out = << >> /\ Feed(Call, << >>).held = << >>
    BY IsOpening, EmptyFeeds
  <2>2. Len(raws') = 2 /\ raws'[1] = raws[1] /\ raws'[2] = << >>
    <3>0. raws \in Seq(Text) /\ Len(raws) = 1 /\ raws' = Append(raws, << >>)
      BY <1>1, <1>4
    <3>1. \A e \in Text : Len(Append(raws, e)) = 2 /\ Append(raws, e)[1] = raws[1] /\ Append(raws, e)[2] = e
      BY <3>0
    <3>. QED BY <3>0, <3>1, EmptyText
  <2>3. Last(raws') = << >>
    BY <2>2 DEF Last
  <2>4. Spoken = ExtractCalls(raws[1]).text /\ Spoken \in Text
    BY <1>1, SpokenIs, SpokenText DEF Spoken, SpokenOf
  <2>5. Heard' = Spoken \o << >>
    BY <1>1, <1>4, <2>1, <2>2, <2>4 DEF Heard
  <2>6. Heard' = Heard
    BY <1>2, <2>4, <2>5, JoinEmpty
  <2>. QED BY <1>1, <1>2, <1>4, <2>1, <2>3, <2>6 DEF FilterOK, Streaming
<1>. QED BY <1>3, <1>4

\* At the end the stream has shown what the parser makes of the whole text.
LEMMA FinishFilter == ASSUME DataOK, SaidOK, FilterOK, FinishStream PROVE FilterOK'
<1>. SUFFICES ASSUME mode' = "stream", ~unseen' PROVE FilterOK'
  BY DEF FilterOK
<1>1. pc = "finish" /\ mode = "stream" /\ ~unseen /\ raws' = raws /\ pc' = "reply"
  BY DEF FinishStream, engine
<1>2. text = << >> /\ visible = Feed(Sticker, Heard).out /\ held = Feed(Sticker, Heard).held
  BY <1>1 DEF SaidOK, FilterOK, Streaming
<1>3. Heard = Spoken /\ Spoken \in Text /\ Spoken' = Spoken
  BY <1>1, SpokenText DEF Heard, Spoken
<1>4. visible' = visible \o FlushFilter(held)
  BY <1>2 DEF FinishStream
<1>5. /\ WithoutMarkers(Spoken) = Feed(Sticker, Spoken).out \o FlushFilter(Feed(Sticker, Spoken).held)
      /\ WithoutMarkers(Spoken) \in Text
  BY <1>3, FinishIs
<1>6. visible' = WithoutMarkers(Spoken)
  BY <1>2, <1>3, <1>4, <1>5, Zenon
<1>7. IsPrefix(visible', WithoutMarkers(Spoken))
  <2>1. IsPrefix(visible', visible' \o << >>) /\ visible' \o << >> = visible'
    BY <1>5, <1>6, EmptyText, PrefixJoined, JoinEmpty
  <2>. QED BY <1>6, <2>1
<1>. QED BY <1>1, <1>3, <1>6, <1>7 DEF FilterOK, Streaming

\* What has been shown stays behind the text when a turn ends early, or is over.
LEMMA OverFilter ==
  ASSUME DataOK, SaidOK, FilterOK, ~Streaming', UNCHANGED <<mode, unseen, raws, visible, recorded>>
  PROVE  FilterOK'
<1>. SUFFICES ASSUME mode = "stream", ~unseen PROVE FilterOK'
  BY DEF FilterOK
<1>1. IsPrefix(visible, WithoutMarkers(Spoken))
  BY VisiblePrefix
<1>2. recorded # << >> => visible = WithoutMarkers(Spoken)
  BY DEF FilterOK, SaidOK
<1>3. visible' = visible /\ recorded' = recorded /\ Spoken' = Spoken
  BY DEF Spoken
<1>4. (~Streaming)' /\ pc' \notin {"ask", "again"}
  BY DEF Streaming
<1>. QED BY <1>1, <1>2, <1>3, <1>4 DEF FilterOK

\* Every step keeps gate and filter in step with the text.
LEMMA TurnFilter == ASSUME DataOK, SaidOK, FilterOK, TurnNext PROVE FilterOK'
<1>1. CASE \/ Ignore \/ QuickCommand \/ Command(RunPlugin) \/ Fails \/ Reply \/ Archive \/ TryScene
  <2>1. ~Streaming' /\ UNCHANGED <<mode, unseen, raws, visible, recorded>>
    BY <1>1 DEF Ignore, QuickCommand, Command, Fails, Reply, Archive, TryScene, engine, stream, records, Streaming
  <2>. QED BY <2>1, OverFilter
<1>2. CASE \E b \in {"chat", "search"} : Chat(b)
  BY <1>2, ChatFilter
<1>3. CASE pc \in {"ask", "again"} /\ \E d \in Pieces : Delta(d)
  BY <1>3, SomeRaws, DeltaFilter
<1>4. CASE Flush
  BY <1>4, FlushHeard
<1>5. CASE CallsDone
  BY <1>5, CallsDoneFilter
<1>6. CASE FinishStream
  BY <1>6, FinishFilter
<1>7. CASE \E t \in Answers : Unstreamed(t) \/ Answer(t) \/ PlainAnswer(t) \/ AnswerAgain(t)
  BY <1>7 DEF Unstreamed, Answer, PlainAnswer, AnswerAgain, FilterOK
<1>8. CASE FailsAgain \/ FinishWhole
  BY <1>8 DEF FailsAgain, FinishWhole, FilterOK
<1>9. CASE (\E r \in Results : RunCall(r)) \/ (\E d \in {Handler, Goroutine} : TryKey(d))
  <2>1. UNCHANGED <<mode, unseen, raws, visible, recorded, held, gate, pc>>
    BY <1>9 DEF RunCall, TryKey, engine, stream, records
  <2>. QED BY <2>1 DEF FilterOK, Heard, Spoken, Streaming
<1>. QED BY <1>1, <1>2, <1>3, <1>4, <1>5, <1>6, <1>7, <1>8, <1>9 DEF TurnNext

-----------------------------------------------------------------------------
(* A whole answer is not lost.                                              *)

LEMMA SaidMore ==
  ASSUME NEW p \in Seq(Text), p # << >>, NEW x \in Text
  PROVE  p \o Say(x) # << >>
<1>1. CASE x = << >>
  <2>1. p \o << >> = p
    BY ConcatEmptySeq
  <2>. QED BY <1>1, <2>1 DEF Say
<1>2. CASE x # << >>
  BY <1>2, SayIs
<1>. QED BY <1>1, <1>2

\* Where no sticker is opened in all that was said, none is in one of the answers.
LEMMA AnswerOpens ==
  ASSUME DataOK, OpensAt(Sticker, Spoken) = 0, NEW i \in DOMAIN raws
  PROVE  raws[i] \in Text /\ ExtractCalls(raws[i]).text \in Text /\ OpensAt(Sticker, ExtractCalls(raws[i]).text) = 0
<1>1. raws \in Seq(Text) /\ Len(raws) \in 0..2 /\ i \in 1..Len(raws) /\ raws[i] \in Text
  BY LenProperties, ElementOfSeq DEF DataOK
<1>2. ExtractCalls(raws[i]).text \in Text
  BY <1>1, ExtractIs
<1>3. CASE Len(raws) = 1
  <2>1. i = 1
    BY <1>1, <1>3
  <2>2. Spoken = ExtractCalls(raws[1]).text
    BY <1>1, <1>3, SpokenIs DEF Spoken, SpokenOf
  <2>. QED BY <1>1, <1>2, <2>1, <2>2
<1>4. CASE Len(raws) = 2
  <2>1. i = 1 \/ i = 2
    BY <1>1, <1>4
  <2>2. Spoken = ExtractCalls(raws[1]).text \o ExtractCalls(raws[2]).text
    BY <1>1, <1>4, SpokenIs DEF Spoken, SpokenOf
  <2>3. raws[1] \in Text /\ raws[2] \in Text
    <3>1. 1 \in 1..Len(raws) /\ 2 \in 1..Len(raws)
      BY <1>4
    <3>. QED BY <1>1, <3>1, ElementOfSeq
  <2>4. ExtractCalls(raws[1]).text \in Text /\ ExtractCalls(raws[2]).text \in Text
    BY <2>3, ExtractIs
  <2>5. OpensAt(Sticker, ExtractCalls(raws[1]).text \o ExtractCalls(raws[2]).text) = 0
    BY <2>2
  <2>6. OpensAt(Sticker, ExtractCalls(raws[1]).text) = 0 /\ OpensAt(Sticker, ExtractCalls(raws[2]).text) = 0
    BY <2>4, <2>5, IsOpening, PartOpens
  <2>. QED BY <1>1, <1>2, <2>1, <2>6
<1>. QED BY <1>1, <1>3, <1>4

\* The end of handleIncoming says something, or the answer was marks or grew a call.
LEMMA ReplyAnswers == ASSUME DataOK, WholeOK, Reply PROVE WholeAnswers'
<1>. SUFFICES ASSUME mode = "whole", branch = "chat"
              PROVE  said' # << >> \/ OpensAt(Sticker, Spoken) # 0 \/ \E i \in DOMAIN raws : Regrown(raws[i])
  BY DEF WholeAnswers, Reply, engine, Spoken
<1>1. /\ pc = "reply" /\ Drawn /\ (text # << >> \/ extra # << >>)
      /\ text \in Text /\ extra \in Seq(Text) /\ said \in Seq(Text)
  BY DEF Reply, WholeOK, DataOK
<1>2. CASE extra # << >>
  <2>1. said' = said \o extra \o Say(text')
    BY <1>2 DEF Reply
  <2>2. text' \in Text
    BY ReplyData DEF DataOK
  <2>3. said \o extra \in Seq(Text) /\ said \o extra # << >>
    BY <1>1, <1>2
  <2>4. (said \o extra) \o Say(text') # << >>
    BY <2>2, <2>3, SaidMore
  <2>. QED BY <2>1, <2>4
<1>3. CASE extra = << >>
  <2>1. text' = StripCalls(ParseMarkers(text).text) /\ said' = said \o << >> \o Say(text')
    BY <1>3 DEF Reply
  <2>2. said \o << >> = said
    BY <1>1, ConcatEmptySeq
  <2>3. text \in Text /\ text # << >>
    BY <1>1, <1>3
  <2>4. OpensAt(Sticker, text) = 0 /\ ClosesAt(Call, text) = 0 => said' # << >>
    <3>. SUFFICES ASSUME OpensAt(Sticker, text) = 0, ClosesAt(Call, text) = 0 PROVE said' # << >>
      OBVIOUS
    <3>1. text' = text
      BY <2>1, <2>3, ReplyText
    <3>2. said \o Say(text) # << >>
      BY <1>1, <2>3, SayIs
    <3>. QED BY <2>1, <2>2, <3>1, <3>2, Zenon
  <2>5. CASE \E c \in Canned : text = <<c>>
    BY <2>4, <2>5, CannedText, IsOpening
  <2>6. CASE \E i \in DOMAIN raws : text = ExtractCalls(raws[i]).text
    <3>1. PICK i \in DOMAIN raws : text = ExtractCalls(raws[i]).text
      BY <2>6
    <3>2. OpensAt(Sticker, Spoken) = 0 => OpensAt(Sticker, text) = 0
      BY <3>1, AnswerOpens
    <3>3. ClosesAt(Call, text) # 0 => Regrown(raws[i])
      BY <3>1 DEF Regrown
    <3>. QED BY <2>4, <3>1, <3>2, <3>3
  <2>. QED BY <1>1, <2>3, <2>5, <2>6 DEF Drawn
<1>. QED BY <1>2, <1>3

\* Every step keeps the text of a whole answer an answer or a phrase.
LEMMA TurnWhole == ASSUME DataOK, WholeOK, WholeAnswers, TurnNext PROVE WholeOK' /\ WholeAnswers'
<1>1. CASE \/ Ignore \/ QuickCommand \/ Command(RunPlugin) \/ \E b \in {"chat", "search"} : Chat(b)
  BY <1>1 DEF Ignore, QuickCommand, Command, Chat, WholeOK, WholeAnswers, DataOK
<1>2. CASE \/ pc \in {"ask", "again"} /\ \E d \in Pieces : Delta(d)
           \/ \E t \in Answers : Unstreamed(t) \/ PlainAnswer(t)
           \/ Flush \/ FinishStream
  BY <1>2 DEF Delta, Unstreamed, PlainAnswer, Flush, FinishStream, WholeOK, WholeAnswers
<1>3. CASE \E t \in Answers : Answer(t)
  <2>1. PICK t \in Answers : Answer(t)
    BY <1>3
  <2>2. pc' = "calls" /\ raws' = <<t>> /\ text' = ExtractCalls(t).text
    BY <2>1 DEF Answer
  <2>. QED BY <2>2 DEF WholeOK, WholeAnswers
<1>4. CASE \E t \in Answers : AnswerAgain(t)
  <2>1. PICK t \in Text : AnswerAgain(t)
    BY <1>4, AnswersAre
  <2>2. /\ pc' = "finish" /\ raws' = [raws EXCEPT ![2] = t] /\ raws \in Seq(Text) /\ Len(raws) = 2
        /\ text' = IF ExtractCalls(t).text = << >> THEN <<"found">> ELSE ExtractCalls(t).text
    BY <2>1 DEF AnswerAgain, DataOK
  <2>3. 2 \in DOMAIN raws' /\ raws'[2] = t
    <3>1. 2 \in 1..Len(raws)
      BY <2>2
    <3>2. Len(raws') = Len(raws) /\ raws' \in Seq(Text) /\ raws'[2] = t
      BY <2>2, <3>1, NewRaw
    <3>. QED BY <3>1, <3>2
  <2>4. Drawn'
    BY <2>2, <2>3 DEF Drawn, Canned
  <2>. QED BY <2>2, <2>4 DEF WholeOK, WholeAnswers
<1>5. CASE FailsAgain
  <2>. SUFFICES ASSUME mode = "whole", branch = "chat" PROVE WholeOK' /\ WholeAnswers'
    BY <1>5 DEF FailsAgain, WholeOK, WholeAnswers
  <2>1. /\ pc' = "finish" /\ raws' = raws /\ 1 \in DOMAIN raws
        /\ text' = IF text = << >> THEN <<"found">> ELSE text
        /\ text = ExtractCalls(raws[1]).text
    BY <1>5 DEF FailsAgain, DataOK, engine, WholeOK
  <2>2. Drawn'
    BY <2>1 DEF Drawn, Canned
  <2>. QED BY <2>1, <2>2 DEF WholeOK, WholeAnswers
<1>6. CASE Fails
  <2>1. pc' = "reply" /\ text' = <<"sorry">> /\ <<"sorry">> # << >>
    BY <1>6, CannedText DEF Fails, Canned
  <2>2. Drawn'
    BY <2>1 DEF Drawn, Canned
  <2>. QED BY <2>1, <2>2 DEF WholeOK, WholeAnswers
<1>7. CASE \E r \in Results : RunCall(r)
  BY <1>7 DEF RunCall, WholeOK, WholeAnswers
<1>8. CASE CallsDone
  <2>. SUFFICES ASSUME mode = "whole", branch = "chat" PROVE WholeOK' /\ WholeAnswers'
    BY <1>8 DEF CallsDone, WholeOK, WholeAnswers
  <2>1. /\ raws \in Seq(Text) /\ Len(raws) = 1 /\ text = ExtractCalls(raws[1]).text /\ text' = text
        /\ IF found THEN pc' = "again" /\ raws' = Append(raws, << >>) ELSE pc' = "finish" /\ raws' = raws
    BY <1>8 DEF CallsDone, DataOK, WholeOK
  <2>2. CASE found
    <3>0. raws \in Seq(Text) /\ Len(raws) = 1 /\ raws' = Append(raws, << >>)
      BY <2>1, <2>2
    <3>1. \A e \in Text : Append(raws, e)[1] = raws[1]
      BY <3>0
    <3>2. raws'[1] = raws[1]
      BY <3>0, <3>1, EmptyText
    <3>. QED BY <2>1, <2>2, <3>2 DEF WholeOK, WholeAnswers
  <2>3. CASE ~found
    <3>1. 1 \in DOMAIN raws' /\ raws' = raws
      BY <2>1, <2>3
    <3>2. Drawn'
      BY <2>1, <3>1 DEF Drawn
    <3>. QED BY <2>1, <2>3, <3>2 DEF WholeOK, WholeAnswers
  <2>. QED BY <2>2, <2>3
<1>9. CASE FinishWhole
  <2>. SUFFICES ASSUME mode = "whole", branch = "chat" PROVE WholeOK' /\ WholeAnswers'
    BY <1>9 DEF FinishWhole, WholeOK, WholeAnswers
  <2>1. pc' = "reply" /\ raws' = raws /\ extra' = extra /\ Drawn
        /\ text' = IF text = << >> /\ extra = << >> THEN <<"again">> ELSE text
    BY <1>9 DEF FinishWhole, Fallback, WholeOK, engine
  <2>2. <<"again">> # << >>
    BY CannedText DEF Canned
  <2>3. Drawn'
    BY <2>1 DEF Drawn, Canned
  <2>. QED BY <2>1, <2>2, <2>3 DEF WholeOK, WholeAnswers
<1>10. CASE Reply
  <2>1. WholeOK'
    BY <1>10 DEF Reply, WholeOK
  <2>. QED BY <1>10, <2>1, ReplyAnswers
<1>11. CASE Archive \/ TryScene
  <2>1. /\ pc \in {"archive", "stickers"} /\ pc' \in {"stickers", "done"}
        /\ UNCHANGED <<mode, branch, said, raws>>
    BY <1>11 DEF Archive, TryScene, engine
  <2>. QED BY <2>1 DEF WholeOK, WholeAnswers, Spoken
<1>12. CASE \E d \in {Handler, Goroutine} : TryKey(d)
  <2>1. UNCHANGED <<mode, branch, pc, text, extra, said, raws>>
    BY <1>12 DEF TryKey, engine
  <2>. QED BY <2>1 DEF WholeOK, WholeAnswers, Spoken, Drawn
<1>. QED BY <1>1, <1>2, <1>3, <1>4, <1>5, <1>6, <1>7, <1>8, <1>9, <1>10, <1>11, <1>12 DEF TurnNext

-----------------------------------------------------------------------------
(* The theorems about Turn.                                                 *)

\* The inductive invariant of a turn: the gate and the filter are where one pass over
\* the whole text so far would have left them, what was sent is what was shown,
\* and the text of a whole answer is an answer without its calls, or a phrase.
THEOREM TurnInductive == TurnSpec => []TurnIInv
<1>1. TurnInit => TurnIInv
  BY TurnInitIInv
<1>2. TurnIInv /\ [TurnNext]_turnVars => TurnIInv'
  <2>1. ASSUME TurnIInv, TurnNext PROVE TurnIInv'
    BY <2>1, TurnData, TurnSaid, TurnFilter, TurnWhole DEF TurnIInv
  <2>2. ASSUME TurnIInv, UNCHANGED turnVars PROVE TurnIInv'
    <3>. USE DEF turnVars, TurnIInv
    <3>1. DataOK'
      BY <2>2 DEF DataOK
    <3>2. SaidOK'
      BY <2>2 DEF SaidOK, Streaming
    <3>3. FilterOK'
      BY <2>2 DEF FilterOK, Streaming, Heard, Spoken
    <3>4. WholeOK' /\ WholeAnswers'
      BY <2>2 DEF WholeOK, Drawn, WholeAnswers, Spoken
    <3>. QED BY <3>1, <3>2, <3>3, <3>4
  <2>. QED BY <2>1, <2>2
<1>. QED BY <1>1, <1>2, PTL DEF TurnSpec

\* However a stream is cut into pieces (Gate.Feed, MarkerFilter.Feed), what the user
\* sees is never ahead of what the parser of whole texts makes of the answers,
\* and all of it once the turn is recorded.
THEOREM StreamAgreesCorrect == TurnSpec => []StreamAgrees
<1>1. TurnIInv => StreamAgrees
  <2>. SUFFICES ASSUME DataOK, SaidOK, FilterOK, mode = "stream", ~unseen
                PROVE  /\ IsPrefix(visible, WithoutMarkers(Spoken))
                       /\ pc \in {"archive", "stickers", "done"} /\ recorded # << >> => visible = WithoutMarkers(Spoken)
    BY DEF TurnIInv, StreamAgrees
  <2>. QED BY VisiblePrefix DEF FilterOK, Streaming
<1>. QED BY <1>1, TurnInductive, PTL

\* While a stream runs, the messages sent are together the part of the visible text
\* that is counted as sent (flush): nothing twice, nothing left out, in order.
THEOREM SentOnceCorrect == TurnSpec => []SentOnce
<1>1. TurnIInv => SentOnce
  BY DEF TurnIInv, SaidOK, SentOnce, Streaming
<1>. QED BY <1>1, TurnInductive, PTL

\* A conversation that was not streamed leaves the user with a message or a marker
\* (the fallbacks of Engine.Run), but for an answer that reads as a call once its
\* calls are taken out.
THEOREM WholeAnswersCorrect == TurnSpec => []WholeAnswers
<1>1. TurnIInv => WholeAnswers
  BY DEF TurnIInv
<1>. QED BY <1>1, TurnInductive, PTL

\* Every text given to SendTextSegmented becomes a bounded number of bounded
\* messages, which hold all of it or, with the notice, its beginning.
THEOREM SegmentsHonestCorrect == TurnSpec => []SegmentsHonest
<1>1. TurnIInv => SegmentsHonest
  <2>. SUFFICES ASSUME said \in Seq(Text) PROVE SegmentsHonest
    BY DEF TurnIInv, DataOK
  <2>1. \A i \in DOMAIN said : said[i] \in Text
    BY LenProperties, ElementOfSeq
  <2>. QED BY <2>1, SplitHonest DEF SegmentsHonest
<1>. QED BY <1>1, TurnInductive, PTL
=============================================================================
