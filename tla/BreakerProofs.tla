---------------------------- MODULE BreakerProofs ---------------------------
(***************************************************************************)
(* Proofs about Breaker, for every finite set of callers, every set of     *)
(* endpoints, every threshold, window and attempt limit.                   *)
(***************************************************************************)
EXTENDS Breaker, FiniteSetTheorems, TLAPS

\* The steps of the specification, by name.
LEMMA StepCases ==
  ASSUME [Next]_vars
  PROVE  \/ \E c \in Callers, b \in Breakers, s \in BOOLEAN : Begin(c, b, s)
         \/ \E c \in Callers : \/ Reject(c) \/ Admit(c) \/ RecordOpen(c)
                               \/ Succeed(c) \/ Wake(c)
         \/ \E c \in Callers, retryable, partial \in BOOLEAN : Fail(c, retryable, partial)
         \/ Healthz \/ Tick \/ UNCHANGED vars
<1>1. {Retryable(kind) : kind \in Kinds} \subseteq BOOLEAN
  BY DEF Retryable
<1>. QED BY <1>1 DEF Next, Step

\* The constants as numbers.
LEMMA Constants ==
  /\ Threshold \in Nat /\ Threshold > 0 /\ OpenFor \in Nat /\ OpenFor > 0
  /\ MaxAttempts \in Nat /\ MaxAttempts > 0
  /\ Global \in Breakers /\ Global \notin Endpoints
  /\ Cardinality(Callers) \in Nat
BY BreakerAssumption, FS_CardinalityType DEF Breakers

\* A failure counted on b keeps the types and, at the threshold, starts the
\* window and the count of what gets through.
LEMMA CountFailureEffect ==
  ASSUME TypeOK, NEW b \in Breakers, CountFailure(b)
  PROVE  /\ failures' \in [Breakers -> 0..Threshold]
         /\ cooldown' \in [Breakers -> 0..OpenFor]
         /\ admitted' \in [Breakers -> Nat]
         /\ \A d \in Breakers \ {b} : /\ failures'[d] = failures[d]
                                      /\ cooldown'[d] = cooldown[d]
                                      /\ admitted'[d] = admitted[d]
         /\ \/ /\ failures'[b] = Threshold /\ failures[b] + 1 >= Threshold
               /\ cooldown'[b] = OpenFor /\ admitted'[b] = 0
            \/ /\ failures'[b] = failures[b] + 1 /\ failures'[b] < Threshold
               /\ cooldown'[b] = cooldown[b] /\ admitted'[b] = admitted[b]
BY Constants DEF TypeOK, CountFailure, AtMost

\* Every variable keeps its type on every step.
LEMMA TypeStep == TypeOK /\ [Next]_vars /\ CallOK => TypeOK'
<1>. SUFFICES ASSUME TypeOK, [Next]_vars, CallOK PROVE TypeOK'
  OBVIOUS
<1>. USE Constants
<1>1. ASSUME NEW c \in Callers, NEW b \in Breakers, NEW s \in BOOLEAN, Begin(c, b, s)
      PROVE  TypeOK'
  BY <1>1 DEF TypeOK, Begin, breakerVars
<1>2. ASSUME NEW c \in Callers, Reject(c) PROVE TypeOK'
  BY <1>2 DEF TypeOK, Reject, breakerVars
<1>3. ASSUME NEW c \in Callers, Admit(c) PROVE TypeOK'
  <2>1. path[c] \in Breakers
    BY DEF TypeOK
  <2>2. failures' \in [Breakers -> 0..Threshold]
    BY <1>3, <2>1 DEF TypeOK, Admit
  <2>3. admitted' \in [Breakers -> Nat]
    BY <1>3, <2>1 DEF TypeOK, Admit, AtMost
  <2>. QED BY <1>3, <2>2, <2>3 DEF TypeOK, Admit
<1>4. ASSUME NEW c \in Callers, RecordOpen(c) PROVE TypeOK'
  <2>1. path[c] \in Breakers /\ CountFailure(path[c])
    BY <1>4 DEF TypeOK, RecordOpen
  <2>. QED BY <1>4, <2>1, CountFailureEffect DEF TypeOK, RecordOpen
<1>5. ASSUME NEW c \in Callers, Succeed(c) PROVE TypeOK'
  BY <1>5 DEF TypeOK, Succeed
<1>6. ASSUME NEW c \in Callers, Wake(c) PROVE TypeOK'
  BY <1>6 DEF TypeOK, CallOK, Wake, breakerVars
<1>7. ASSUME NEW c \in Callers, NEW retryable \in BOOLEAN, NEW partial \in BOOLEAN,
             Fail(c, retryable, partial)
      PROVE  TypeOK'
  <2>1. path[c] \in Breakers /\ CountFailure(path[c])
    BY <1>7 DEF TypeOK, Fail
  <2>2. /\ failures' \in [Breakers -> 0..Threshold]
        /\ cooldown' \in [Breakers -> 0..OpenFor]
        /\ admitted' \in [Breakers -> Nat]
    BY <2>1, CountFailureEffect
  <2>3. streak' \in [Breakers -> 0..Threshold] /\ quiet' \in [Breakers -> 0..OpenFor]
    BY <1>7, <2>1 DEF TypeOK, Fail, AtMost
  <2>. QED BY <1>7, <2>2, <2>3 DEF TypeOK, Fail
<1>8. CASE Healthz
  BY <1>8 DEF TypeOK, Healthz
<1>9. CASE Tick
  BY <1>9 DEF TypeOK, Tick, AtMost
<1>10. CASE UNCHANGED vars
  BY <1>10 DEF TypeOK, vars
<1>. QED BY StepCases, <1>1, <1>2, <1>3, <1>4, <1>5, <1>6, <1>7, <1>8, <1>9, <1>10

-----------------------------------------------------------------------------
\* A set of callers is finite, with at most all of them.
LEMMA SomeCallers ==
  ASSUME NEW S \in SUBSET Callers
  PROVE  IsFiniteSet(S) /\ Cardinality(S) \in Nat /\ Cardinality(S) <= Cardinality(Callers)
BY BreakerAssumption, FS_Subset, FS_CardinalityType

\* AdmittedOK for one breaker, in this state and in the next.
AdmittedAt(b) ==
  IF failures[b] >= Threshold THEN admitted[b] = 0
  ELSE admitted[b] <= failures[b] + Cardinality(InFlight(b))

\* A breaker whose counters and whose requests in flight do not change.
LEMMA AdmittedUnchanged ==
  ASSUME AdmittedOK, NEW b \in Breakers,
         failures'[b] = failures[b], admitted'[b] = admitted[b], InFlight(b)' = InFlight(b)
  PROVE  AdmittedAt(b)'
BY DEF AdmittedOK, AdmittedAt

\* A breaker that lets through nothing it has to account for.
LEMMA AdmittedNone ==
  ASSUME TypeOK', NEW b \in Breakers, admitted'[b] = 0
  PROVE  AdmittedAt(b)'
<1>1. Cardinality(InFlight(b)') \in Nat
  BY SomeCallers DEF InFlight
<1>2. failures'[b] \in Nat
  BY Constants DEF TypeOK
<1>. QED BY <1>1, <1>2 DEF AdmittedAt

\* A request that comes under way, or whose verdict is in, moves one caller.
LEMMA InFlightMoves ==
  ASSUME TypeOK, NEW c \in Callers, path' = path, NEW p,
         pc' = [pc EXCEPT ![c] = p], NEW b \in Breakers
  PROVE  /\ b # path[c] => InFlight(b)' = InFlight(b)
         /\ (b = path[c] /\ p = "inflight" /\ pc[c] # "inflight")
              => Cardinality(InFlight(b)') = Cardinality(InFlight(b)) + 1
         /\ (b = path[c] /\ p # "inflight" /\ pc[c] = "inflight")
              => Cardinality(InFlight(b)') = Cardinality(InFlight(b)) - 1
         /\ (p # "inflight" /\ pc[c] # "inflight") => InFlight(b)' = InFlight(b)
<1>0. IsFiniteSet(InFlight(b)) /\ Cardinality(InFlight(b)) \in Nat
  BY SomeCallers DEF InFlight
<1>1. b # path[c] => InFlight(b)' = InFlight(b)
  BY DEF InFlight, TypeOK
<1>2. CASE b = path[c] /\ p = "inflight" /\ pc[c] # "inflight"
  <2>1. InFlight(b)' = InFlight(b) \cup {c} /\ c \notin InFlight(b)
    BY <1>2 DEF InFlight, TypeOK
  <2>. QED BY <1>0, <1>2, <2>1, FS_AddElement
<1>3. CASE b = path[c] /\ p # "inflight" /\ pc[c] = "inflight"
  <2>1. InFlight(b)' = InFlight(b) \ {c} /\ c \in InFlight(b)
    BY <1>3 DEF InFlight, TypeOK
  <2>. QED BY <1>0, <1>3, <2>1, FS_RemoveElement
<1>4. (p # "inflight" /\ pc[c] # "inflight") => InFlight(b)' = InFlight(b)
  BY DEF InFlight, TypeOK
<1>. QED BY <1>1, <1>2, <1>3, <1>4

\* The accounting of what got through survives every step.
LEMMA AdmittedStep == TypeOK /\ TypeOK' /\ AdmittedOK /\ [Next]_vars => AdmittedOK'
<1>. SUFFICES ASSUME TypeOK, TypeOK', AdmittedOK, [Next]_vars, NEW b \in Breakers
              PROVE  AdmittedAt(b)'
  BY DEF AdmittedOK, AdmittedAt
<1>0. /\ Cardinality(InFlight(b)) \in Nat
      /\ failures[b] \in 0..Threshold /\ admitted[b] \in Nat
      /\ AdmittedAt(b)
  BY SomeCallers DEF InFlight, TypeOK, AdmittedOK, AdmittedAt
<1>1. ASSUME NEW c \in Callers, NEW d \in Breakers, NEW s \in BOOLEAN, Begin(c, d, s)
      PROVE  AdmittedAt(b)'
  <2>1. InFlight(b)' = InFlight(b)
    BY <1>1 DEF Begin, InFlight, TypeOK
  <2>. QED BY <1>1, <2>1, AdmittedUnchanged DEF Begin, breakerVars
<1>2. ASSUME NEW c \in Callers, Reject(c) \/ Wake(c) PROVE AdmittedAt(b)'
  <2>1. InFlight(b)' = InFlight(b)
    BY <1>2 DEF Reject, Wake, InFlight, TypeOK
  <2>. QED BY <1>2, <2>1, AdmittedUnchanged DEF Reject, Wake, breakerVars
<1>3. ASSUME NEW c \in Callers, Admit(c) PROVE AdmittedAt(b)'
  <2>1. /\ pc[c] = "check" /\ pc' = [pc EXCEPT ![c] = "inflight"] /\ path' = path
        /\ path[c] \in Breakers
    BY <1>3 DEF Admit, TypeOK
  <2>2. CASE b # path[c]
    <3>1. InFlight(b)' = InFlight(b)
      BY <2>1, <2>2, InFlightMoves
    <3>2. failures'[b] = failures[b] /\ admitted'[b] = admitted[b]
      BY <1>3, <2>1, <2>2 DEF Admit, TypeOK
    <3>. QED BY <3>1, <3>2, AdmittedUnchanged
  <2>3. CASE b = path[c]
    <3>1. Cardinality(InFlight(b)') = Cardinality(InFlight(b)) + 1
      BY <2>1, <2>3, InFlightMoves
    <3>2. admitted'[b] <= admitted[b] + 1
      BY <1>3, <2>1, <2>3, <1>0, Constants DEF Admit, TypeOK, AtMost
    <3>3. failures'[b] = (IF failures[b] >= Threshold THEN 0 ELSE failures[b])
      BY <1>3, <2>1, <2>3 DEF Admit, TypeOK
    <3>4. admitted'[b] \in Nat /\ failures'[b] < Threshold
      BY <1>0, <3>3, Constants DEF TypeOK
    <3>. QED BY <1>0, <3>1, <3>2, <3>3, <3>4, Constants DEF AdmittedAt
  <2>. QED BY <2>2, <2>3
<1>4. ASSUME NEW c \in Callers, RecordOpen(c) PROVE AdmittedAt(b)'
  <2>1. InFlight(b)' = InFlight(b) /\ path[c] \in Breakers /\ CountFailure(path[c])
    BY <1>4 DEF RecordOpen, InFlight, TypeOK
  <2>2. CASE b # path[c]
    BY <2>1, <2>2, CountFailureEffect, AdmittedUnchanged
  <2>3. CASE b = path[c]
    <3>1. \/ admitted'[b] = 0
          \/ /\ failures'[b] = failures[b] + 1 /\ failures'[b] < Threshold
             /\ admitted'[b] = admitted[b]
      BY <2>1, <2>3, CountFailureEffect
    <3>2. CASE admitted'[b] = 0
      BY <3>2, AdmittedNone
    <3>3. CASE /\ failures'[b] = failures[b] + 1 /\ failures'[b] < Threshold
               /\ admitted'[b] = admitted[b]
      BY <1>0, <2>1, <3>3, Constants DEF AdmittedAt
    <3>. QED BY <3>1, <3>2, <3>3
  <2>. QED BY <2>2, <2>3
<1>5. ASSUME NEW c \in Callers, Succeed(c) PROVE AdmittedAt(b)'
  <2>1. /\ pc' = [pc EXCEPT ![c] = "idle"] /\ path' = path /\ path[c] \in Breakers
    BY <1>5 DEF Succeed, TypeOK
  <2>2. CASE b # path[c]
    <3>1. InFlight(b)' = InFlight(b)
      BY <2>1, <2>2, InFlightMoves
    <3>2. failures'[b] = failures[b] /\ admitted'[b] = admitted[b]
      BY <1>5, <2>1, <2>2 DEF Succeed, TypeOK
    <3>. QED BY <3>1, <3>2, AdmittedUnchanged
  <2>3. CASE b = path[c]
    <3>1. admitted'[b] = 0
      BY <1>5, <2>3 DEF Succeed, TypeOK
    <3>. QED BY <3>1, AdmittedNone
  <2>. QED BY <2>2, <2>3
<1>6. ASSUME NEW c \in Callers, NEW retryable \in BOOLEAN, NEW partial \in BOOLEAN,
             Fail(c, retryable, partial)
      PROVE  AdmittedAt(b)'
  <2>. DEFINE p == IF MayRetry(c, retryable, partial) THEN "backoff" ELSE "idle"
  <2>1. /\ pc[c] = "inflight" /\ pc' = [pc EXCEPT ![c] = p] /\ path' = path
        /\ path[c] \in Breakers /\ CountFailure(path[c]) /\ p # "inflight"
    BY <1>6 DEF Fail, TypeOK
  <2>. HIDE DEF p
  <2>2. CASE b # path[c]
    <3>1. InFlight(b)' = InFlight(b)
      BY <2>1, <2>2, InFlightMoves
    <3>. QED BY <3>1, <2>1, <2>2, CountFailureEffect, AdmittedUnchanged
  <2>3. CASE b = path[c]
    <3>1. Cardinality(InFlight(b)') = Cardinality(InFlight(b)) - 1
      BY <2>1, <2>3, InFlightMoves
    <3>2. \/ admitted'[b] = 0
          \/ /\ failures'[b] = failures[b] + 1 /\ failures'[b] < Threshold
             /\ admitted'[b] = admitted[b]
      BY <2>1, <2>3, CountFailureEffect
    <3>3. CASE admitted'[b] = 0
      BY <3>3, AdmittedNone
    <3>4. CASE /\ failures'[b] = failures[b] + 1 /\ failures'[b] < Threshold
               /\ admitted'[b] = admitted[b]
      BY <1>0, <3>1, <3>4, Constants DEF AdmittedAt
    <3>. QED BY <3>2, <3>3, <3>4
  <2>. QED BY <2>2, <2>3
<1>7. CASE Healthz
  <2>1. InFlight(b)' = InFlight(b) /\ admitted'[b] = admitted[b]
    BY <1>7 DEF Healthz, InFlight
  <2>2. CASE b = Global
    <3>1. admitted[b] = 0
      BY <1>0, <1>7, <2>2 DEF Healthz, AdmittedAt
    <3>. QED BY <3>1, <2>1, AdmittedNone
  <2>3. CASE b # Global
    <3>1. failures'[b] = failures[b]
      BY <1>7, <2>3 DEF Healthz, TypeOK
    <3>. QED BY <3>1, <2>1, AdmittedUnchanged
  <2>. QED BY <2>2, <2>3
<1>8. CASE Tick \/ UNCHANGED vars
  <2>1. InFlight(b)' = InFlight(b) /\ admitted'[b] = admitted[b] /\ failures'[b] = failures[b]
    BY <1>8 DEF Tick, vars, InFlight
  <2>. QED BY <2>1, AdmittedUnchanged
<1>. QED BY StepCases, <1>1, <1>2, <1>3, <1>4, <1>5, <1>6, <1>7, <1>8

-----------------------------------------------------------------------------
\* The global breaker's books survive every step: a refusal there is not
\* reported, so failures, streak, window and quiet time move together.
LEMMA GlobalStep == TypeOK /\ GlobalOK /\ [Next]_vars => GlobalOK'
<1>. SUFFICES ASSUME TypeOK, GlobalOK, [Next]_vars PROVE GlobalOK'
  OBVIOUS
<1>. USE Constants
<1>1. ASSUME NEW c \in Callers, NEW d \in Breakers, NEW s \in BOOLEAN, Begin(c, d, s)
      PROVE  GlobalOK'
  BY <1>1 DEF Begin, breakerVars, GlobalOK, TypeOK
<1>2. ASSUME NEW c \in Callers, Reject(c) \/ Wake(c) PROVE GlobalOK'
  BY <1>2 DEF Reject, Wake, ReportsRejection, breakerVars, GlobalOK, TypeOK
<1>3. ASSUME NEW c \in Callers, Admit(c) PROVE GlobalOK'
  BY <1>3 DEF Admit, GlobalOK, TypeOK
<1>4. ASSUME NEW c \in Callers, RecordOpen(c) PROVE GlobalOK'
  <2>1. path[c] \in Breakers \ {Global} /\ CountFailure(path[c])
    BY <1>4 DEF RecordOpen, GlobalOK, TypeOK
  <2>2. failures'[Global] = failures[Global] /\ cooldown'[Global] = cooldown[Global]
    BY <2>1, CountFailureEffect
  <2>. QED BY <1>4, <2>2 DEF RecordOpen, GlobalOK, TypeOK
<1>5. ASSUME NEW c \in Callers, Succeed(c) PROVE GlobalOK'
  BY <1>5 DEF Succeed, GlobalOK, TypeOK
<1>6. ASSUME NEW c \in Callers, NEW retryable \in BOOLEAN, NEW partial \in BOOLEAN,
             Fail(c, retryable, partial)
      PROVE  GlobalOK'
  <2>1. path[c] \in Breakers /\ CountFailure(path[c])
    BY <1>6 DEF Fail, TypeOK
  <2>2. \A e \in Callers : pc'[e] = "rejected" => path'[e] \in Endpoints
    BY <1>6 DEF Fail, GlobalOK, TypeOK
  <2>3. CASE path[c] = Global
    <3>1. /\ streak'[Global] = AtMost(streak[Global] + 1, Threshold) /\ quiet'[Global] = 0
      BY <1>6, <2>3 DEF Fail, TypeOK
    <3>2. failures'[Global] <= streak'[Global]
      BY <3>1, <2>1, <2>3, CountFailureEffect DEF GlobalOK, TypeOK, AtMost
    <3>3. cooldown'[Global] + quiet'[Global] <= OpenFor
      BY <3>1, <2>1, <2>3, CountFailureEffect DEF GlobalOK, TypeOK
    <3>. QED BY <2>2, <3>2, <3>3 DEF GlobalOK
  <2>4. CASE path[c] # Global
    <3>1. failures'[Global] = failures[Global] /\ cooldown'[Global] = cooldown[Global]
      BY <2>1, <2>4, CountFailureEffect
    <3>2. streak'[Global] = streak[Global] /\ quiet'[Global] = quiet[Global]
      BY <1>6, <2>4 DEF Fail, TypeOK
    <3>. QED BY <2>2, <3>1, <3>2 DEF GlobalOK
  <2>. QED BY <2>3, <2>4
<1>7. CASE Healthz
  BY <1>7 DEF Healthz, GlobalOK, TypeOK
<1>8. CASE Tick
  BY <1>8 DEF Tick, GlobalOK, TypeOK, AtMost
<1>9. CASE UNCHANGED vars
  BY <1>9 DEF vars, GlobalOK
<1>. QED BY StepCases, <1>1, <1>2, <1>3, <1>4, <1>5, <1>6, <1>7, <1>8, <1>9

\* A call with attempts left has shown nothing, on every step.
LEMMA CallStep == TypeOK /\ CallOK /\ [Next]_vars => CallOK'
<1>. SUFFICES ASSUME TypeOK, CallOK, [Next]_vars PROVE CallOK'
  OBVIOUS
<1>1. ASSUME NEW c \in Callers, NEW d \in Breakers, NEW s \in BOOLEAN, Begin(c, d, s)
      PROVE  CallOK'
  BY <1>1 DEF Begin, CallOK, TypeOK
<1>2. ASSUME NEW c \in Callers, Reject(c) \/ Wake(c) \/ Admit(c) \/ RecordOpen(c)
      PROVE  CallOK'
  BY <1>2 DEF Reject, Wake, Admit, RecordOpen, CallOK, TypeOK
<1>3. ASSUME NEW c \in Callers, Succeed(c) PROVE CallOK'
  BY <1>3 DEF Succeed, CallOK, TypeOK
<1>4. ASSUME NEW c \in Callers, NEW retryable \in BOOLEAN, NEW partial \in BOOLEAN,
             Fail(c, retryable, partial)
      PROVE  CallOK'
  <2>1. CASE MayRetry(c, retryable, partial)
    BY <1>4, <2>1 DEF Fail, MayRetry, CallOK, TypeOK
  <2>2. CASE ~MayRetry(c, retryable, partial)
    BY <1>4, <2>2 DEF Fail, CallOK, TypeOK
  <2>. QED BY <2>1, <2>2
<1>5. CASE Healthz \/ Tick \/ UNCHANGED vars
  BY <1>5 DEF Healthz, Tick, vars, CallOK
<1>. QED BY StepCases, <1>1, <1>2, <1>3, <1>4, <1>5

\* The inductive invariant holds in every reachable state.
THEOREM Invariant == Spec => []IInv
<1>1. Init => IInv
  <2>. SUFFICES ASSUME Init PROVE IInv
    OBVIOUS
  <2>1. TypeOK
    BY Constants DEF Init, TypeOK
  <2>2. \A b \in Breakers : Cardinality(InFlight(b)) \in Nat
    BY SomeCallers DEF InFlight
  <2>3. AdmittedOK
    BY <2>2, Constants DEF Init, AdmittedOK
  <2>4. GlobalOK /\ CallOK
    BY Constants DEF Init, GlobalOK, CallOK
  <2>. QED BY <2>1, <2>3, <2>4 DEF IInv
<1>2. IInv /\ [Next]_vars => IInv'
  BY TypeStep, AdmittedStep, GlobalStep, CallStep DEF IInv
<1>. QED BY <1>1, <1>2, PTL DEF Spec

\* Every variable always has its type; no call makes more than MaxAttempts
\* attempts (endpoint.go:182, retry.go:207).
THEOREM TypeCorrect == Spec => []TypeOK
<1>1. IInv => TypeOK
  BY DEF IInv
<1>. QED BY Invariant, <1>1, PTL

\* Between two openings a breaker lets at most Threshold - 1 requests and one
\* per caller through, although allow (retry.go:146) resets it for everybody.
THEOREM UpstreamSparedCorrect == Spec => []UpstreamSpared
<1>1. IInv => UpstreamSpared
  <2>. SUFFICES ASSUME IInv, NEW b \in Breakers
                PROVE  admitted[b] <= Threshold - 1 + Cardinality(Callers)
    BY DEF UpstreamSpared
  <2>1. /\ Cardinality(InFlight(b)) \in Nat
        /\ Cardinality(InFlight(b)) <= Cardinality(Callers)
    BY SomeCallers DEF InFlight
  <2>2. failures[b] \in 0..Threshold /\ admitted[b] \in Nat
    BY DEF IInv, TypeOK
  <2>. QED BY <2>1, <2>2, Constants DEF IInv, AdmittedOK
<1>. QED BY Invariant, <1>1, PTL

\* The global breaker is open only after Threshold failed requests in a row and
\* less than OpenFor after the last one (CallLLMWithRetry, retry.go:201).
THEOREM GlobalOpensForCauseCorrect == Spec => []GlobalOpensForCause
<1>1. IInv => GlobalOpensForCause
  BY Constants DEF IInv, TypeOK, GlobalOK, GlobalOpensForCause, OpenForCause, Open
<1>. QED BY Invariant, <1>1, PTL

\* At most one attempt of a streamed call shows text (endpoint.go:215).
THEOREM OneAnswerShownCorrect == Spec => []OneAnswerShown
<1>1. IInv => OneAnswerShown
  BY DEF IInv, CallOK, OneAnswerShown
<1>. QED BY Invariant, <1>1, PTL
=============================================================================
