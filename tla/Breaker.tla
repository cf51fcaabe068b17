------------------------------- MODULE Breaker ------------------------------
(***************************************************************************)
(* Calls of the language model through a circuit breaker with retries:     *)
(* internal/llm/retry.go (the breaker, and CallLLMWithRetry on the one     *)
(* global breaker) and internal/llm/endpoint.go (CallEndpointWithRetry on  *)
(* a breaker per endpoint).  Callers are message handlers; a breaker is    *)
(* read and written in critical sections of its mutex, and between two of  *)
(* them (the admission, the request, the verdict) other callers run.       *)
(*                                                                         *)
(* Time: openUntil is kept as the ticks left until it, so `now.Before      *)
(* (openUntil)' is cooldown > 0.  failures saturates at the threshold:     *)
(* the code only ever compares it with the threshold, except for reset.    *)
(***************************************************************************)
EXTENDS Integers, FiniteSets

CONSTANTS Callers,     \* concurrent calls
          Endpoints,   \* endpoints with a breaker of their own
          Global,      \* the breaker of CallLLMWithRetry
          Threshold,   \* newBreaker's threshold (5)
          OpenFor,     \* openDuration in ticks (60 s)
          MaxAttempts  \* defaultMaxAttempts (3)

Breakers == Endpoints \cup {Global}

ASSUME BreakerAssumption ==
  /\ Threshold \in Nat \ {0} /\ OpenFor \in Nat \ {0} /\ MaxAttempts \in Nat \ {0}
  /\ Global \notin Endpoints
  /\ IsFiniteSet(Callers)

VARIABLES
  failures,  \* failures[b], up to the threshold
  cooldown,  \* ticks until openUntil
  pc,        \* pc[c]: "idle", "check", "rejected", "inflight", "backoff"
  path,      \* the breaker c's call uses
  stream,    \* c's call passes onDelta
  attempt,   \* the attempt c's call is at
  streak,    \* history: failed requests since the last success, up to Threshold
  quiet,     \* history: ticks since the last failed request, up to OpenFor
  admitted,  \* history: requests let through since b last opened or succeeded
  emitted    \* history: attempts of c's call that sent text to onDelta

breakerVars == <<failures, cooldown, streak, quiet, admitted>>
vars == <<failures, cooldown, pc, path, stream, attempt, streak, quiet, admitted,
          emitted>>

Open(b) == failures[b] >= Threshold /\ cooldown[b] > 0
InFlight(b) == {c \in Callers : pc[c] = "inflight" /\ path[c] = b}
AtMost(n, bound) == IF n > bound THEN bound ELSE n

Init ==
  /\ failures = [b \in Breakers |-> 0]
  /\ cooldown = [b \in Breakers |-> 0]
  /\ pc = [c \in Callers |-> "idle"]
  /\ path = [c \in Callers |-> Global]
  /\ stream = [c \in Callers |-> FALSE]
  /\ attempt = [c \in Callers |-> 0]
  /\ streak = [b \in Breakers |-> 0]
  /\ quiet = [b \in Breakers |-> OpenFor]
  /\ admitted = [b \in Breakers |-> 0]
  /\ emitted = [c \in Callers |-> 0]

-----------------------------------------------------------------------------
(* Slips the code could contain; PROJECT.json names the property that would *)
(* notice each.                                                             *)

\* openUntil is never set.
CountFailureNoWindow(b) ==
  /\ failures' = [failures EXCEPT ![b] = AtMost(@ + 1, Threshold)]
  /\ UNCHANGED <<cooldown, admitted>>

\* A refusal counts as a failure on every breaker.
ReportsEveryRejection(b) == b \in Breakers

\* A stream that broke off is started over.
MayRetryStream(c, retryable, partial) ==
  retryable /\ attempt[c] < MaxAttempts

\* The attempt is not counted.
WakeUncounted(c) ==
  /\ pc[c] = "backoff"
  /\ pc' = [pc EXCEPT ![c] = "check"]
  /\ UNCHANGED <<breakerVars, path, stream, attempt, emitted>>

-----------------------------------------------------------------------------
\* breaker.fail: one more failure; at the threshold the window starts again.
CountFailure(b) ==
  LET f == AtMost(failures[b] + 1, Threshold)
      opens == f = Threshold
  IN  /\ failures' = [failures EXCEPT ![b] = f]
      /\ cooldown' = [cooldown EXCEPT ![b] = IF opens THEN OpenFor ELSE @]
      /\ admitted' = [admitted EXCEPT ![b] = IF opens THEN 0 ELSE @]

\* Only CallEndpointWithRetry reports a rejection to its breaker (recordOpen).
ReportsRejection(b) == b \in Endpoints

\* A handler starts a call; only CallEndpointWithRetry streams.
Begin(c, b, s) ==
  /\ pc[c] = "idle" /\ (s => b \in Endpoints)
  /\ pc' = [pc EXCEPT ![c] = "check"]
  /\ path' = [path EXCEPT ![c] = b]
  /\ stream' = [stream EXCEPT ![c] = s]
  /\ attempt' = [attempt EXCEPT ![c] = 1]
  /\ emitted' = [emitted EXCEPT ![c] = 0]
  /\ UNCHANGED breakerVars

\* breaker.allow: while open, refuse.
Reject(c) ==
  /\ pc[c] = "check" /\ Open(path[c])
  /\ pc' = [pc EXCEPT ![c] = IF ReportsRejection(path[c]) THEN "rejected" ELSE "idle"]
  /\ UNCHANGED <<breakerVars, path, stream, attempt, emitted>>

\* breaker.allow otherwise: let through, forgetting the failures when the
\* window is over.
Admit(c) ==
  LET b == path[c]
  IN  /\ pc[c] = "check" /\ ~Open(b)
      /\ failures' = [failures EXCEPT ![b] = IF @ >= Threshold THEN 0 ELSE @]
      /\ admitted' = [admitted EXCEPT ![b] = AtMost(@ + 1, Threshold + Cardinality(Callers))]
      /\ pc' = [pc EXCEPT ![c] = "inflight"]
      /\ UNCHANGED <<cooldown, path, stream, attempt, streak, quiet, emitted>>

\* breaker.recordOpen, a critical section of its own after the refusal.
RecordOpen(c) ==
  /\ pc[c] = "rejected"
  /\ CountFailure(path[c])
  /\ pc' = [pc EXCEPT ![c] = "idle"]
  /\ UNCHANGED <<path, stream, attempt, streak, quiet, emitted>>

\* The request succeeds: breaker.success, and the call returns.
Succeed(c) ==
  LET b == path[c]
  IN  /\ pc[c] = "inflight"
      /\ failures' = [failures EXCEPT ![b] = 0]
      /\ cooldown' = [cooldown EXCEPT ![b] = 0]
      /\ streak' = [streak EXCEPT ![b] = 0]
      /\ admitted' = [admitted EXCEPT ![b] = 0]
      /\ pc' = [pc EXCEPT ![c] = "idle"]
      /\ emitted' = [emitted EXCEPT ![c] = IF stream[c] THEN @ + 1 ELSE @]
      /\ UNCHANGED <<path, stream, attempt, quiet>>

\* What a failed request is put down to, and what of it is worth another attempt.
Kinds == {"auth", "timeout", "rateLimited", "server", "badRequest", "network"}
Retryable(kind) == kind \notin {"auth", "badRequest"}

\* Whether text was passed on before the failure: doCall has a whole answer or
\* none, a stream may break off.
DoCall == {FALSE}
CallEndpointStream == {TRUE, FALSE}

\* A failure may be retried when its kind is retryable, an attempt is left and
\* no text has gone out.
MayRetry(c, retryable, partial) ==
  retryable /\ ~partial /\ attempt[c] < MaxAttempts

\* The request fails, with an error that is retryable or not, and in a stream
\* possibly after some text.
Fail(c, retryable, partial) ==
  LET b == path[c]
  IN  /\ pc[c] = "inflight"
      /\ partial \in IF stream[c] THEN CallEndpointStream ELSE DoCall
      /\ CountFailure(b)
      /\ streak' = [streak EXCEPT ![b] = AtMost(@ + 1, Threshold)]
      /\ quiet' = [quiet EXCEPT ![b] = 0]
      /\ emitted' = [emitted EXCEPT ![c] = IF partial THEN @ + 1 ELSE @]
      /\ pc' = [pc EXCEPT ![c] = IF MayRetry(c, retryable, partial) THEN "backoff"
                                                                    ELSE "idle"]
      /\ UNCHANGED <<path, stream, attempt>>

\* The backoff sleep ends.
Wake(c) ==
  /\ pc[c] = "backoff"
  /\ attempt' = [attempt EXCEPT ![c] = @ + 1]
  /\ pc' = [pc EXCEPT ![c] = "check"]
  /\ UNCHANGED <<breakerVars, path, stream, emitted>>

\* GET /healthz reads BreakerState, which goes through allow and so forgets the
\* failures of an expired window.
Healthz ==
  /\ failures[Global] >= Threshold /\ ~Open(Global)
  /\ failures' = [failures EXCEPT ![Global] = 0]
  /\ UNCHANGED <<cooldown, pc, path, stream, attempt, streak, quiet, admitted, emitted>>

\* Time passes.
Tick ==
  /\ \E b \in Breakers : cooldown[b] > 0 \/ quiet[b] < OpenFor
  /\ cooldown' = [b \in Breakers |-> IF cooldown[b] > 0 THEN cooldown[b] - 1 ELSE 0]
  /\ quiet' = [b \in Breakers |-> AtMost(quiet[b] + 1, OpenFor)]
  /\ UNCHANGED <<failures, pc, path, stream, attempt, streak, admitted, emitted>>

\* What a started call does until it returns.
Step(c) ==
  \/ Reject(c) \/ Admit(c) \/ RecordOpen(c) \/ Succeed(c) \/ Wake(c)
  \/ \E retryable \in {Retryable(kind) : kind \in Kinds}, partial \in BOOLEAN :
       Fail(c, retryable, partial)

Next ==
  \/ \E c \in Callers, b \in Breakers, s \in BOOLEAN : Begin(c, b, s)
  \/ \E c \in Callers : Step(c)
  \/ Healthz
  \/ Tick

\* Time passes, and a started call runs on: the HTTP client has a timeout and
\* the backoff is a finite sleep.  Nothing obliges anyone to call.
Fairness == WF_vars(Tick) /\ \A c \in Callers : WF_vars(Step(c))

Spec == Init /\ [][Next]_vars /\ Fairness

-----------------------------------------------------------------------------
\* Every variable has its type; the attempts stay within the limit.
TypeOK ==
  /\ failures \in [Breakers -> 0..Threshold]
  /\ cooldown \in [Breakers -> 0..OpenFor]
  /\ pc \in [Callers -> {"idle", "check", "rejected", "inflight", "backoff"}]
  /\ path \in [Callers -> Breakers]
  /\ stream \in [Callers -> BOOLEAN]
  /\ attempt \in [Callers -> 0..MaxAttempts]
  /\ streak \in [Breakers -> 0..Threshold]
  /\ quiet \in [Breakers -> 0..OpenFor]
  /\ admitted \in [Breakers -> Nat]
  /\ emitted \in [Callers -> Nat]

\* An upstream in trouble is spared: between two openings at most Threshold - 1
\* requests fail unpunished and one more per caller is under way, whatever the
\* callers' interleaving (allow, retry.go:146, resets the count for everybody).
UpstreamSpared ==
  \A b \in Breakers : admitted[b] <= Threshold - 1 + Cardinality(Callers)

\* The global breaker does what the changelog says of it ("5 failures in a row
\* break the circuit for 60 seconds", CHANGELOG.md:130): it is open only after
\* Threshold failed requests in a row and within OpenFor of the last of them.
OpenForCause(b) == Open(b) => streak[b] = Threshold /\ quiet[b] < OpenFor
GlobalOpensForCause == OpenForCause(Global)

\* The same of the breaker of an endpoint.  A refused request counts as one
\* more failure (recordOpen, endpoint.go:271), so this does not hold.
EndpointOpensForCause == \A b \in Endpoints : OpenForCause(b)

\* Nobody is shown two answers run together: of the attempts of one streamed
\* call at most one has sent text (endpoint.go:215-219).
OneAnswerShown == \A c \in Callers : emitted[c] <= 1

\* Traffic cannot hold the global breaker open: if calls keep coming, requests
\* keep being let through.
GlobalRecovers ==
  ([]<>\E c \in Callers : pc[c] = "check" /\ path[c] = Global)
    => []<>(InFlight(Global) # {})

\* Every call returns: the retries are bounded, however the upstream behaves.
CallReturns == \A c \in Callers : pc[c] # "idle" ~> pc[c] = "idle"

-----------------------------------------------------------------------------
(* The inductive invariant behind the proofs in BreakerProofs.              *)

\* What got through since the last opening has failed and is in failures, or
\* is still in flight; while the threshold is reached nothing gets through.
AdmittedOK ==
  \A b \in Breakers :
    IF failures[b] >= Threshold THEN admitted[b] = 0
    ELSE admitted[b] <= failures[b] + Cardinality(InFlight(b))

\* On the global breaker only failed requests count, and its window is what is
\* left of OpenFor since the last one.
GlobalOK ==
  /\ failures[Global] <= streak[Global]
  /\ cooldown[Global] + quiet[Global] <= OpenFor
  /\ \A c \in Callers : pc[c] = "rejected" => path[c] \in Endpoints

\* A call that will make another attempt has one left and has shown nothing.
CallOK ==
  \A c \in Callers : /\ emitted[c] <= 1 /\ (pc[c] # "idle" => emitted[c] = 0)
                     /\ pc[c] = "backoff" => attempt[c] < MaxAttempts

IInv == TypeOK /\ AdmittedOK /\ GlobalOK /\ CallOK
=============================================================================
