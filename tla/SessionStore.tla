---------------------------- MODULE SessionStore ----------------------------
(***************************************************************************)
(* The conversation contexts of the QQ adapter, internal/qq/session.go: a  *)
(* map under one mutex, read by a handler before it asks the model and     *)
(* extended after the answer (agent_bridge.go), emptied by a persona       *)
(* switch, and saved to sessions.json by one background goroutine that     *)
(* takes a snapshot under the mutex and writes it after letting go.  main  *)
(* cancels the root context and later calls StopSessionStore; the process  *)
(* may also crash at any point.                                            *)
(*                                                                         *)
(* A turn (one recordSession, a question and its answer) is numbered by    *)
(* the moment it is recorded, so a session is a set of turns and its       *)
(* LastSeen is the newest of them.  What is older than sessionTTL is what  *)
(* is not above `horizon'.  sessions.json is replaced by an atomic rename. *)
(***************************************************************************)
EXTENDS Integers, FiniteSets

CONSTANTS Keys,         \* session keys: a user, or a group and all its members
          Handlers,     \* goroutines handling a message
          GuestTurns,   \* turns kept after a guest's turn (40 messages)
          OwnerTurns,   \* turns kept after an owner's turn (200 or more)
          PersistTurns, \* turns of a session that are saved (maxPersistedMsgs)
          MaxSessions,  \* maxSessions (500)
          NoKey,        \* a goroutine that handles nothing
          MaxTurns      \* bound of the model: turns recorded in all

Turns == 1..MaxTurns
Sessions == [Keys -> SUBSET Turns]

ASSUME SessionAssumption ==
  /\ GuestTurns \in Nat \ {0} /\ OwnerTurns \in Nat \ {0}
  /\ PersistTurns \in Nat \ {0} /\ MaxSessions \in Nat \ {0} /\ MaxTurns \in Nat
  /\ GuestTurns <= OwnerTurns
  /\ IsFiniteSet(Keys) /\ NoKey \notin Keys

VARIABLES
  sessions,   \* the map in memory; {} for a key that is not in it
  dirty,      \* sessionDirty
  disk,       \* what sessions.json holds
  buf,        \* the snapshot being written
  saver,      \* the saving goroutine: "loop", "write", "lastWrite", "done"
  ctxDone,    \* the root context is cancelled
  stopping,   \* sessionStopCh is closed
  process,    \* "up" or "exited" (main returned)
  asking,     \* asking[h]: the session for which h waits for the model, or NoKey
  context,    \* the history h has read
  now,        \* turns recorded so far
  horizon,    \* the newest turn older than sessionTTL
  limit,      \* history: limit[t] is how many turns stayed after turn t
  recorded,   \* history: turns of a key recorded or loaded since the start
  removed,    \* history: those recorded before the key was last taken out of the
              \* map, because it was cleared, had expired or was evicted
  writeLost   \* history: the last write failed

vars == <<sessions, dirty, disk, buf, saver, ctxDone, stopping, process, asking,
          context, now, horizon, limit, recorded, removed, writeLost>>
memory == <<sessions, dirty>>
handling == <<asking, context>>
saving == <<disk, buf, saver, writeLost>>
shutdown == <<ctxDone, stopping, process>>
history == <<limit, recorded, removed>>

Newest(S) == CHOOSE t \in S : \A u \in S : u <= t

LastTurns(S, n) == {t \in S : Cardinality({u \in S : u > t}) < n}
TurnLimit(isOwner) == IF isOwner THEN OwnerTurns ELSE GuestTurns
Live(S) == \E t \in S : t > horizon
Present(s) == {k \in Keys : s[k] # {}}
LiveOnly(s) == [k \in Keys |-> IF Live(s[k]) THEN s[k] ELSE {}]
Up == process = "up"

\* The turns of the keys K recorded so far are now those of a removed context.
Removed(K) == [k \in Keys |-> IF k \in K THEN recorded[k] ELSE removed[k]]

Init ==
  /\ sessions = [k \in Keys |-> {}] /\ dirty = FALSE
  /\ disk = [k \in Keys |-> {}] /\ buf = [k \in Keys |-> {}]
  /\ saver = "loop" /\ writeLost = FALSE
  /\ ctxDone = FALSE /\ stopping = FALSE /\ process = "up"
  /\ asking = [h \in Handlers |-> NoKey]
  /\ context = [h \in Handlers |-> {}]
  /\ now = 0 /\ horizon = 0
  /\ limit = [t \in Turns |-> OwnerTurns]
  /\ recorded = [k \in Keys |-> {}] /\ removed = [k \in Keys |-> {}]

-----------------------------------------------------------------------------
(* Slips the code could contain; PROJECT.json names the property that would *)
(* notice each.                                                             *)

\* The context read before the model was asked is written back.
ExtendedFromContext(h, isOwner) ==
  LastTurns(context[h] \cup {now + 1}, TurnLimit(isOwner))

\* The flag is cleared again after the write instead of before the snapshot.
WriteThenClean(ok) ==
  /\ Up /\ saver \in {"write", "lastWrite"}
  /\ disk' = IF ok THEN buf ELSE disk
  /\ writeLost' = ~ok
  /\ dirty' = FALSE
  /\ saver' = IF saver = "write" THEN "loop" ELSE "done"
  /\ buf' = [k \in Keys |-> {}]
  /\ UNCHANGED <<sessions, handling, shutdown, now, horizon, history>>

\* The timer case of the loop does not save.
SaveNever == FALSE /\ UNCHANGED vars

-----------------------------------------------------------------------------
\* getSessionHistory, before the model is asked: a copy, or nothing when the
\* session has expired, which also removes it (without marking the map dirty).
Ask(h, k) ==
  /\ Up /\ asking[h] = NoKey
  /\ asking' = [asking EXCEPT ![h] = k]
  /\ sessions' = [sessions EXCEPT ![k] = IF Live(@) THEN @ ELSE {}]
  /\ context' = [context EXCEPT ![h] = sessions'[k]]
  /\ removed' = Removed({k} \ Present(sessions'))
  /\ UNCHANGED <<dirty, saving, shutdown, now, horizon, limit, recorded>>

\* The model fails, or answers nothing: nothing is recorded.
NoAnswer(h) ==
  /\ Up /\ asking[h] # NoKey
  /\ asking' = [asking EXCEPT ![h] = NoKey]
  /\ context' = [context EXCEPT ![h] = {}]
  /\ UNCHANGED <<memory, saving, shutdown, now, horizon, history>>

\* The session with the new turn at its end, cut to the limit of the speaker.
Extended(h, isOwner) ==
  LastTurns(sessions[asking[h]] \cup {now + 1}, TurnLimit(isOwner))

\* evictOldestSessionsLocked: the MaxSessions most recently used stay.
WithoutOldest(s) ==
  LET newer(k) == {j \in Present(s) : Newest(s[j]) > Newest(s[k])}
  IN  [k \in Keys |-> IF s[k] # {} /\ Cardinality(newer(k)) < MaxSessions
                      THEN s[k] ELSE {}]

\* recordSession: the answer has come and the turn is appended to the session as
\* it is now, which another handler may have extended, cleared or evicted.
Answer(h, isOwner) ==
  /\ Up /\ asking[h] # NoKey /\ now < MaxTurns
  /\ now' = now + 1
  /\ sessions' = WithoutOldest([sessions EXCEPT ![asking[h]] = Extended(h, isOwner)])
  /\ dirty' = TRUE
  /\ limit' = [limit EXCEPT ![now + 1] = TurnLimit(isOwner)]
  /\ recorded' = [recorded EXCEPT ![asking[h]] = @ \cup {now + 1}]
  /\ removed' = Removed(Present(sessions) \ Present(sessions'))
  /\ asking' = [asking EXCEPT ![h] = NoKey]
  /\ context' = [context EXCEPT ![h] = {}]
  /\ UNCHANGED <<saving, shutdown, horizon>>

\* clearSession: an owner switches the persona.
Clear(k) ==
  /\ Up
  /\ sessions' = [sessions EXCEPT ![k] = {}]
  /\ dirty' = TRUE
  /\ removed' = Removed({k})
  /\ UNCHANGED <<handling, saving, shutdown, now, horizon, limit, recorded>>

\* saveSessions under the mutex, when the map is dirty: the flag is reset, the
\* expired sessions are removed, the rest is copied.  An empty list is not
\* written.
Snapshot(afterWrite, otherwise) ==
  /\ dirty
  /\ dirty' = FALSE
  /\ sessions' = LiveOnly(sessions)
  /\ removed' = Removed(Present(sessions) \ Present(sessions'))
  /\ buf' = [k \in Keys |-> LastTurns(sessions'[k], PersistTurns)]
  /\ saver' = IF Present(sessions') = {} THEN otherwise ELSE afterWrite
  /\ UNCHANGED <<disk, writeLost>>

\* The timer fires.
Save ==
  /\ Up /\ saver = "loop"
  /\ Snapshot("write", "loop")
  /\ UNCHANGED <<handling, shutdown, now, horizon, limit, recorded>>

\* The goroutine sees the stop or the cancelled context, whichever comes first,
\* saves once more and returns.
LastSave ==
  /\ Up /\ saver = "loop" /\ (ctxDone \/ stopping)
  /\ \/ Snapshot("lastWrite", "done")
     \/ /\ ~dirty
        /\ saver' = "done"
        /\ UNCHANGED <<memory, disk, buf, writeLost, removed>>
  /\ UNCHANGED <<handling, shutdown, now, horizon, limit, recorded>>

\* WriteFileAtomic succeeds or fails; a failure is only logged.
Write(ok) ==
  /\ Up /\ saver \in {"write", "lastWrite"}
  /\ disk' = IF ok THEN buf ELSE disk
  /\ writeLost' = ~ok
  /\ saver' = IF saver = "write" THEN "loop" ELSE "done"
  /\ buf' = [k \in Keys |-> {}]
  /\ UNCHANGED <<memory, handling, shutdown, now, horizon, history>>

\* main: cancel(), before it waits for the send queue to drain.
Cancel ==
  /\ Up /\ ~ctxDone
  /\ ctxDone' = TRUE
  /\ UNCHANGED <<memory, handling, saving, stopping, process, now, horizon,
                 history>>

\* main: StopSessionStore closes the channel and waits.
StopSessionStore ==
  /\ Up /\ ctxDone /\ ~stopping
  /\ stopping' = TRUE
  /\ UNCHANGED <<memory, handling, saving, ctxDone, process, now, horizon,
                 history>>

\* StopSessionStore returns and so does main.
Exit ==
  /\ Up /\ stopping /\ saver = "done"
  /\ process' = "exited"
  /\ UNCHANGED <<memory, handling, saving, ctxDone, stopping, now, horizon,
                 history>>

\* The process dies between any two steps, or has ended, and starts again:
\* memory is gone, the file has its last content, and loadSessions takes what
\* has not expired.
Restart ==
  /\ process' = "up" /\ ctxDone' = FALSE /\ stopping' = FALSE
  /\ saver' = "loop" /\ dirty' = FALSE /\ writeLost' = FALSE
  /\ sessions' = LiveOnly(disk)
  /\ recorded' = sessions'
  /\ removed' = [k \in Keys |-> {}]
  /\ asking' = [h \in Handlers |-> NoKey]
  /\ context' = [h \in Handlers |-> {}]
  /\ buf' = [k \in Keys |-> {}]
  /\ UNCHANGED <<disk, now, horizon, limit>>

\* sessionTTL has passed since the oldest turn that was young enough.
Age ==
  /\ horizon < now
  /\ horizon' = horizon + 1
  /\ UNCHANGED <<memory, handling, saving, shutdown, now, history>>

Saver == Save \/ LastSave \/ \E ok \in BOOLEAN : Write(ok)

Next ==
  \/ \E h \in Handlers, k \in Keys : Ask(h, k)
  \/ \E h \in Handlers : NoAnswer(h)
  \/ \E h \in Handlers, isOwner \in BOOLEAN : Answer(h, isOwner)
  \/ \E k \in Keys : Clear(k)
  \/ Save \/ LastSave
  \/ \E ok \in BOOLEAN : Write(ok)
  \/ Cancel \/ StopSessionStore \/ Exit \/ Restart \/ Age

\* The timer goes on ticking and a write ends.  Nothing obliges a handler.
Fairness == WF_vars(Saver)

Spec == Init /\ [][Next]_vars /\ Fairness

-----------------------------------------------------------------------------
\* No session is longer than an owner's may be, and there are not too many.
Fits(s) ==
  /\ \A k \in Keys : Cardinality(s[k]) <= OwnerTurns
  /\ Cardinality(Present(s)) <= MaxSessions

\* Every variable has its type, and memory stays within its limits.
TypeOK ==
  /\ sessions \in Sessions /\ disk \in Sessions /\ buf \in Sessions
  /\ Fits(sessions)
  /\ dirty \in BOOLEAN /\ ctxDone \in BOOLEAN /\ stopping \in BOOLEAN
  /\ saver \in {"loop", "write", "lastWrite", "done"}
  /\ process \in {"up", "exited"}
  /\ asking \in [Handlers -> Keys \cup {NoKey}]
  /\ context \in [Handlers -> SUBSET Turns]
  /\ now \in 0..MaxTurns /\ horizon \in 0..now
  /\ limit \in [Turns -> {GuestTurns, OwnerTurns}]
  /\ recorded \in Sessions /\ removed \in Sessions
  /\ writeLost \in BOOLEAN

\* Of the turns R recorded in one conversation, those that no turn pushed out,
\* when the newest l[u] of them stayed after turn u.
Kept(R, l) ==
  {t \in R : \A u \in R :
     u >= t => Cardinality({v \in R : t < v /\ v <= u}) < l[u]}

\* A context has every turn recorded in the conversation since it was last
\* removed, except those that the limit of a later speaker cut off: handlers that
\* answer in the same conversation at the same time never overwrite each other's
\* turn, whether they read a context before or found none (recordSession appends
\* under the mutex to what is there, session.go:85).
NoTurnLost == \A k \in Keys : Kept(recorded[k] \ removed[k], limit) \subseteq sessions[k]

\* A context that a persona switch has reset stays reset while the process runs,
\* although handlers that read it earlier are still waiting for their answer
\* ("the conversation context has been reset", bot.go:406); neither does an
\* expired or an evicted one come back with them.
ClearedStaysCleared == \A k \in Keys : sessions[k] \cap removed[k] = {}

\* A turn recorded in one conversation is in memory afterwards, and pushes out
\* only conversations unused for longer than every one that stays
\* (evictOldestSessionsLocked, session.go:120).
EvictsOldest ==
  [][now' # now =>
       /\ \E k \in Keys : now' \in sessions'[k]
       /\ \A gone, stays \in Keys :
            gone \in Present(sessions) \ Present(sessions') /\ stays \in Present(sessions')
              => Newest(sessions[gone]) < Newest(sessions'[stays])]_vars

\* When nothing is marked as unsaved nothing is unsaved: the file holds every
\* live context as memory has it, and while there is one, no live context that
\* memory does not have.  Exempt is a failed write, whose loss the code accepts,
\* and a map that has become empty, which it never writes.
CleanMeansSaved ==
  Up /\ ~dirty /\ saver \in {"loop", "done"} /\ ~writeLost =>
    \A k \in Keys :
      /\ Live(sessions[k]) => disk[k] = LastTurns(sessions[k], PersistTurns)
      /\ Live(disk[k]) /\ (\E j \in Keys : Live(sessions[j])) => sessions[k] # {}

\* A recorded turn reaches the file, unless it is dropped from the context or
\* expires first, a write fails, or the process goes down.
TurnsReachDisk ==
  \A k \in Keys, t \in Turns :
    (t \in sessions[k] /\ Up /\ ~ctxDone)
      ~> \/ t \in disk[k]
         \/ t \notin LastTurns(sessions[k], PersistTurns) \/ ~Live(sessions[k])
         \/ writeLost \/ ctxDone

\* "StopSessionStore stops the background saving and saves once, immediately"
\* (session.go:175), and main relies on it to save the sessions last
\* (main.go:302): after a graceful exit without write errors the file holds
\* every live context.
StopSaves ==
  process = "exited" /\ ~writeLost =>
    \A k \in Keys :
      Live(sessions[k]) => disk[k] = LastTurns(sessions[k], PersistTurns)

-----------------------------------------------------------------------------
(* The inductive invariant behind the proofs in SessionStoreProofs.         *)

Disjoint(s) == \A j, k \in Keys : j # k => s[j] \cap s[k] = {}

\* The history variables name turns of the past, each of one key, and memory
\* holds exactly what was recorded since the last removal and no limit cut off.
PastOK ==
  /\ Disjoint(recorded)
  /\ \A k \in Keys : /\ recorded[k] \subseteq 1..now
                     /\ removed[k] \subseteq recorded[k]
                     /\ sessions[k] = Kept(recorded[k] \ removed[k], limit)

\* What is or will be in the file has been cut to PersistTurns, and would fit
\* into memory and be whole there.
FileForm(f) ==
  /\ Disjoint(f) /\ Fits(f)
  /\ \A k \in Keys : /\ f[k] \subseteq 1..now
                     /\ LastTurns(f[k], PersistTurns) = f[k] /\ Kept(f[k], limit) = f[k]

FileOK == FileForm(disk) /\ FileForm(buf)

\* f is what memory would save now, as far as it has not expired.
Mirrors(f) ==
  \A k \in Keys : /\ Live(sessions[k]) => f[k] = LastTurns(sessions[k], PersistTurns)
                  /\ Live(f[k]) => Live(sessions[k])

\* While nothing is dirty, the snapshot under way, or else the file, mirrors
\* memory; the file need not when memory holds no live session.
SavedOK ==
  Up /\ ~dirty =>
    IF saver \in {"write", "lastWrite"} THEN Mirrors(buf)
    ELSE writeLost \/ Mirrors(disk) \/ \A k \in Keys : ~Live(sessions[k])

IInv == TypeOK /\ PastOK /\ FileOK /\ SavedOK
=============================================================================
