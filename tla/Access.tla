------------------------------- MODULE Access -------------------------------
(***************************************************************************)
(* Who owns the bot: the passcode of qq/bot.go with its limiter, the roles *)
(* of store/users.go, the owners of config/config.go and their file.  A    *)
(* message's handler reads the speaker's role, registers the speaker,      *)
(* asks the limiter, compares, and then either counts a failure or grants, *)
(* which writes the configuration first and the table second.  Handlers,   *)
(* the panel, the maintenance and restarts interleave between any two      *)
(* critical sections and statements.  Statements and file writes may fail. *)
(*                                                                         *)
(* A tick is a unit of the limiter's window.  The thirty days after which  *)
(* a guest is purged are the action Silence.  Admin is left out: the code  *)
(* treats it as it treats trusted here.                                    *)
(***************************************************************************)
EXTENDS Integers, FiniteSets

CONSTANTS Users, Handlers,
          Panel,        \* the panel's request
          Nobody,       \* no user in hand
          MaxAttempts,  \* authMaxAttempts (5)
          Window,       \* authWindow (10 minutes), in ticks
          LockTime      \* authLockTime (30 minutes), in ticks

Agents == Handlers \cup {Panel}
Roles == {"guest", "trusted", "owner"}
NoRole == "none"
Kinds == {"passcode", "short", "exempt"}  \* exempt: long, or only a picture

ASSUME AccessAssumption ==
  /\ Panel \notin Handlers /\ Nobody \notin Users /\ IsFiniteSet(Handlers)
  /\ MaxAttempts \in Nat /\ MaxAttempts >= 2
  /\ Window \in Nat /\ LockTime \in Nat /\ LockTime > Window

VARIABLES
  users,       \* the table: a function from its rows to their roles
  recorded,    \* who has a row in permissions
  recent,      \* who was active in the last thirty days
  owners,      \* Config.Owners in memory
  file,        \* owners in config.json
  ownersFile,  \* owners.json
  entries,     \* authLimiter.entries
  pc,          \* pc[a]: where a is
  who,         \* who[a]: about whom
  asOwner,     \* asOwner[h]: resolveRole has found an owner
  kind,        \* kind[h]: what the message is
  want,        \* the role the panel is to write
  missed,      \* history: wrong comparisons since the window began
  given,       \* history: the role written last
  via,         \* history: by which path
  told         \* history: who was ever told to be owner now

vars == <<users, recorded, recent, owners, file, ownersFile, entries, pc, who,
          asOwner, kind, want, missed, given, via, told>>
table == <<users, recorded, recent>>
config == <<owners, file, ownersFile>>
limiter == <<entries, missed>>
request == <<who, asOwner, kind, want>>
grants == <<given, via, told>>

Entry == [count : 1..MaxAttempts, age : 0..(Window + 1), lock : 0..LockTime]
FirstMiss == [count |-> 1, age |-> 0, lock |-> 0]
Least(m, n) == IF m < n THEN m ELSE n
Without(f, S) == [x \in DOMAIN f \ S |-> f[x]]
Written(f, S, v) == [x \in DOMAIN f \cup S |-> IF x \in S THEN v ELSE f[x]]

\* RoleOf: a user without a row is a guest.
RoleOf(u) == IF u \in DOMAIN users THEN users[u] ELSE "guest"

\* allow refuses.
Locked(u) == u \in DOMAIN entries /\ entries[u].lock > 0

\* The next miss counts in the window that has begun.
InWindow(u) == u \in DOMAIN entries /\ entries[u].age <= Window

\* Misses that are compared and not counted yet.
Missers(u) == {h \in Handlers : pc[h] = "fail" /\ who[h] = u}
Uncounted(u) == Cardinality(Missers(u))

Init ==
  /\ users = << >> /\ recorded = {} /\ recent = {}
  /\ owners = {} /\ file = {} /\ ownersFile = {} /\ entries = << >>
  /\ pc = [a \in Agents |-> "idle"] /\ who = [a \in Agents |-> Nobody]
  /\ asOwner = [h \in Handlers |-> FALSE] /\ kind = [h \in Handlers |-> "exempt"]
  /\ want = NoRole
  /\ missed = [u \in Users |-> 0] /\ given = [u \in Users |-> NoRole]
  /\ via = [u \in Users |-> "none"] /\ told = {}

Goto(a, place) == pc' = [pc EXCEPT ![a] = place]

\* What the message said is of no more use.
Answered(h) ==
  /\ asOwner' = [asOwner EXCEPT ![h] = FALSE] /\ kind' = [kind EXCEPT ![h] = "exempt"]

\* The role that SetRole is called with.
Wanted(a) == IF a = Panel THEN want ELSE "owner"

\* The request is over; what it held is forgotten.
Finish(a) ==
  /\ Goto(a, "idle")
  /\ who' = [who EXCEPT ![a] = Nobody]
  /\ want' = IF a = Panel THEN NoRole ELSE want
  /\ IF a \in Handlers THEN Answered(a) ELSE UNCHANGED <<asOwner, kind>>

-----------------------------------------------------------------------------
(* Slips the code could contain; PROJECT.json names the property that would *)
(* notice each.                                                             *)

\* A lock is written and never looked at.
PassesUnlocked(u) == u \in Users

\* A user who speaks again is written as the guest of the INSERT.
UpsertRole(u) == "guest"

\* An owner who is in memory already is not written again.
AddOwnerUnlessKnown(h) ==
  LET u == who[h] IN
  /\ pc[h] = "add" /\ Goto(h, "get")
  /\ owners' = owners \cup {u}
  /\ \/ u \in owners /\ UNCHANGED <<file, ownersFile>>
     \/ u \notin owners /\ file' = owners' /\ ownersFile' \in {ownersFile, owners'}
  /\ UNCHANGED <<table, limiter, request, grants>>

-----------------------------------------------------------------------------
(* A message: resolveRole, registerUser (EnsureUser, TouchUser), passcode.  *)

\* The table decides; without a row, or if it can't be read, the
\* configuration does.
Arrive(h, u, k) ==
  /\ pc[h] = "idle" /\ Goto(h, "ensure")
  /\ who' = [who EXCEPT ![h] = u] /\ kind' = [kind EXCEPT ![h] = k]
  /\ LET fallback == IF u \in owners THEN "owner" ELSE "guest" IN
     \E role \in {fallback} \cup {users[v] : v \in {u} \cap DOMAIN users} :
       asOwner' = [asOwner EXCEPT ![h] = role = "owner"]
  /\ UNCHANGED <<table, config, limiter, want, grants>>

Ensure(h) ==
  /\ pc[h] = "ensure"
  /\ Goto(h, IF who[h] \in DOMAIN users THEN "touch" ELSE "insert")
  /\ UNCHANGED <<table, config, limiter, request, grants>>

\* INSERT ... ON CONFLICT leaves the role of a row that is there by now.
UpsertedRole(u) == RoleOf(u)

UpsertUser(u) ==
  /\ users' = Written(users, {u}, UpsertedRole(u))
  /\ recent' = recent \cup {u}
  /\ UNCHANGED recorded

Insert(h) ==
  /\ pc[h] = "insert" /\ UpsertUser(who[h]) /\ Goto(h, "touch")
  /\ UNCHANGED <<config, limiter, request, grants>>

TouchUser(h) ==
  /\ pc[h] = "touch" /\ Goto(h, "allow")
  /\ recent' = recent \cup ({who[h]} \cap DOMAIN users)
  /\ UNCHANGED <<users, recorded, config, limiter, request, grants>>

\* Registering failed: the message is answered all the same.
RegisterFails(h) ==
  /\ pc[h] \in {"ensure", "insert", "touch"} /\ Goto(h, "allow")
  /\ UNCHANGED <<table, config, limiter, request, grants>>

\* isPasscodeAttempt: an owner's messages all are, whatever they say.
IsAttempt(h) == asOwner[h] \/ kind[h] # "exempt"

Passes(u) == ~Locked(u)

\* No attempt, or refused by the limiter: the passcode is not compared.
NotCompared(h) ==
  /\ pc[h] = "allow" /\ ~(IsAttempt(h) /\ Passes(who[h]))
  /\ Finish(h)
  /\ UNCHANGED <<table, config, limiter, grants>>

Compare(h) ==
  /\ pc[h] = "allow" /\ IsAttempt(h) /\ Passes(who[h])
  /\ IF kind[h] = "passcode"
       THEN Goto(h, "reset") /\ UNCHANGED missed
       ELSE /\ Goto(h, "fail")
            /\ missed' = [missed EXCEPT
                   ![who[h]] = 1 + IF InWindow(who[h]) THEN @ ELSE Uncounted(who[h])]
  /\ Answered(h)
  /\ UNCHANGED <<table, config, entries, who, want, grants>>

NextCount(e) == Least(e.count + 1, MaxAttempts)

\* fail: a new window begins with the first miss after the last one ended.
CountMiss(h) ==
  LET u == who[h]
      again == InWindow(u)
      n == NextCount(entries[u])
  IN /\ pc[h] = "fail" /\ Finish(h)
     /\ entries' =
          IF again
            THEN [entries EXCEPT ![u].count = n,
                                 ![u].lock = IF n >= MaxAttempts THEN LockTime ELSE @]
            ELSE Written(entries, {u}, FirstMiss)
     /\ missed' = IF again THEN missed
                  ELSE [missed EXCEPT ![u] = Uncounted(u)]
     /\ UNCHANGED <<table, config, grants>>

Reset(h) ==
  /\ pc[h] = "reset" /\ Goto(h, "add")
  /\ entries' = Without(entries, {who[h]})
  /\ missed' = [missed EXCEPT ![who[h]] = Uncounted(who[h])]
  /\ UNCHANGED <<table, config, request, grants>>

Tick ==
  /\ entries' = [u \in DOMAIN entries |->
                   [entries[u] EXCEPT !.age = Least(@ + 1, Window + 1),
                                      !.lock = IF @ = 0 THEN 0 ELSE @ - 1]]
  /\ UNCHANGED <<table, config, pc, request, missed, grants>>

\* gc: what has long run out goes.
Collect ==
  /\ entries' = Without(entries, {u \in DOMAIN entries :
                                    entries[u].age > Window /\ entries[u].lock = 0})
  /\ UNCHANGED <<table, config, pc, request, missed, grants>>

-----------------------------------------------------------------------------
(* grantOwner: the configuration, then SetRole with its statements.         *)

\* AddOwner: the owners' file is written for a new owner only, and its errors
\* are dropped; config.json is written in any case.
AddOwner(h) ==
  LET u == who[h] IN
  /\ pc[h] = "add" /\ Goto(h, "get")
  /\ owners' = owners \cup {u} /\ file' = owners'
  /\ ownersFile' \in IF u \in owners THEN {ownersFile} ELSE {ownersFile, owners'}
  /\ UNCHANGED <<table, limiter, request, grants>>

\* config.json can't be written: the speaker is asked to try again, and is an
\* owner in memory.
AddOwnerFails(h) ==
  LET u == who[h] IN
  /\ pc[h] = "add" /\ Finish(h)
  /\ owners' = owners \cup {u}
  /\ ownersFile' \in IF u \in owners THEN {ownersFile} ELSE {ownersFile, owners'}
  /\ UNCHANGED <<table, file, limiter, grants>>

SetUserRole(u, r) ==
  /\ pc[Panel] = "idle" /\ Goto(Panel, "get")
  /\ who' = [who EXCEPT ![Panel] = u] /\ want' = r
  /\ UNCHANGED <<table, config, limiter, asOwner, kind, grants>>

\* The handler answers that the speaker is an owner now.
Tell(a) == told' = IF a \in Handlers THEN told \cup {who[a]} ELSE told

GetRole(a) ==
  LET there == who[a] \in DOMAIN users IN
  /\ pc[a] = "get"
  /\ IF there /\ users[who[a]] = Wanted(a)
       THEN Finish(a) /\ Tell(a)
       ELSE /\ Goto(a, IF there THEN "update" ELSE "create")
            /\ UNCHANGED <<request, told>>
  /\ UNCHANGED <<table, config, limiter, given, via>>

Create(a) ==
  /\ pc[a] = "create" /\ UpsertUser(who[a]) /\ Goto(a, "update")
  /\ UNCHANGED <<config, limiter, request, grants>>

\* UPDATE: without a row there is nothing to update, which is no error.
UpdateRole(a) ==
  LET u == who[a] IN
  /\ pc[a] = "update" /\ Goto(a, "record")
  /\ IF u \in DOMAIN users
       THEN /\ users' = [users EXCEPT ![u] = Wanted(a)]
            /\ given' = [given EXCEPT ![u] = Wanted(a)]
            /\ via' = [via EXCEPT ![u] = IF a = Panel THEN "panel" ELSE "passcode"]
       ELSE UNCHANGED <<users, given, via>>
  /\ UNCHANGED <<recorded, recent, config, limiter, request, told>>

\* SetRole returns without an error, whatever its UPDATE has met.
Record(a) ==
  /\ pc[a] = "record" /\ Finish(a) /\ Tell(a)
  /\ recorded' = recorded \cup {who[a]}
  /\ UNCHANGED <<users, recent, config, limiter, given, via>>

SetRoleFails(a) ==
  /\ pc[a] \in {"get", "create", "update", "record"} /\ Finish(a)
  /\ UNCHANGED <<table, config, limiter, grants>>

-----------------------------------------------------------------------------
(* The panel's other settings, the maintenance, the start.                  *)

\* config.Update of something else writes the owners it holds along.
UpdateConfig ==
  /\ file' = owners
  /\ UNCHANGED <<table, owners, ownersFile, limiter, pc, request, grants>>

Silence(u) ==
  /\ \A a \in Agents : who[a] # u
  /\ recent' = recent \ {u}
  /\ UNCHANGED <<users, recorded, config, limiter, pc, request, grants>>

\* PurgeInactiveUsers: guests without any permission.
Purged == {u \in DOMAIN users : users[u] = "guest" /\ u \notin recent \cup recorded}

Purge ==
  /\ users' = Without(users, Purged)
  /\ UNCHANGED <<recorded, recent, config, limiter, pc, request, grants>>

\* A crash anywhere and the next start: LoadConfig, then ImportOwners, which
\* stops at the first error, so that it promotes some of the owners.
Restart ==
  LET loaded == file \cup ownersFile IN
  \E imported \in SUBSET {u \in loaded : RoleOf(u) # "owner"} :
    /\ owners' = loaded
    /\ users' = Written(users, imported, "owner")
    /\ recorded' = recorded \cup imported
    /\ recent' = recent \cup (imported \ DOMAIN users)
    /\ given' = Written(given, imported, "owner")
    /\ via' = Written(via, imported, "import")
    /\ entries' = << >> /\ missed' = [u \in Users |-> 0]
    /\ pc' = [a \in Agents |-> "idle"] /\ who' = [a \in Agents |-> Nobody]
    /\ asOwner' = [h \in Handlers |-> FALSE] /\ kind' = [h \in Handlers |-> "exempt"]
    /\ want' = NoRole
    /\ UNCHANGED <<file, ownersFile, told>>

Handle(h) ==
  \/ Ensure(h) \/ Insert(h) \/ TouchUser(h) \/ RegisterFails(h)
  \/ NotCompared(h) \/ Compare(h) \/ CountMiss(h) \/ Reset(h)
  \/ AddOwner(h) \/ AddOwnerFails(h)

SetRole(a) == GetRole(a) \/ Create(a) \/ UpdateRole(a) \/ Record(a) \/ SetRoleFails(a)

Next ==
  \/ \E h \in Handlers, u \in Users, k \in Kinds : Arrive(h, u, k)
  \/ \E h \in Handlers : Handle(h)
  \/ \E u \in Users, r \in Roles : SetUserRole(u, r)
  \/ \E a \in Agents : SetRole(a)
  \/ \E u \in Users : Silence(u)
  \/ Tick \/ Collect \/ UpdateConfig \/ Purge \/ Restart

Spec == Init /\ [][Next]_vars

-----------------------------------------------------------------------------
(* Correctness.                                                             *)

Places == {"idle", "ensure", "insert", "touch", "allow", "fail", "reset", "add",
           "get", "create", "update", "record"}

\* Types; the panel only ever sets roles, and who is in hand is a user.
TypeOK ==
  /\ DOMAIN users \subseteq Users /\ \A u \in DOMAIN users : users[u] \in Roles
  /\ recorded \subseteq Users /\ recent \subseteq Users
  /\ owners \subseteq Users /\ file \subseteq Users /\ ownersFile \subseteq Users
  /\ DOMAIN entries \subseteq Users
  /\ \A u \in DOMAIN entries : entries[u] \in Entry
  /\ pc \in [Agents -> Places] /\ who \in [Agents -> Users \cup {Nobody}]
  /\ pc[Panel] \in {"idle", "get", "create", "update", "record"}
  /\ \A a \in Agents : pc[a] # "idle" => who[a] \in Users
  /\ asOwner \in [Handlers -> BOOLEAN] /\ kind \in [Handlers -> Kinds]
  /\ want \in Roles \cup {NoRole} /\ (pc[Panel] # "idle" => want \in Roles)
  /\ missed \in [Users -> Nat]
  /\ given \in [Users -> Roles \cup {NoRole}]
  /\ via \in [Users -> {"none", "passcode", "panel", "import"}]
  /\ told \subseteq Users

\* The limit on guesses: allow, the comparison and fail are three critical
\* sections, so messages handled at once pass before the first is counted;
\* in one window no more wrong passcodes are compared than the limit and one
\* for every handler but the one that locks.
GuessesBounded ==
  \A u \in Users : missed[u] <= MaxAttempts - 1 + Cardinality(Handlers)

\* A role that was written stays until another one is written: neither the
\* registration of a later message (an upsert), nor the purge, nor a restart
\* takes it away.
RoleKept == \A u \in Users : given[u] # NoRole => RoleOf(u) = given[u]

\* Whoever was told to be an owner now, or is one by passcode, is an owner in a
\* file, whatever has failed on the way before and whatever has become of the
\* table since: the database may be lost, and the next start imports from the files.
GrantDurable ==
  \A u \in Users :
    u \in told \/ (RoleOf(u) = "owner" /\ via[u] \in {"passcode", "import"}) =>
      u \in file \cup ownersFile

\* handleIncoming tells the speaker "you have been made an owner" (bot.go:252):
\* at that moment the table says so.
ToldIsOwner == [][\A u \in told' \ told : RoleOf(u)' = "owner"]_vars

\* isPasscodeAttempt's comments: owners take no part in the limiting, and
\* their messages use up no attempts.
OwnersUseNoAttempts ==
  [][\A h \in Handlers : asOwner[h] => pc'[h] # "fail"]_vars

-----------------------------------------------------------------------------
(* The inductive invariant behind the proofs in AccessProofs.               *)

\* A miss of the window is counted, or its handler is about to count it; once
\* the limit is counted, the lock lasts longer than the window.
CountsOK ==
  \A u \in Users : InWindow(u) =>
    LET e == entries[u] IN
    IF e.count < MaxAttempts THEN missed[u] <= e.count + Uncounted(u)
                             ELSE e.lock + e.age >= LockTime

\* The files name only owners the configuration has, and whoever a handler is
\* making an owner of in the table is in a file already.
FilesOK ==
  /\ file \cup ownersFile \subseteq owners
  /\ \A h \in Handlers : pc[h] \in {"get", "create", "update", "record"} =>
                          who[h] \in file \cup ownersFile

IInv == TypeOK /\ GuessesBounded /\ RoleKept /\ GrantDurable /\ CountsOK /\ FilesOK
=============================================================================
