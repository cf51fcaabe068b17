---------------------------- MODULE AccessProofs ----------------------------
(***************************************************************************)
(* Proofs about Access, for every set of users and of handlers at once,    *)
(* every limit, window and lock: its types, the bound on the guesses, the  *)
(* roles that stay, and the owners that outlive the database.              *)
(***************************************************************************)
EXTENDS Access, FiniteSetTheorems, TLAPS

\* The steps of the specification, by name.
LEMMA StepCases ==
  ASSUME [Next]_vars
  PROVE  \/ \E h \in Handlers, u \in Users, k \in Kinds : Arrive(h, u, k)
         \/ \E h \in Handlers :
              \/ Ensure(h) \/ Insert(h) \/ TouchUser(h) \/ RegisterFails(h)
              \/ NotCompared(h) \/ Compare(h) \/ CountMiss(h) \/ Reset(h)
              \/ AddOwner(h) \/ AddOwnerFails(h)
         \/ \E u \in Users, r \in Roles : SetUserRole(u, r)
         \/ \E a \in Agents : \/ GetRole(a) \/ Create(a) \/ UpdateRole(a)
                              \/ Record(a) \/ SetRoleFails(a)
         \/ \E u \in Users : Silence(u)
         \/ Tick \/ Collect \/ UpdateConfig \/ Purge \/ Restart \/ UNCHANGED vars
BY DEF Next, Handle, SetRole

-----------------------------------------------------------------------------
(* Types.                                                                   *)

\* What Finish does to the request keeps the types.
LEMMA FinishType ==
  ASSUME TypeOK, NEW a \in Agents, Finish(a)
  PROVE  /\ pc' \in [Agents -> Places] /\ who' \in [Agents -> Users \cup {Nobody}]
         /\ pc'[Panel] \in {"idle", "get", "create", "update", "record"}
         /\ \A b \in Agents : pc'[b] # "idle" => who'[b] \in Users
         /\ asOwner' \in [Handlers -> BOOLEAN] /\ kind' \in [Handlers -> Kinds]
         /\ want' \in Roles \cup {NoRole} /\ (pc'[Panel] # "idle" => want' \in Roles)
BY DEF TypeOK, Finish, Goto, Answered, Agents, Places, Kinds

\* Going to another place keeps the types, if the agent has a user in hand.
LEMMA GotoType ==
  ASSUME TypeOK, NEW a \in Agents, pc[a] # "idle", NEW p \in Places, Goto(a, p),
         a = Panel => p \in {"idle", "get", "create", "update", "record"},
         UNCHANGED <<who, want>>
  PROVE  /\ pc' \in [Agents -> Places] /\ who' \in [Agents -> Users \cup {Nobody}]
         /\ pc'[Panel] \in {"idle", "get", "create", "update", "record"}
         /\ \A b \in Agents : pc'[b] # "idle" => who'[b] \in Users
         /\ pc'[Panel] # "idle" => want' \in Roles
BY DEF TypeOK, Goto, Agents

\* Registering keeps the types of the table.
LEMMA UpsertType ==
  ASSUME TypeOK, NEW u \in Users, UpsertUser(u)
  PROVE  /\ DOMAIN users' \subseteq Users /\ \A v \in DOMAIN users' : users'[v] \in Roles
         /\ recent' \subseteq Users /\ recorded' \subseteq Users
BY DEF TypeOK, UpsertUser, UpsertedRole, Written, RoleOf, Roles

\* The new entries of the limiter are entries.
LEMMA EntryType ==
  /\ FirstMiss \in Entry
  /\ \A e \in Entry : /\ e.count \in 1..MaxAttempts /\ e.age \in 0..(Window + 1)
                      /\ e.lock \in 0..LockTime
                      /\ NextCount(e) \in 1..MaxAttempts
<1>. USE AccessAssumption
<1>1. FirstMiss \in Entry
  BY DEF FirstMiss, Entry
<1>2. ASSUME NEW e \in Entry
      PROVE  /\ e.count \in 1..MaxAttempts /\ e.age \in 0..(Window + 1)
             /\ e.lock \in 0..LockTime /\ NextCount(e) \in 1..MaxAttempts
  BY DEF Entry, NextCount, Least
<1>. QED BY <1>1, <1>2

\* Among the handlers are no more who wait to count a miss than there are.
LEMMA UncountedType ==
  ASSUME NEW u
  PROVE  /\ IsFiniteSet(Missers(u)) /\ Uncounted(u) \in Nat
         /\ Uncounted(u) <= Cardinality(Handlers) /\ Cardinality(Handlers) \in Nat
<1>1. Missers(u) \in SUBSET Handlers
  BY DEF Missers
<1>. QED BY <1>1, AccessAssumption, FS_Subset, FS_CardinalityType DEF Uncounted

\* Every variable keeps its type on every step.
LEMMA TypeStep == TypeOK /\ [Next]_vars => TypeOK'
<1>. SUFFICES ASSUME TypeOK, [Next]_vars PROVE TypeOK'
  OBVIOUS
<1>. USE AccessAssumption DEF table, config, limiter, request, grants
<1>1. ASSUME NEW h \in Handlers, NEW u \in Users, NEW k \in Kinds, Arrive(h, u, k)
      PROVE  TypeOK'
  BY <1>1 DEF TypeOK, Arrive, Goto, Agents, Places
<1>2. ASSUME NEW h \in Handlers PROVE h \in Agents /\ h # Panel
  BY DEF Agents
<1>3. ASSUME NEW h \in Handlers, Ensure(h) \/ TouchUser(h) \/ RegisterFails(h)
      PROVE  TypeOK'
  <2>1. h \in Agents /\ h # Panel /\ pc[h] # "idle"
    BY <1>2, <1>3 DEF Ensure, TouchUser, RegisterFails
  <2>2. \E p \in Places : Goto(h, p) /\ UNCHANGED <<who, want>>
    BY <1>3 DEF Ensure, TouchUser, RegisterFails, Places
  <2>. QED BY <2>1, <2>2, GotoType, <1>3 DEF TypeOK, Ensure, TouchUser, RegisterFails
<1>4. ASSUME NEW h \in Handlers, Insert(h) PROVE TypeOK'
  <2>1. h \in Agents /\ h # Panel /\ pc[h] # "idle" /\ who[h] \in Users
    BY <1>2, <1>4 DEF TypeOK, Insert
  <2>. QED BY <2>1, GotoType, UpsertType, <1>4 DEF TypeOK, Insert, Places
<1>5. ASSUME NEW h \in Handlers, NotCompared(h) PROVE TypeOK'
  BY <1>2, <1>5, FinishType DEF TypeOK, NotCompared
<1>6. ASSUME NEW h \in Handlers, Compare(h) PROVE TypeOK'
  <2>1. h \in Agents /\ h # Panel /\ pc[h] # "idle" /\ who[h] \in Users
    BY <1>2, <1>6 DEF TypeOK, Compare
  <2>2. /\ pc' \in [Agents -> Places] /\ who' \in [Agents -> Users \cup {Nobody}]
        /\ pc'[Panel] \in {"idle", "get", "create", "update", "record"}
        /\ \A b \in Agents : pc'[b] # "idle" => who'[b] \in Users
        /\ pc'[Panel] # "idle" => want' \in Roles
    BY <2>1, <1>6, GotoType DEF Compare, Places
  <2>3. missed' \in [Users -> Nat]
    BY <2>1, <1>6, UncountedType DEF TypeOK, Compare
  <2>. QED BY <2>2, <2>3, <1>6 DEF TypeOK, Compare, Answered, Kinds
<1>7. ASSUME NEW h \in Handlers, CountMiss(h) PROVE TypeOK'
  <2>. DEFINE u == who[h]
              n == NextCount(entries[u])
  <2>1. h \in Agents /\ u \in Users
    BY <1>2, <1>7 DEF TypeOK, CountMiss
  <2>2. missed' \in [Users -> Nat]
    BY <2>1, <1>7, UncountedType DEF TypeOK, CountMiss
  <2>3. DOMAIN entries' \subseteq Users /\ \A v \in DOMAIN entries' : entries'[v] \in Entry
    <3>1. CASE InWindow(u)
      <4>1. u \in DOMAIN entries /\ entries[u] \in Entry /\ n \in 1..MaxAttempts
        BY <3>1, EntryType DEF TypeOK, InWindow
      <4>2. entries' = [entries EXCEPT ![u].count = n,
                          ![u].lock = IF n >= MaxAttempts THEN LockTime ELSE @]
        BY <3>1, <1>7 DEF CountMiss
      <4>. QED BY <4>1, <4>2 DEF TypeOK, Entry
    <3>2. CASE ~InWindow(u)
      <4>1. entries' = Written(entries, {u}, FirstMiss)
        BY <3>2, <1>7 DEF CountMiss
      <4>. QED BY <4>1, <2>1, EntryType DEF TypeOK, Written
    <3>. QED BY <3>1, <3>2
  <2>. QED BY <2>1, <2>2, <2>3, <1>7, FinishType DEF TypeOK, CountMiss
<1>8. ASSUME NEW h \in Handlers, Reset(h) PROVE TypeOK'
  <2>1. h \in Agents /\ h # Panel /\ pc[h] # "idle" /\ who[h] \in Users
    BY <1>2, <1>8 DEF TypeOK, Reset
  <2>2. missed' \in [Users -> Nat]
    BY <2>1, <1>8, UncountedType DEF TypeOK, Reset
  <2>. QED BY <2>1, <2>2, <1>8, GotoType DEF TypeOK, Reset, Without, Places
<1>9. ASSUME NEW h \in Handlers, AddOwner(h) PROVE TypeOK'
  <2>1. h \in Agents /\ h # Panel /\ pc[h] # "idle" /\ who[h] \in Users
    BY <1>2, <1>9 DEF TypeOK, AddOwner
  <2>. QED BY <2>1, <1>9, GotoType DEF TypeOK, AddOwner, Places
<1>10. ASSUME NEW h \in Handlers, AddOwnerFails(h) PROVE TypeOK'
  <2>1. h \in Agents /\ who[h] \in Users
    BY <1>2, <1>10 DEF TypeOK, AddOwnerFails
  <2>. QED BY <2>1, <1>10, FinishType DEF TypeOK, AddOwnerFails
<1>11. ASSUME NEW u \in Users, NEW r \in Roles, SetUserRole(u, r) PROVE TypeOK'
  BY <1>11 DEF TypeOK, SetUserRole, Goto, Agents, Places
<1>12. ASSUME NEW a \in Agents, pc[a] \in {"get", "create", "update", "record"}
       PROVE  who[a] \in Users
  BY <1>12 DEF TypeOK
<1>13. ASSUME NEW a \in Agents, GetRole(a) PROVE TypeOK'
  <2>1. who[a] \in Users /\ pc[a] # "idle"
    BY <1>12, <1>13 DEF GetRole
  <2>2. CASE Finish(a) /\ Tell(a)
    BY <2>1, <2>2, <1>13, FinishType DEF TypeOK, GetRole, Tell
  <2>3. CASE Goto(a, IF who[a] \in DOMAIN users THEN "update" ELSE "create")
             /\ UNCHANGED <<request, told>>
    BY <2>1, <2>3, <1>13, GotoType DEF TypeOK, GetRole, Places
  <2>. QED BY <2>2, <2>3, <1>13 DEF GetRole
<1>14. ASSUME NEW a \in Agents, Create(a) PROVE TypeOK'
  <2>1. who[a] \in Users /\ pc[a] # "idle"
    BY <1>12, <1>14 DEF Create
  <2>. QED BY <2>1, <1>14, GotoType, UpsertType DEF TypeOK, Create, Places
<1>15. ASSUME NEW a \in Agents, UpdateRole(a) PROVE TypeOK'
  <2>1. who[a] \in Users /\ pc[a] # "idle" /\ Goto(a, "record") /\ UNCHANGED <<who, want>>
    BY <1>12, <1>15 DEF UpdateRole
  <2>2. /\ pc' \in [Agents -> Places] /\ who' \in [Agents -> Users \cup {Nobody}]
        /\ pc'[Panel] \in {"idle", "get", "create", "update", "record"}
        /\ \A b \in Agents : pc'[b] # "idle" => who'[b] \in Users
        /\ pc'[Panel] # "idle" => want' \in Roles
    BY <2>1, GotoType DEF Places
  <2>3. Wanted(a) \in Roles
    BY <1>15 DEF TypeOK, UpdateRole, Wanted, Roles
  <2>. QED BY <2>1, <2>2, <2>3, <1>15 DEF TypeOK, UpdateRole
<1>16. ASSUME NEW a \in Agents, Record(a) PROVE TypeOK'
  <2>1. who[a] \in Users
    BY <1>12, <1>16 DEF Record
  <2>. QED BY <2>1, <1>16, FinishType DEF TypeOK, Record, Tell
<1>17. ASSUME NEW a \in Agents, SetRoleFails(a) PROVE TypeOK'
  BY <1>17, FinishType DEF TypeOK, SetRoleFails
<1>18. CASE Tick
  <2>1. ASSUME NEW u \in DOMAIN entries
        PROVE  [entries[u] EXCEPT !.age = Least(@ + 1, Window + 1),
                                  !.lock = IF @ = 0 THEN 0 ELSE @ - 1] \in Entry
    <3>1. /\ entries[u] \in Entry /\ entries[u].age \in 0..(Window + 1)
          /\ entries[u].lock \in 0..LockTime
      BY EntryType DEF TypeOK
    <3>2. /\ Least(entries[u].age + 1, Window + 1) \in 0..(Window + 1)
          /\ (IF entries[u].lock = 0 THEN 0 ELSE entries[u].lock - 1) \in 0..LockTime
      BY <3>1 DEF Least
    <3>. QED BY <3>1, <3>2 DEF Entry
  <2>. QED BY <2>1, <1>18 DEF TypeOK, Tick
<1>19. CASE Collect
  BY <1>19 DEF TypeOK, Collect, Without
<1>20. ASSUME NEW u \in Users, Silence(u) PROVE TypeOK'
  BY <1>20 DEF TypeOK, Silence
<1>21. CASE UpdateConfig
  BY <1>21 DEF TypeOK, UpdateConfig
<1>22. CASE Purge
  BY <1>22 DEF TypeOK, Purge, Without
<1>23. CASE Restart
  <2>1. PICK imported \in SUBSET {u \in file \cup ownersFile : RoleOf(u) # "owner"} :
          /\ users' = Written(users, imported, "owner")
          /\ recorded' = recorded \cup imported
          /\ recent' = recent \cup (imported \ DOMAIN users)
          /\ given' = Written(given, imported, "owner")
          /\ via' = Written(via, imported, "import")
    BY <1>23 DEF Restart
  <2>2. imported \subseteq Users
    BY <2>1 DEF TypeOK
  <2>3. /\ DOMAIN users' \subseteq Users /\ \A u \in DOMAIN users' : users'[u] \in Roles
        /\ recorded' \subseteq Users /\ recent' \subseteq Users
        /\ given' \in [Users -> Roles \cup {NoRole}]
        /\ via' \in [Users -> {"none", "passcode", "panel", "import"}]
    BY <2>1, <2>2 DEF TypeOK, Written, Roles
  <2>. QED BY <2>3, <1>23 DEF TypeOK, Restart, Agents, Places, Kinds
<1>24. CASE UNCHANGED vars
  BY <1>24 DEF TypeOK, vars
<1>. QED BY StepCases, <1>1, <1>3, <1>4, <1>5, <1>6, <1>7, <1>8, <1>9, <1>10, <1>11,
            <1>13, <1>14, <1>15, <1>16, <1>17, <1>18, <1>19, <1>20, <1>21, <1>22,
            <1>23, <1>24

\* The initial state has the types.
LEMMA TypeInit == Init => TypeOK
BY AccessAssumption DEF Init, TypeOK, Agents, Places, Kinds

\* Every variable always has its type: the panel's request only ever sets a
\* role, and every request that is under way has a user in hand.
THEOREM TypeCorrect == Spec => []TypeOK
<1>. QED BY TypeInit, TypeStep, PTL DEF Spec

-----------------------------------------------------------------------------
(* The limit on guesses.                                                    *)

\* A step after which the same handlers have the same misses to count, of
\* which the limiter has noted nothing.
Uncontested ==
  /\ UNCHANGED limiter
  /\ \A h \in Handlers : pc[h] = "fail" \/ pc'[h] = "fail" =>
                           pc'[h] = pc[h] /\ who'[h] = who[h]

LEMMA SameMissers ==
  ASSUME \A h \in Handlers : pc[h] = "fail" \/ pc'[h] = "fail" =>
                               pc'[h] = pc[h] /\ who'[h] = who[h]
  PROVE  \A u : Missers(u)' = Missers(u) /\ Uncounted(u)' = Uncounted(u)
BY DEF Missers, Uncounted

\* Most steps are such steps.
LEMMA UncontestedSteps ==
  ASSUME TypeOK, [Next]_vars,
         ~ \E h \in Handlers : Compare(h) \/ CountMiss(h) \/ Reset(h),
         ~ (Tick \/ Collect \/ Restart)
  PROVE  Uncontested
<1>. USE AccessAssumption DEF limiter, Uncontested
<1>1. ASSUME NEW a \in Agents, pc[a] # "fail", Finish(a) PROVE
        \A h \in Handlers : pc[h] = "fail" \/ pc'[h] = "fail" =>
                              pc'[h] = pc[h] /\ who'[h] = who[h]
  BY <1>1 DEF TypeOK, Finish, Goto, Agents
<1>2. ASSUME NEW a \in Agents, pc[a] # "fail", NEW p, p # "fail", Goto(a, p),
             UNCHANGED who
      PROVE \A h \in Handlers : pc[h] = "fail" \/ pc'[h] = "fail" =>
                                  pc'[h] = pc[h] /\ who'[h] = who[h]
  BY <1>2 DEF TypeOK, Goto, Agents
<1>3. ASSUME NEW h \in Handlers, NEW u \in Users, NEW k \in Kinds, Arrive(h, u, k)
      PROVE  Uncontested
  BY <1>3 DEF TypeOK, Arrive, Goto, Agents
<1>4. ASSUME NEW h \in Handlers, NotCompared(h) \/ AddOwnerFails(h)
      PROVE  Uncontested
  BY <1>4, <1>1 DEF NotCompared, AddOwnerFails, Agents
<1>5. ASSUME NEW h \in Handlers,
             Ensure(h) \/ Insert(h) \/ TouchUser(h) \/ RegisterFails(h) \/ AddOwner(h)
      PROVE  Uncontested
  <2>1. h \in Agents /\ pc[h] # "fail"
    BY <1>5 DEF Ensure, Insert, TouchUser, RegisterFails, AddOwner, Agents
  <2>2. UNCHANGED <<who, limiter>> /\ \E p \in Places \ {"fail"} : Goto(h, p)
    BY <1>5 DEF Ensure, Insert, TouchUser, RegisterFails, AddOwner, request, Places
  <2>. QED BY <2>1, <2>2, <1>2
<1>6. ASSUME NEW u \in Users, NEW r \in Roles, SetUserRole(u, r) PROVE Uncontested
  BY <1>6 DEF TypeOK, SetUserRole, Goto, Agents
<1>7. ASSUME NEW a \in Agents,
             GetRole(a) \/ Create(a) \/ UpdateRole(a) \/ Record(a) \/ SetRoleFails(a)
      PROVE  Uncontested
  <2>1. pc[a] # "fail" /\ UNCHANGED limiter
    BY <1>7 DEF GetRole, Create, UpdateRole, Record, SetRoleFails
  <2>2. Finish(a) \/ (UNCHANGED who /\ \E p \in Places \ {"fail"} : Goto(a, p))
    BY <1>7 DEF GetRole, Create, UpdateRole, Record, SetRoleFails, request, Places
  <2>. QED BY <2>1, <2>2, <1>1, <1>2
<1>8. ASSUME NEW u \in Users, Silence(u) PROVE Uncontested
  BY <1>8 DEF Silence, request
<1>9. CASE UpdateConfig \/ Purge \/ UNCHANGED vars
  BY <1>9 DEF UpdateConfig, Purge, vars, request
<1>. QED BY StepCases, <1>3, <1>4, <1>5, <1>6, <1>7, <1>8, <1>9

\* Whoever is compared is not locked, so that below the limit is counted.
LEMMA ComparedBelowLimit ==
  ASSUME TypeOK, CountsOK, NEW u \in Users, InWindow(u), Passes(u)
  PROVE  /\ entries[u].count \in 1..(MaxAttempts - 1)
         /\ missed[u] <= entries[u].count + Uncounted(u)
<1>1. /\ entries[u].count \in 1..MaxAttempts /\ entries[u].age \in 0..Window
      /\ entries[u].lock = 0
  BY EntryType, AccessAssumption DEF TypeOK, InWindow, Passes, Locked
<1>2. entries[u].lock + entries[u].age < LockTime
  BY <1>1, AccessAssumption
<1>. QED BY <1>1, <1>2, AccessAssumption DEF CountsOK

\* The handler that compares was none of those who wait to count, and is one.
LEMMA CompareMisses ==
  ASSUME TypeOK, NEW h \in Handlers, Compare(h), kind[h] # "passcode",
         NEW u \in Users, who[h] = u
  PROVE  /\ Uncounted(u)' = Uncounted(u) + 1
         /\ Uncounted(u) + 1 <= Cardinality(Handlers)
         /\ \A v \in Users \ {u} : Uncounted(v)' = Uncounted(v)
<1>1. pc[h] = "allow" /\ pc' = [pc EXCEPT ![h] = "fail"] /\ who' = who /\ h \in Agents
  BY DEF Compare, Goto, Agents
<1>2. /\ Missers(u)' = Missers(u) \cup {h} /\ h \notin Missers(u)
      /\ \A v \in Users \ {u} : Missers(v)' = Missers(v)
  BY <1>1 DEF TypeOK, Missers, Agents
<1>3. Cardinality(Missers(u) \cup {h}) = Cardinality(Missers(u)) + 1
  BY <1>2, UncountedType, FS_AddElement
<1>4. Cardinality(Missers(u) \cup {h}) <= Cardinality(Handlers)
  <2>1. Missers(u) \cup {h} \in SUBSET Handlers
    BY DEF Missers
  <2>. QED BY <2>1, FS_Subset, AccessAssumption
<1>5. Uncounted(u)' = Cardinality(Missers(u)') /\ Uncounted(u) = Cardinality(Missers(u))
  BY DEF Uncounted
<1>6. \A v \in Users \ {u} : Uncounted(v)' = Uncounted(v)
  BY <1>2 DEF Uncounted
<1>. QED BY <1>2, <1>3, <1>4, <1>5, <1>6

\* The handler that counts was one of those who wait to count, and is none.
LEMMA CountsOne ==
  ASSUME TypeOK, NEW h \in Handlers, CountMiss(h), NEW u \in Users, who[h] = u
  PROVE  /\ Uncounted(u)' = Uncounted(u) - 1
         /\ \A v \in Users \ {u} : Uncounted(v)' = Uncounted(v)
<1>1. /\ pc[h] = "fail" /\ h \in Agents
      /\ pc' = [pc EXCEPT ![h] = "idle"] /\ who' = [who EXCEPT ![h] = Nobody]
  BY DEF CountMiss, Finish, Goto, Agents
<1>2. /\ Missers(u)' = Missers(u) \ {h} /\ h \in Missers(u)
      /\ \A v \in Users \ {u} : Missers(v)' = Missers(v)
  BY <1>1, AccessAssumption DEF TypeOK, Missers, Agents
<1>3. Cardinality(Missers(u) \ {h}) = Uncounted(u) - 1
  BY <1>2, UncountedType, FS_RemoveElement DEF Uncounted
<1>4. \A v \in Users \ {u} : Uncounted(v)' = Uncounted(v)
  BY <1>2 DEF Uncounted
<1>. QED BY <1>2, <1>3, <1>4 DEF Uncounted

\* No step compares more wrong passcodes than the bound.
LEMMA GuessesStep == TypeOK /\ CountsOK /\ GuessesBounded /\ [Next]_vars => GuessesBounded'
<1>. SUFFICES ASSUME TypeOK, CountsOK, GuessesBounded, [Next]_vars
              PROVE  \A v \in Users : missed'[v] <= MaxAttempts - 1 + Cardinality(Handlers)
  BY DEF GuessesBounded
<1>1. /\ Cardinality(Handlers) \in Nat /\ MaxAttempts \in Nat /\ MaxAttempts >= 2
      /\ \A v : Uncounted(v) \in Nat /\ Uncounted(v) <= Cardinality(Handlers)
      /\ \A v \in Users : missed[v] \in Nat /\ missed[v] <= MaxAttempts - 1 + Cardinality(Handlers)
  BY UncountedType, AccessAssumption DEF GuessesBounded, TypeOK
<1>2. CASE UNCHANGED missed
  BY <1>1, <1>2
<1>3. ASSUME NEW h \in Handlers, Compare(h), kind[h] # "passcode"
      PROVE  \A v \in Users : missed'[v] <= MaxAttempts - 1 + Cardinality(Handlers)
  <2>. DEFINE u == who[h]
  <2>1. u \in Users /\ Passes(u)
    BY <1>3 DEF TypeOK, Compare, Agents
  <2>2. Uncounted(u) + 1 <= Cardinality(Handlers)
    BY <1>3, <2>1, CompareMisses
  <2>3. CASE InWindow(u)
    <3>1. /\ entries[u].count \in 1..(MaxAttempts - 1)
          /\ missed[u] <= entries[u].count + Uncounted(u)
      BY <2>1, <2>3, ComparedBelowLimit
    <3>2. missed' = [missed EXCEPT ![u] = 1 + missed[u]]
      BY <1>3, <2>3 DEF Compare
    <3>. QED BY <3>1, <3>2, <2>1, <2>2, <1>1 DEF TypeOK
  <2>4. CASE ~InWindow(u)
    <3>1. missed' = [missed EXCEPT ![u] = 1 + Uncounted(u)]
      BY <1>3, <2>4 DEF Compare
    <3>. QED BY <3>1, <2>1, <2>2, <1>1 DEF TypeOK
  <2>. QED BY <2>3, <2>4
<1>4. ASSUME NEW h \in Handlers, CountMiss(h) \/ Reset(h)
      PROVE  \A v \in Users : missed'[v] <= MaxAttempts - 1 + Cardinality(Handlers)
  <2>1. missed' = missed \/ missed' = [missed EXCEPT ![who[h]] = Uncounted(who[h])]
    BY <1>4 DEF CountMiss, Reset
  <2>. QED BY <2>1, <1>1 DEF TypeOK
<1>5. CASE Restart
  BY <1>5, <1>1 DEF Restart
<1>6. CASE Tick \/ Collect
  BY <1>2, <1>6 DEF Tick, Collect
<1>7. ASSUME NEW h \in Handlers, Compare(h), kind[h] = "passcode" PROVE UNCHANGED missed
  BY <1>7 DEF Compare
<1>8. CASE Uncontested
  BY <1>2, <1>8 DEF Uncontested, limiter
<1>. QED BY <1>2, <1>3, <1>4, <1>5, <1>6, <1>7, <1>8, UncontestedSteps

\* No step loses a miss: it is counted, or its handler is about to count it.
LEMMA CountsStep == TypeOK /\ CountsOK /\ [Next]_vars => CountsOK'
<1>. DEFINE Good(v) == entries[v].count < MaxAttempts => missed[v] <= entries[v].count + Uncounted(v)
            Held(v) == entries[v].count >= MaxAttempts => entries[v].lock + entries[v].age >= LockTime
<1>. SUFFICES ASSUME TypeOK, CountsOK, [Next]_vars PROVE CountsOK'
  OBVIOUS
<1>. SUFFICES ASSUME NEW v \in Users, InWindow(v)'
              PROVE  Good(v)' /\ Held(v)'
  <2>1. ASSUME NEW u \in Users, InWindow(u)', Good(u)' /\ Held(u)'
        PROVE  IF entries'[u].count < MaxAttempts
                 THEN missed'[u] <= entries'[u].count + Uncounted(u)'
                 ELSE entries'[u].lock + entries'[u].age >= LockTime
    <3>1. TypeOK'
      BY TypeStep
    <3>2. entries'[u] \in Entry
      BY <2>1, <3>1 DEF TypeOK, InWindow
    <3>3. entries'[u].count \in Int
      BY <3>2, EntryType, AccessAssumption
    <3>. QED BY <2>1, <3>3, AccessAssumption
  <2>. QED BY <2>1 DEF CountsOK
<1>1. ASSUME InWindow(v) PROVE Good(v) /\ Held(v)
  <2>1. entries[v].count \in Int
    BY <1>1, EntryType, AccessAssumption DEF TypeOK, InWindow
  <2>. QED BY <1>1, <2>1, AccessAssumption DEF CountsOK
<1>2. ASSUME UNCHANGED <<missed, entries>>, Uncounted(v)' = Uncounted(v)
      PROVE  Good(v)' /\ Held(v)'
  BY <1>1, <1>2 DEF InWindow
<1>3. ASSUME NEW h \in Handlers, Compare(h) PROVE Good(v)' /\ Held(v)'
  <2>. DEFINE u == who[h]
  <2>1. u \in Users /\ UNCHANGED entries
    BY <1>3 DEF TypeOK, Compare, Agents
  <2>2. CASE kind[h] = "passcode"
    <3>1. UNCHANGED missed /\ Goto(h, "reset") /\ who' = who /\ pc[h] = "allow"
      BY <2>2, <1>3 DEF Compare
    <3>2. Uncounted(v)' = Uncounted(v)
      BY <3>1, SameMissers DEF TypeOK, Goto, Agents
    <3>. QED BY <3>1, <3>2, <2>1, <1>2
  <2>3. CASE kind[h] # "passcode" /\ v # u
    <3>1. Uncounted(v)' = Uncounted(v)
      BY <2>1, <2>3, <1>3, CompareMisses
    <3>2. missed'[v] = missed[v]
      BY <2>1, <2>3, <1>3 DEF Compare, TypeOK
    <3>. QED BY <3>1, <3>2, <2>1, <1>1 DEF InWindow
  <2>4. CASE kind[h] # "passcode" /\ v = u
    <3>1. Uncounted(v)' = Uncounted(v) + 1 /\ Uncounted(v) \in Nat
      BY <2>4, <1>3, CompareMisses, UncountedType
    <3>2. InWindow(v) /\ missed'[v] = 1 + missed[v]
      BY <2>1, <2>4, <1>3 DEF Compare, TypeOK, InWindow
    <3>3. missed[v] \in Nat /\ entries[v].count \in Nat
      BY <3>2, EntryType, AccessAssumption DEF TypeOK, InWindow
    <3>. QED BY <3>1, <3>2, <3>3, <2>1, <1>1
  <2>. QED BY <2>2, <2>3, <2>4
<1>4. ASSUME NEW h \in Handlers, CountMiss(h) PROVE Good(v)' /\ Held(v)'
  <2>. DEFINE u == who[h]
              n == NextCount(entries[u])
  <2>1. u \in Users
    BY <1>4 DEF TypeOK, CountMiss, Agents
  <2>2. CASE v # u
    <3>1. Uncounted(v)' = Uncounted(v)
      BY <2>1, <2>2, <1>4, CountsOne
    <3>2. missed'[v] = missed[v]
      BY <2>1, <2>2, <1>4 DEF CountMiss, TypeOK
    <3>3. (v \in DOMAIN entries <=> v \in DOMAIN entries') /\ (v \in DOMAIN entries => entries'[v] = entries[v])
      BY <2>2, <1>4 DEF CountMiss, Written
    <3>. QED BY <3>1, <3>2, <3>3, <1>1 DEF InWindow
  <2>3. CASE v = u /\ InWindow(u)
    <3>1. Uncounted(v)' = Uncounted(v) - 1 /\ Uncounted(v) \in Nat
      BY <2>3, <1>4, CountsOne, UncountedType
    <3>2. /\ missed' = missed
          /\ entries' = [entries EXCEPT ![u].count = n,
                                        ![u].lock = IF n >= MaxAttempts THEN LockTime ELSE @]
      BY <2>3, <1>4 DEF CountMiss
    <3>3. /\ entries[v] \in Entry /\ v \in DOMAIN entries
          /\ entries[v].count \in 1..MaxAttempts /\ entries[v].age \in Nat
          /\ missed[v] \in Nat
      BY <2>3, EntryType, AccessAssumption DEF TypeOK, InWindow
    <3>4. /\ entries'[v].count = n /\ entries'[v].age = entries[v].age
          /\ entries'[v].lock = IF n >= MaxAttempts THEN LockTime ELSE entries[v].lock
      BY <2>3, <3>2, <3>3 DEF Entry
    <3>5. n = (IF entries[v].count < MaxAttempts THEN entries[v].count + 1 ELSE MaxAttempts)
      BY <2>3, <3>3, AccessAssumption DEF NextCount, Least
    <3>6. Good(v)'
      BY <3>1, <3>2, <3>3, <3>4, <3>5, <2>3, <1>1, AccessAssumption
    <3>7. Held(v)'
      BY <3>3, <3>4, AccessAssumption
    <3>. QED BY <3>6, <3>7
  <2>4. CASE v = u /\ ~InWindow(u)
    <3>1. Uncounted(v)' = Uncounted(v) - 1 /\ Uncounted(v) \in Nat
      BY <2>4, <1>4, CountsOne, UncountedType
    <3>2. missed'[v] = Uncounted(v) /\ entries'[v] = FirstMiss
      BY <2>1, <2>4, <1>4 DEF CountMiss, Written, TypeOK
    <3>. QED BY <3>1, <3>2, AccessAssumption DEF FirstMiss
  <2>. QED BY <2>2, <2>3, <2>4
<1>5. ASSUME NEW h \in Handlers, Reset(h) PROVE Good(v)' /\ Held(v)'
  <2>1. who' = who /\ pc' = [pc EXCEPT ![h] = "add"] /\ pc[h] = "reset" /\ who[h] \in Users
    BY <1>5 DEF Reset, Goto, request, TypeOK, Agents
  <2>2. Uncounted(v)' = Uncounted(v)
    BY <2>1, SameMissers DEF TypeOK, Agents
  <2>3. v # who[h] /\ v \in DOMAIN entries /\ entries'[v] = entries[v] /\ missed'[v] = missed[v]
    BY <1>5, <2>1 DEF Reset, Without, InWindow, TypeOK
  <2>. QED BY <2>2, <2>3, <1>1 DEF InWindow
<1>6. CASE Tick
  <2>1. Uncounted(v)' = Uncounted(v) /\ missed' = missed
    BY <1>6, SameMissers DEF Tick, request
  <2>2. v \in DOMAIN entries /\ entries[v] \in Entry
    BY <1>6 DEF Tick, InWindow, TypeOK
  <2>3. /\ entries[v].count \in 1..MaxAttempts /\ entries[v].age \in 0..(Window + 1)
        /\ entries[v].lock \in 0..LockTime
    BY <2>2, EntryType
  <2>4. /\ entries'[v].count = entries[v].count
        /\ entries'[v].age = Least(entries[v].age + 1, Window + 1)
        /\ entries'[v].lock = IF entries[v].lock = 0 THEN 0 ELSE entries[v].lock - 1
    BY <1>6, <2>2 DEF Tick, Entry
  <2>5. entries'[v].age <= Window
    BY DEF InWindow
  <2>6. entries'[v].age = entries[v].age + 1 /\ entries[v].age < Window /\ InWindow(v)
    BY <2>2, <2>3, <2>4, <2>5, AccessAssumption DEF Least, InWindow
  <2>7. Held(v)'
    BY <2>3, <2>4, <2>6, <1>1, AccessAssumption
  <2>. QED BY <2>1, <2>4, <2>6, <2>7, <1>1
<1>7. CASE Collect
  <2>1. Uncounted(v)' = Uncounted(v) /\ missed' = missed
    BY <1>7, SameMissers DEF Collect, request
  <2>2. v \in DOMAIN entries /\ entries'[v] = entries[v]
    BY <1>7 DEF Collect, Without, InWindow
  <2>. QED BY <2>1, <2>2, <1>1 DEF InWindow
<1>8. CASE Restart
  BY <1>8 DEF Restart, InWindow
<1>9. CASE Uncontested
  BY <1>2, <1>9, SameMissers DEF Uncontested, limiter
<1>. QED BY <1>3, <1>4, <1>5, <1>6, <1>7, <1>8, <1>9, UncontestedSteps

-----------------------------------------------------------------------------
(* The roles that stay.                                                     *)

\* Neither registering nor the purge changes what a role is read as: an upsert
\* leaves the role of a row that is there, and only guests are purged.
LEMMA RolesStay ==
  /\ \A u : UpsertUser(u) => \A v : RoleOf(v)' = RoleOf(v)
  /\ Purge => \A v : RoleOf(v)' = RoleOf(v)
<1>1. ASSUME NEW u, UpsertUser(u), NEW v PROVE RoleOf(v)' = RoleOf(v)
  BY <1>1 DEF UpsertUser, UpsertedRole, Written, RoleOf
<1>2. ASSUME Purge, NEW v PROVE RoleOf(v)' = RoleOf(v)
  BY <1>2 DEF Purge, Purged, Without, RoleOf
<1>. QED BY <1>1, <1>2

\* UPDATE writes one role, and the history agrees with it.
LEMMA UpdateEffect ==
  ASSUME TypeOK, NEW a \in Agents, UpdateRole(a), NEW v \in Users
  PROVE  \/ /\ v = who[a] /\ RoleOf(v)' = Wanted(a) /\ given'[v] = Wanted(a)
            /\ via'[v] = IF a = Panel THEN "panel" ELSE "passcode"
         \/ RoleOf(v)' = RoleOf(v) /\ given'[v] = given[v] /\ via'[v] = via[v]
<1>1. who[a] \in Users
  BY DEF TypeOK, UpdateRole
<1>2. CASE who[a] \in DOMAIN users
  BY <1>1, <1>2 DEF TypeOK, UpdateRole, RoleOf
<1>3. CASE who[a] \notin DOMAIN users
  BY <1>3 DEF UpdateRole, RoleOf
<1>. QED BY <1>2, <1>3

\* The start makes owners of some whom the files name, and changes no one else.
LEMMA RestartEffect ==
  ASSUME TypeOK, Restart, NEW v \in Users
  PROVE  \/ /\ v \in file \cup ownersFile /\ RoleOf(v)' = "owner"
            /\ given'[v] = "owner"
         \/ RoleOf(v)' = RoleOf(v) /\ given'[v] = given[v] /\ via'[v] = via[v]
<1>1. PICK imported \in SUBSET {u \in file \cup ownersFile : RoleOf(u) # "owner"} :
        /\ users' = Written(users, imported, "owner")
        /\ given' = Written(given, imported, "owner")
        /\ via' = Written(via, imported, "import")
  BY DEF Restart
<1>2. CASE v \in imported
  <2>1. v \in file \cup ownersFile
    BY <1>1, <1>2
  <2>2. v \in DOMAIN users' /\ users'[v] = "owner" /\ given'[v] = "owner"
    BY <1>1, <1>2 DEF Written
  <2>. QED BY <2>1, <2>2 DEF RoleOf
<1>3. CASE v \notin imported
  BY <1>1, <1>3 DEF TypeOK, Restart, RoleOf, Written
<1>. QED BY <1>2, <1>3

\* Every other step leaves the roles, what was written last and by which path.
LEMMA OtherSteps ==
  ASSUME TypeOK, [Next]_vars, ~ (\E a \in Agents : UpdateRole(a)), ~Restart
  PROVE  /\ \A v : RoleOf(v)' = RoleOf(v)
         /\ given' = given /\ via' = via
<1>. DEFINE Good == (\A v : RoleOf(v)' = RoleOf(v)) /\ given' = given /\ via' = via
<1>. USE DEF table, grants
<1>1. ASSUME NEW h \in Handlers, NEW u \in Users, NEW k \in Kinds, Arrive(h, u, k)
      PROVE  Good
  BY <1>1 DEF Arrive, RoleOf
<1>2. ASSUME NEW h \in Handlers,
             \/ Ensure(h) \/ TouchUser(h) \/ RegisterFails(h) \/ NotCompared(h)
             \/ Compare(h) \/ CountMiss(h) \/ Reset(h) \/ AddOwner(h) \/ AddOwnerFails(h)
      PROVE  Good
  BY <1>2 DEF Ensure, TouchUser, RegisterFails, NotCompared, Compare, CountMiss, Reset,
              AddOwner, AddOwnerFails, RoleOf
<1>3. ASSUME NEW h \in Handlers, Insert(h) PROVE Good
  BY <1>3, RolesStay DEF Insert
<1>4. ASSUME NEW u \in Users, NEW r \in Roles, SetUserRole(u, r) PROVE Good
  BY <1>4 DEF SetUserRole, RoleOf
<1>5. ASSUME NEW a \in Agents, GetRole(a) \/ Record(a) PROVE Good
  BY <1>5 DEF GetRole, Record, RoleOf
<1>6. ASSUME NEW a \in Agents, Create(a) PROVE Good
  BY <1>6, RolesStay DEF Create
<1>8. ASSUME NEW a \in Agents, SetRoleFails(a) PROVE Good
  BY <1>8 DEF SetRoleFails, RoleOf
<1>9. ASSUME NEW u \in Users, Silence(u) PROVE Good
  BY <1>9 DEF Silence, RoleOf
<1>10. CASE Tick \/ Collect \/ UpdateConfig \/ UNCHANGED vars
  BY <1>10 DEF Tick, Collect, UpdateConfig, RoleOf, vars
<1>11. CASE Purge
  BY <1>11, RolesStay DEF Purge
<1>. QED BY StepCases, <1>1, <1>2, <1>3, <1>4, <1>5, <1>6, <1>8, <1>9, <1>10, <1>11

\* No step takes away a role that was written.
LEMMA RoleKeptStep == TypeOK /\ RoleKept /\ [Next]_vars => RoleKept'
<1>. SUFFICES ASSUME TypeOK, RoleKept, [Next]_vars PROVE RoleKept'
  OBVIOUS
<1>2. ASSUME NEW a \in Agents, UpdateRole(a) PROVE RoleKept'
  BY <1>2, UpdateEffect DEF RoleKept
<1>3. CASE Restart
  BY <1>3, RestartEffect DEF RoleKept
<1>4. CASE ~ (\E a \in Agents : UpdateRole(a)) /\ ~Restart
  BY <1>4, OtherSteps DEF RoleKept
<1>. QED BY <1>2, <1>3, <1>4

-----------------------------------------------------------------------------
(* The owners in the files.                                                 *)

Promoting == {"get", "create", "update", "record"}

\* A step that leaves the configuration alone and takes no handler to SetRole.
LEMMA FilesUntouched ==
  ASSUME FilesOK, UNCHANGED config,
         \A h \in Handlers : pc'[h] \in Promoting => pc[h] \in Promoting /\ who'[h] = who[h]
  PROVE  FilesOK'
BY DEF FilesOK, Promoting, config

\* No step loses an owner from both files, and whoever a handler is making an
\* owner of is in one: AddOwner comes before SetRole.
LEMMA FilesStep ==
  TypeOK /\ FilesOK /\ [Next]_vars
    => FilesOK' /\ file \cup ownersFile \subseteq file' \cup ownersFile'
<1>. SUFFICES ASSUME TypeOK, FilesOK, [Next]_vars
              PROVE  FilesOK' /\ file \cup ownersFile \subseteq file' \cup ownersFile'
  OBVIOUS
<1>. DEFINE Good == FilesOK' /\ file \cup ownersFile \subseteq file' \cup ownersFile'
<1>. USE DEF config
<1>1. ASSUME UNCHANGED config, NEW a \in Agents, a \in Handlers => pc[a] \in Promoting,
             Finish(a) \/ (UNCHANGED who /\ \E p \in Places : Goto(a, p))
      PROVE  Good
  BY <1>1, FilesUntouched DEF TypeOK, Finish, Goto, Agents, Promoting
<1>2. ASSUME UNCHANGED config, NEW a \in Agents, a \notin Handlers \/ pc[a] \notin Promoting,
             Finish(a) \/ (UNCHANGED who /\ \E p \in Places \ Promoting : Goto(a, p))
      PROVE  Good
  BY <1>2, FilesUntouched DEF TypeOK, Finish, Goto, Agents, Promoting
<1>3. ASSUME NEW h \in Handlers, NEW u \in Users, NEW k \in Kinds, Arrive(h, u, k)
      PROVE  Good
  <2>1. \A g \in Handlers : pc'[g] \in Promoting => pc[g] \in Promoting /\ who'[g] = who[g]
    BY <1>3 DEF TypeOK, Arrive, Goto, Agents, Promoting
  <2>. QED BY <2>1, <1>3, FilesUntouched DEF Arrive
<1>4. ASSUME NEW h \in Handlers,
             \/ Ensure(h) \/ Insert(h) \/ TouchUser(h) \/ RegisterFails(h)
             \/ NotCompared(h) \/ Compare(h) \/ CountMiss(h) \/ Reset(h)
      PROVE  Good
  <2>1. h \in Agents /\ pc[h] \notin Promoting /\ UNCHANGED config
    BY <1>4 DEF Ensure, Insert, TouchUser, RegisterFails, NotCompared, Compare,
                CountMiss, Reset, Agents, Promoting
  <2>2. Finish(h) \/ (UNCHANGED who /\ \E p \in Places \ Promoting : Goto(h, p))
    BY <1>4 DEF Ensure, Insert, TouchUser, RegisterFails, NotCompared, Compare,
                CountMiss, Reset, request, Places, Promoting
  <2>. QED BY <2>1, <2>2, <1>2
<1>5. ASSUME NEW h \in Handlers, AddOwner(h) PROVE Good
  <2>1. /\ h \in Agents /\ pc' = [pc EXCEPT ![h] = "get"] /\ who' = who
        /\ owners' = owners \cup {who[h]} /\ file' = owners'
        /\ ownersFile' = ownersFile \/ ownersFile' = owners'
    BY <1>5 DEF AddOwner, Goto, request, Agents
  <2>. QED BY <2>1 DEF FilesOK, TypeOK
<1>6. ASSUME NEW h \in Handlers, AddOwnerFails(h) PROVE Good
  <2>1. /\ h \in Agents /\ pc' = [pc EXCEPT ![h] = "idle"]
        /\ who' = [who EXCEPT ![h] = Nobody]
        /\ owners' = owners \cup {who[h]} /\ file' = file
        /\ ownersFile' = ownersFile \/ ownersFile' = owners'
    BY <1>6 DEF AddOwnerFails, Finish, Goto, Agents
  <2>. QED BY <2>1 DEF FilesOK, TypeOK
<1>7. ASSUME NEW u \in Users, NEW r \in Roles, SetUserRole(u, r) PROVE Good
  <2>1. \A g \in Handlers : pc'[g] = pc[g] /\ who'[g] = who[g]
    BY <1>7, AccessAssumption DEF TypeOK, SetUserRole, Goto, Agents
  <2>. QED BY <2>1, <1>7, FilesUntouched DEF SetUserRole
<1>8. ASSUME NEW a \in Agents,
             GetRole(a) \/ Create(a) \/ UpdateRole(a) \/ Record(a) \/ SetRoleFails(a)
      PROVE  Good
  <2>1. pc[a] \in Promoting /\ UNCHANGED config
    BY <1>8 DEF GetRole, Create, UpdateRole, Record, SetRoleFails, Promoting
  <2>2. Finish(a) \/ (UNCHANGED who /\ \E p \in Places : Goto(a, p))
    BY <1>8 DEF GetRole, Create, UpdateRole, Record, SetRoleFails, request, Places
  <2>. QED BY <2>1, <2>2, <1>1
<1>9. CASE UNCHANGED <<config, pc, who>>
  BY <1>9 DEF FilesOK
<1>10. ASSUME NEW u \in Users, Silence(u) PROVE Good
  BY <1>9, <1>10 DEF Silence, request
<1>11. CASE Tick \/ Collect \/ Purge \/ UNCHANGED vars
  BY <1>9, <1>11 DEF Tick, Collect, Purge, request, vars
<1>12. CASE UpdateConfig
  BY <1>12 DEF UpdateConfig, FilesOK, request
<1>13. CASE Restart
  BY <1>13 DEF Restart, FilesOK, Agents
<1>. QED BY StepCases, <1>3, <1>4, <1>5, <1>6, <1>7, <1>8, <1>10, <1>11, <1>12, <1>13

\* Only a handler in SetRole tells anybody that he is an owner.
LEMMA TellingSteps ==
  ASSUME TypeOK, [Next]_vars, NEW v \in told' \ told
  PROVE  \E h \in Handlers : pc[h] \in Promoting /\ who[h] = v
<1>1. ASSUME NEW a \in Agents, GetRole(a) \/ Record(a)
      PROVE  \E h \in Handlers : pc[h] \in Promoting /\ who[h] = v
  <2>1. pc[a] \in Promoting /\ Tell(a)
    BY <1>1 DEF GetRole, Record, Promoting
  <2>. QED BY <2>1 DEF Tell
<1>2. CASE ~ \E a \in Agents : GetRole(a) \/ Record(a)
  <2>. USE DEF grants
  <2>1. ASSUME NEW h \in Handlers,
               \/ \E u \in Users, k \in Kinds : Arrive(h, u, k)
               \/ Ensure(h) \/ Insert(h) \/ TouchUser(h) \/ RegisterFails(h) \/ NotCompared(h)
               \/ Compare(h) \/ CountMiss(h) \/ Reset(h) \/ AddOwner(h) \/ AddOwnerFails(h)
        PROVE  told' = told
    BY <2>1 DEF Arrive, Ensure, Insert, TouchUser, RegisterFails, NotCompared, Compare,
                CountMiss, Reset, AddOwner, AddOwnerFails
  <2>2. ASSUME NEW a \in Agents, Create(a) \/ UpdateRole(a) \/ SetRoleFails(a)
        PROVE  told' = told
    BY <2>2 DEF Create, UpdateRole, SetRoleFails
  <2>3. ASSUME NEW u \in Users, Silence(u) \/ \E r \in Roles : SetUserRole(u, r)
        PROVE  told' = told
    BY <2>3 DEF Silence, SetUserRole
  <2>4. CASE Tick \/ Collect \/ UpdateConfig \/ Purge \/ Restart \/ UNCHANGED vars
    BY <2>4 DEF Tick, Collect, UpdateConfig, Purge, Restart, vars
  <2>. QED BY StepCases, <1>2, <2>1, <2>2, <2>3, <2>4
<1>. QED BY <1>1, <1>2

\* No step makes an owner by passcode, or tells anybody that he is one, whom no
\* file names, and none forgets one.
LEMMA GrantStep == TypeOK /\ FilesOK /\ GrantDurable /\ [Next]_vars => GrantDurable'
<1>. SUFFICES ASSUME TypeOK, FilesOK, GrantDurable, [Next]_vars, NEW v \in Users,
                     v \in told' \/ (RoleOf(v)' = "owner" /\ via'[v] \in {"passcode", "import"})
              PROVE  v \in file' \cup ownersFile'
  BY DEF GrantDurable
<1>1. file \cup ownersFile \subseteq file' \cup ownersFile'
  BY FilesStep
<1>2. CASE v \in file \cup ownersFile
  BY <1>1, <1>2
<1>3. CASE v \in told'
  <2>1. CASE v \in told
    BY <2>1, <1>2 DEF GrantDurable
  <2>2. CASE v \notin told
    BY <2>2, <1>2, <1>3, TellingSteps DEF FilesOK, Promoting
  <2>. QED BY <2>1, <2>2
<1>4. CASE RoleOf(v)' = "owner" /\ via'[v] \in {"passcode", "import"}
  <2>1. CASE RoleOf(v)' = RoleOf(v) /\ via'[v] = via[v]
    BY <1>2, <1>4, <2>1 DEF GrantDurable
  <2>2. ASSUME NEW a \in Agents, UpdateRole(a) PROVE v \in file' \cup ownersFile'
    <3>1. CASE v = who[a] /\ a \in Handlers
      BY <3>1, <1>2, <2>2 DEF UpdateRole, FilesOK
    <3>2. CASE ~ (v = who[a] /\ a \in Handlers)
      BY <3>2, <1>4, <2>1, <2>2, UpdateEffect DEF Agents
    <3>. QED BY <3>1, <3>2
  <2>3. CASE Restart
    BY <1>2, <2>1, <2>3, RestartEffect
  <2>4. CASE ~ (\E a \in Agents : UpdateRole(a)) /\ ~Restart
    BY <2>1, <2>4, OtherSteps
  <2>. QED BY <2>2, <2>3, <2>4
<1>. QED BY <1>3, <1>4

-----------------------------------------------------------------------------
(* The invariant and what follows.                                          *)

LEMMA InvInit == Init => IInv
<1>. SUFFICES ASSUME Init PROVE IInv
  OBVIOUS
<1>1. TypeOK
  BY TypeInit
<1>2. GuessesBounded
  BY UncountedType, AccessAssumption DEF Init, GuessesBounded
<1>3. RoleKept /\ GrantDurable /\ CountsOK /\ FilesOK
  BY DEF Init, RoleKept, GrantDurable, CountsOK, FilesOK, InWindow, RoleOf, Agents
<1>. QED BY <1>1, <1>2, <1>3 DEF IInv

\* The inductive invariant: the parts above hold in every reachable state.
THEOREM Invariant == Spec => []IInv
<1>1. IInv /\ [Next]_vars => IInv'
  BY TypeStep, GuessesStep, CountsStep, RoleKeptStep, FilesStep, GrantStep DEF IInv
<1>. QED BY InvInit, <1>1, PTL DEF Spec

\* allow, the comparison and fail are three critical sections: in one window at
\* most MaxAttempts - 1 wrong passcodes and one for every handler at once are
\* compared, however the messages interleave with the clock and with gc.
THEOREM GuessesBoundedCorrect == Spec => []GuessesBounded
<1>1. IInv => GuessesBounded
  BY DEF IInv
<1>. QED BY Invariant, <1>1, PTL

\* A role that was written stays until another one is written: no registration,
\* purge or restart takes it away.
THEOREM RoleKeptCorrect == Spec => []RoleKept
<1>1. IInv => RoleKept
  BY DEF IInv
<1>. QED BY Invariant, <1>1, PTL

\* Whoever was told to be an owner now, or is one by passcode or by import, is
\* named in a file, whatever failed and whatever the table has become.
THEOREM GrantDurableCorrect == Spec => []GrantDurable
<1>1. IInv => GrantDurable
  BY DEF IInv
<1>. QED BY Invariant, <1>1, PTL

\* No step takes a name out of both config.json and owners.json, the files from
\* which the next start imports owners.
THEOREM FilesOnlyGrow ==
  Spec => [][file \cup ownersFile \subseteq file' \cup ownersFile']_vars
<1>1. IInv /\ [Next]_vars => [file \cup ownersFile \subseteq file' \cup ownersFile']_vars
  BY FilesStep DEF IInv
<1>. QED BY Invariant, <1>1, PTL DEF Spec
=============================================================================
