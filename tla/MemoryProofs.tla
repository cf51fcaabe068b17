---------------------------- MODULE MemoryProofs ----------------------------
(***************************************************************************)
(* Proofs about Memory, for every set of contents and of extractions, every *)
(* limit, page size, half-life and scale of importance, and every bound on *)
(* the rows inserted and on time.                                          *)
(***************************************************************************)
EXTENDS Memory, FiniteSetTheorems, TLAPS

\* The constants as numbers.
LEMMA Constants ==
  /\ Top \in Nat /\ Top > 0 /\ MaxIds \in Nat /\ MaxTime \in Nat /\ MaxTime > 0
  /\ HalfLife \in Nat /\ MaxPerOwner \in Nat /\ MaxPerOwner > 0
  /\ Floor \in Nat /\ ListMax \in Nat /\ ListDefault \in Nat /\ ListDefault > 0
  /\ Panel \notin Extractors /\ NoContent \notin Contents
BY MemoryAssumption DEF Levels

\* The steps of the specification, by name.
LEMMA StepCases ==
  ASSUME [Next]_vars
  PROVE  \/ \E x \in Extractors : RememberAsync(x)
         \/ \E x \in Extractors, C \in SUBSET Contents : Extract(x, C)
         \/ \E c \in Contents : AddManual(c)
         \/ \E w \in Writers : Select(w)
         \/ \E w \in Writers, importance \in Levels \ {0} : Insert(w, importance)
         \/ \E w \in Writers : Update(w)
         \/ \E x \in Extractors : Count(x)
         \/ \E x \in Extractors : List(x)
         \/ \E x \in Extractors : DeleteLast(x)
         \/ \E x \in Extractors : Return(x)
         \/ \E w \in Writers : Fail(w)
         \/ \E i \in Ids : Recall(i)
         \/ \E i \in Ids : DeleteMemory(i)
         \/ \E i \in Ids : DecayMemory(i)
         \/ Forget \/ Maintain \/ GiveUp \/ Tick \/ Restart
         \/ UNCHANGED vars
BY DEF Next, AdminMemories, Remember, Write, Writers

\* A table without one of its rows is a table.
LEMMA WithoutRow ==
  ASSUME TypeOK, NEW i
  PROVE  /\ DOMAIN Without(rows, i) = Stored \ {i}
         /\ Without(rows, i) \in [Stored \ {i} -> Row]
BY DEF TypeOK, Stored, Without

\* What is stored has ids that were given out, and is finite.
LEMMA StoredFinite ==
  ASSUME TypeOK
  PROVE  /\ IsFiniteSet(Stored) /\ Cardinality(Stored) \in Nat
         /\ Stored \subseteq Ids
<1>1. lastId \in Nat /\ lastId <= MaxIds /\ Stored \subseteq 1..lastId
  BY Constants DEF TypeOK
<1>2. IsFiniteSet(1..lastId)
  BY <1>1, FS_Interval
<1>3. IsFiniteSet(Stored)
  BY <1>1, <1>2, FS_Subset
<1>4. Cardinality(Stored) \in Nat
  BY <1>3, FS_CardinalityType
<1>5. Stored \subseteq Ids
  BY <1>1, Constants DEF Ids
<1>. QED BY <1>3, <1>4, <1>5

\* No rows at all are rows of any kind.
LEMMA NoRowsForm ==
  ASSUME NEW S
  PROVE  DOMAIN NoRows = {} /\ NoRows \in [DOMAIN NoRows -> S]
BY DEF NoRows

LEMMA TypeStep == TypeOK /\ LimitOK /\ [Next]_vars => TypeOK'
<1>. SUFFICES ASSUME TypeOK, LimitOK, [Next]_vars PROVE TypeOK'
  OBVIOUS
<1>. USE Constants
<1>0. Extractors \subseteq Writers /\ Panel \in Writers
  BY DEF Writers
<1>1. ASSUME NEW x \in Extractors, RememberAsync(x) PROVE TypeOK'
  BY <1>0, <1>1 DEF TypeOK, RememberAsync, table, limiting, decaying, Stored
<1>2. ASSUME NEW x \in Extractors, NEW C \in SUBSET Contents, Extract(x, C) PROVE TypeOK'
  BY <1>0, <1>2 DEF TypeOK, Extract, table, limiting, decaying, Stored
<1>3. ASSUME NEW c \in Contents, AddManual(c) PROVE TypeOK'
  BY <1>0, <1>3 DEF TypeOK, AddManual, table, limiting, decaying, Stored
<1>4. ASSUME NEW w \in Writers, Select(w) PROVE TypeOK'
  <2>1. PICK c \in todo[w] :
           /\ cur' = [cur EXCEPT ![w] = c] /\ todo' = [todo EXCEPT ![w] = @ \ {c}]
           /\ \E i \in Stored \cup {NoId} : found' = [found EXCEPT ![w] = i]
    BY <1>4 DEF Select
  <2>2. c \in Contents
    BY <2>1 DEF TypeOK
  <2>3. Stored \cup {NoId} \subseteq 0..MaxIds
    BY StoredFinite DEF Ids, NoId
  <2>4. found' \in [Writers -> 0..MaxIds]
    BY <2>1, <2>3 DEF TypeOK
  <2>. QED BY <1>4, <2>1, <2>2, <2>4 DEF TypeOK, Select, table, limiting, decaying, Stored
<1>5. ASSUME NEW w \in Writers, NEW importance \in Levels \ {0}, Insert(w, importance)
      PROVE  TypeOK'
  <2>. DEFINE i == lastId + 1
              row == [content |-> cur[w], importance |-> importance,
                      auto |-> w # Panel, created |-> clock, lastAccess |-> 0]
  <2>1. row \in Row
    BY <1>5 DEF TypeOK, Insert, Row
  <2>2. /\ lastId' \in 0..MaxIds /\ Stored' = Stored \cup {i} /\ i \in Ids
        /\ Stored' \subseteq 1..lastId'
    BY <1>5 DEF TypeOK, Insert, Stored, Ids
  <2>3. rows' \in [Stored' -> Row]
    BY <1>5, <2>1, <2>2 DEF TypeOK, Insert, Stored
  <2>4. born' \in [Ids -> Levels] /\ late' \in [Writers -> Nat]
    BY <1>5, <2>2 DEF TypeOK, Insert
  <2>5. /\ pc' \in [Writers -> {"idle", "model", "select", "write", "count", "list",
                               "delete", "done"}]
        /\ cur' \in [Writers -> Contents \cup {NoContent}]
        /\ found' \in [Writers -> 0..MaxIds]
        /\ \A v \in Writers : pc'[v] = "write" => cur'[v] \in Contents
        /\ \A v \in Writers : pc'[v] = "delete" => pc[v] = "delete"
    BY <1>5 DEF TypeOK, Insert, AfterWrite, NoId
  <2>. QED BY <1>5, <2>2, <2>3, <2>4, <2>5 DEF TypeOK, Insert, decaying
<1>6. ASSUME NEW w \in Writers, Update(w) PROVE TypeOK'
  <2>1. Stored' = Stored /\ rows' \in [Stored -> Row]
    <3>1. CASE found[w] \in Stored
      <4>1. rows[found[w]] \in Row /\ Raised(rows[found[w]].importance) \in Levels
        BY <3>1 DEF TypeOK, Row, Raised, Least, Levels
      <4>. DEFINE r == [rows[found[w]] EXCEPT
                          !.importance = Raised(rows[found[w]].importance),
                          !.lastAccess = clock]
      <4>2. clock \in 0..MaxTime
        BY DEF TypeOK
      <4>3. r \in Row
        BY <4>1, <4>2 DEF Row
      <4>4. rows' = [rows EXCEPT ![found[w]] = r]
        BY <1>6, <3>1 DEF Update
      <4>. QED BY <3>1, <4>3, <4>4 DEF TypeOK, Stored
    <3>2. CASE found[w] \notin Stored
      BY <1>6, <3>2 DEF TypeOK, Update, Stored
    <3>. QED BY <3>1, <3>2
  <2>2. /\ pc' \in [Writers -> {"idle", "model", "select", "write", "count", "list",
                               "delete", "done"}]
        /\ cur' \in [Writers -> Contents \cup {NoContent}]
        /\ found' \in [Writers -> 0..MaxIds]
        /\ \A v \in Writers : pc'[v] = "write" => cur'[v] \in Contents
        /\ \A v \in Writers : pc'[v] = "delete" => pc[v] = "delete"
    BY <1>6 DEF TypeOK, Update, AfterWrite, NoId
  <2>. QED BY <1>6, <2>1, <2>2 DEF TypeOK, Update, limiting, decaying
<1>7. ASSUME NEW x \in Extractors, Count(x) PROVE TypeOK'
  <2>1. OverLimit(Cardinality(Stored)) \in Nat /\ Cardinality(Stored) \in Nat
    BY StoredFinite DEF OverLimit
  <2>. QED BY <1>0, <1>7, <2>1 DEF TypeOK, Count, table, decaying, Stored
<1>8. ASSUME NEW x \in Extractors, List(x) PROVE TypeOK'
  <2>1. PICK L \in SUBSET Stored :
          /\ Cardinality(L) = Least(PageSize(counted[x]), Cardinality(Stored))
          /\ listed' = [listed EXCEPT ![x] = [i \in L |-> Ranked(rows[i])]]
          /\ pc' = [pc EXCEPT ![x] = IF L = {} THEN "done" ELSE "delete"]
    BY <1>8 DEF List
  <2>2. \A i \in L : Ranked(rows[i]) \in Ranks
    BY DEF TypeOK, Row, Ranked, Ranks
  <2>3. L \subseteq Ids
    BY StoredFinite
  <2>4. pc[x] = "list" /\ excess[x] > 0
    BY <1>8 DEF List, LimitOK
  <2>. QED BY <1>0, <1>8, <2>1, <2>2, <2>3, <2>4
         DEF TypeOK, List, table, decaying, Stored
<1>9. ASSUME NEW x \in Extractors, DeleteLast(x) PROVE TypeOK'
  <2>1. PICK i \in DOMAIN listed[x] :
          /\ rows' = Without(rows, i)
          /\ listed' = [listed EXCEPT ![x] = Without(@, i)]
          /\ pc' = [pc EXCEPT ![x] = IF excess[x] = 1 \/ DOMAIN listed[x] = {i}
                                     THEN "done" ELSE "delete"]
    BY <1>9 DEF DeleteLast
  <2>2. Stored' \subseteq Stored /\ rows' \in [Stored' -> Row]
    BY <2>1, WithoutRow DEF Stored
  <2>3. /\ DOMAIN Without(listed[x], i) \subseteq Ids
        /\ Without(listed[x], i) \in [DOMAIN Without(listed[x], i) -> Ranks]
    BY <1>0 DEF TypeOK, Without
  <2>4. excess[x] \in Nat /\ excess[x] > 0 /\ pc[x] = "delete"
    BY <1>0, <1>9 DEF TypeOK, DeleteLast
  <2>5. /\ DOMAIN listed' = Writers /\ excess' \in [Writers -> Nat]
        /\ \A w \in Writers \ {x} : /\ listed'[w] = listed[w] /\ pc'[w] = pc[w]
                                    /\ excess'[w] = excess[w]
        /\ listed'[x] = Without(listed[x], i)
        /\ pc'[x] = "delete" => excess'[x] > 0
    BY <1>0, <1>9, <2>1, <2>4 DEF TypeOK, DeleteLast
  <2>6. \A w \in Writers : /\ DOMAIN listed'[w] \subseteq Ids
                           /\ listed'[w] \in [DOMAIN listed'[w] -> Ranks]
                           /\ pc'[w] = "delete" => excess'[w] > 0
    BY <2>3, <2>5 DEF TypeOK
  <2>7. pc' \in [Writers -> {"idle", "model", "select", "write", "count", "list",
                             "delete", "done"}]
        /\ \A w \in Writers : pc'[w] = "write" => pc[w] = "write"
    BY <1>0, <2>1 DEF TypeOK
  <2>8. UNCHANGED <<lastId, born, clock, inflight, todo, cur, found, counted, late,
                    items, decayAt>>
    BY <1>9 DEF DeleteLast, decaying
  <2>. QED BY <2>2, <2>5, <2>6, <2>7, <2>8 DEF TypeOK
<1>10. ASSUME NEW w \in Writers, End(w), UNCHANGED <<table, clock, decaying>>,
              inflight' \in BOOLEAN
       PROVE  TypeOK'
  <2>1. /\ DOMAIN listed' = Writers /\ excess' \in [Writers -> Nat]
        /\ \A v \in Writers \ {w} : /\ listed'[v] = listed[v] /\ pc'[v] = pc[v]
                                    /\ excess'[v] = excess[v]
        /\ listed'[w] = NoRows /\ pc'[w] = "idle"
    BY <1>10 DEF TypeOK, End
  <2>2. \A v \in Writers : /\ DOMAIN listed'[v] \subseteq Ids
                           /\ listed'[v] \in [DOMAIN listed'[v] -> Ranks]
                           /\ pc'[v] = "delete" => excess'[v] > 0
    BY <2>1, NoRowsForm DEF TypeOK
  <2>3. /\ pc' \in [Writers -> {"idle", "model", "select", "write", "count", "list",
                                "delete", "done"}]
        /\ todo' \in [Writers -> SUBSET Contents]
        /\ cur' \in [Writers -> Contents \cup {NoContent}]
        /\ found' \in [Writers -> 0..MaxIds]
        /\ \A v \in Writers : pc'[v] = "write" => cur'[v] \in Contents
        /\ counted' \in [Writers -> Nat] /\ late' \in [Writers -> Nat]
    BY <1>10 DEF TypeOK, End, NoId
  <2>. QED BY <1>10, <2>1, <2>2, <2>3 DEF TypeOK, table, decaying, Stored
<1>11. ASSUME NEW x \in Extractors, Return(x) PROVE TypeOK'
  BY <1>0, <1>10, <1>11 DEF Return, TypeOK
<1>12. ASSUME NEW w \in Writers, Fail(w) PROVE TypeOK'
  BY <1>10, <1>12 DEF Fail, TypeOK
<1>13. ASSUME NEW i \in Ids, Recall(i) PROVE TypeOK'
  <2>1. Stored' = Stored /\ rows' \in [Stored -> Row]
    BY <1>13 DEF TypeOK, Recall, TouchMemory, Stored, Row
  <2>. QED BY <1>13, <2>1 DEF TypeOK, Recall, TouchMemory, limiting, decaying
<1>14. ASSUME NEW i \in Ids, DeleteMemory(i) PROVE TypeOK'
  <2>1. Stored' \subseteq Stored /\ rows' \in [Stored' -> Row]
    BY <1>14, WithoutRow DEF Stored, DeleteMemory
  <2>. QED BY <1>14, <2>1 DEF TypeOK, DeleteMemory, limiting, decaying
<1>15. ASSUME NEW i \in Ids, DecayMemory(i) PROVE TypeOK'
  <2>1. items[i] \in Dates /\ i \in DOMAIN items
    BY <1>15 DEF TypeOK, DecayMemory
  <2>2. Age(items[i]) > 0 => Decayed(items[i]) \in Levels
    <3>1. items[i].importance \in Nat /\ items[i].importance <= Top
      BY <2>1 DEF Dates, Levels
    <3>2. LastUse(items[i]) \in Nat /\ decayAt \in Nat
      BY <2>1 DEF TypeOK, Dates, LastUse
    <3>. QED BY <3>1, <3>2 DEF Decayed, Levels, Age
  <2>3. Stored' \subseteq Stored /\ rows' \in [Stored' -> Row]
    <3>1. CASE rows' = Without(rows, i)
      BY <3>1, WithoutRow DEF Stored
    <3>2. CASE /\ rows' = [rows EXCEPT ![i].importance = Decayed(items[i])]
               /\ i \in Stored /\ Age(items[i]) > 0
      BY <2>2, <3>2 DEF TypeOK, Row, Stored
    <3>3. CASE rows' = rows
      BY <3>3 DEF TypeOK, Stored
    <3>4. Age(items[i]) \in Int
      BY <2>1 DEF TypeOK, Age, LastUse, Dates
    <3>. QED BY <1>15, <3>1, <3>2, <3>3, <3>4 DEF DecayMemory
  <2>4. DOMAIN items' \subseteq Ids /\ items' \in [DOMAIN items' -> Dates]
    BY <1>15 DEF TypeOK, DecayMemory, Without
  <2>. QED BY <1>15, <2>3, <2>4 DEF TypeOK, DecayMemory, limiting
<1>16. CASE Forget
  BY <1>16 DEF TypeOK, Forget, limiting, decaying, Stored, NoRows
<1>17. CASE Maintain
  <2>1. \A i \in Stored : Dated(rows[i]) \in Dates
    BY DEF TypeOK, Row, Dated, Dates
  <2>2. DOMAIN items' \subseteq Ids /\ items' \in [DOMAIN items' -> Dates]
    BY <1>17, <2>1, StoredFinite DEF Maintain
  <2>3. decayAt' \in 0..MaxTime
    BY <1>17 DEF TypeOK, Maintain
  <2>. QED BY <1>17, <2>2, <2>3 DEF TypeOK, Maintain, table, limiting, Stored
<1>18. CASE GiveUp
  BY <1>18 DEF TypeOK, GiveUp, table, limiting, Stored, NoRows
<1>19. CASE Tick
  BY <1>19 DEF TypeOK, Tick, table, limiting, decaying, Stored
<1>20. CASE Restart
  <2>1. /\ DOMAIN NoRows = {} /\ NoRows \in [DOMAIN NoRows -> Ranks]
        /\ NoRows \in [DOMAIN NoRows -> Dates]
    BY NoRowsForm
  <2>2. \A w \in Writers : /\ DOMAIN listed'[w] \subseteq Ids
                           /\ listed'[w] \in [DOMAIN listed'[w] -> Ranks]
                           /\ pc'[w] # "delete" /\ pc'[w] # "write"
    BY <1>20, <2>1 DEF Restart
  <2>3. DOMAIN items' \subseteq Ids /\ items' \in [DOMAIN items' -> Dates]
    BY <1>20, <2>1 DEF Restart
  <2>4. /\ pc' \in [Writers -> {"idle"}] /\ todo' \in [Writers -> SUBSET Contents]
        /\ cur' \in [Writers -> Contents \cup {NoContent}]
        /\ found' \in [Writers -> 0..MaxIds] /\ excess' \in [Writers -> Nat]
        /\ counted' \in [Writers -> Nat] /\ late' \in [Writers -> Nat]
    BY <1>20 DEF Restart, NoId
  <2>5. inflight' \in BOOLEAN
    BY <1>20 DEF Restart
  <2>. QED BY <1>20, <2>2, <2>3, <2>4, <2>5 DEF TypeOK, Restart, table, Stored
<1>21. CASE UNCHANGED vars
  BY <1>21 DEF TypeOK, vars, Stored
<1>. QED
  BY StepCases, <1>1, <1>2, <1>3, <1>4, <1>5, <1>6, <1>7, <1>8, <1>9, <1>11, <1>12,
     <1>13, <1>14, <1>15, <1>16, <1>17, <1>18, <1>19, <1>20, <1>21

\* One extraction at a time.
LEMMA GateStep == TypeOK /\ GateOK /\ [Next]_vars => GateOK'
<1>. SUFFICES ASSUME TypeOK, GateOK, [Next]_vars PROVE GateOK'
  OBVIOUS
<1>. USE Constants
<1>0. Extractors \subseteq Writers /\ Panel \in Writers /\ Panel \notin Extractors
  BY DEF Writers
<1>1. ASSUME NEW x \in Extractors, RememberAsync(x) PROVE GateOK'
  BY <1>0, <1>1 DEF TypeOK, GateOK, RememberAsync
<1>2. ASSUME UNCHANGED inflight,
             \A x \in Extractors : pc'[x] # "idle" => pc[x] # "idle"
      PROVE  GateOK'
  BY <1>2 DEF GateOK
<1>3. ASSUME NEW x \in Extractors, NEW C \in SUBSET Contents, Extract(x, C) PROVE GateOK'
  BY <1>0, <1>2, <1>3 DEF TypeOK, Extract
<1>4. ASSUME NEW c \in Contents, AddManual(c) PROVE GateOK'
  BY <1>0, <1>2, <1>4 DEF TypeOK, AddManual
<1>5. ASSUME NEW w \in Writers, Select(w) PROVE GateOK'
  BY <1>0, <1>2, <1>5 DEF TypeOK, Select
<1>6. ASSUME NEW w \in Writers, NEW importance \in Levels \ {0}, Insert(w, importance)
      PROVE  GateOK'
  BY <1>0, <1>2, <1>6 DEF TypeOK, Insert, AfterWrite
<1>7. ASSUME NEW w \in Writers, Update(w) PROVE GateOK'
  BY <1>0, <1>2, <1>7 DEF TypeOK, Update, AfterWrite
<1>8. ASSUME NEW x \in Extractors, Count(x) PROVE GateOK'
  BY <1>0, <1>2, <1>8 DEF TypeOK, Count
<1>9. ASSUME NEW x \in Extractors, List(x) PROVE GateOK'
  BY <1>0, <1>2, <1>9 DEF TypeOK, List
<1>10. ASSUME NEW x \in Extractors, DeleteLast(x) PROVE GateOK'
  BY <1>0, <1>2, <1>10 DEF TypeOK, DeleteLast
<1>11. ASSUME NEW x \in Extractors, pc[x] # "idle", End(x) PROVE GateOK'
  <2>1. \A y \in Extractors : pc'[y] = "idle"
    BY <1>0, <1>11 DEF TypeOK, GateOK, End
  <2>. QED BY <2>1 DEF GateOK
<1>12. ASSUME NEW x \in Extractors, Return(x) PROVE GateOK'
  BY <1>11, <1>12 DEF Return
<1>13. ASSUME NEW w \in Writers, Fail(w) PROVE GateOK'
  <2>1. CASE w = Panel
    BY <1>0, <1>2, <1>13, <2>1 DEF TypeOK, Fail, End
  <2>2. CASE w \in Extractors
    BY <1>11, <1>13, <2>2 DEF Fail
  <2>. QED BY <2>1, <2>2 DEF Writers
<1>14. CASE Restart
  BY <1>0, <1>14 DEF GateOK, Restart
<1>15. CASE UNCHANGED <<pc, inflight>>
  BY <1>15 DEF GateOK
<1>. QED
  BY StepCases, <1>1, <1>3, <1>4, <1>5, <1>6, <1>7, <1>8, <1>9, <1>10, <1>12, <1>13,
     <1>14, <1>15
  DEF Recall, TouchMemory, DeleteMemory, DecayMemory, Forget, Maintain, GiveUp, Tick, vars

\* The panel's writer stays out of the extractions' steps.
LEMMA PanelStep == TypeOK /\ PanelOK /\ [Next]_vars => PanelOK'
<1>. SUFFICES ASSUME TypeOK, PanelOK, [Next]_vars PROVE PanelOK'
  OBVIOUS
<1>0. Panel \in Writers /\ Panel \notin Extractors
  BY Constants DEF Writers
<1>1. CASE UNCHANGED pc
  BY <1>1 DEF PanelOK
<1>2. ASSUME NEW x \in Extractors, NEW s, pc' = [pc EXCEPT ![x] = s] PROVE PanelOK'
  BY <1>0, <1>2 DEF PanelOK, TypeOK
<1>3. ASSUME NEW w \in Writers, Select(w) \/ Update(w) \/ Fail(w) PROVE PanelOK'
  BY <1>0, <1>3 DEF PanelOK, TypeOK, Select, Update, AfterWrite, Fail, End
<1>4. ASSUME NEW w \in Writers, NEW importance \in Levels \ {0}, Insert(w, importance)
      PROVE  PanelOK'
  BY <1>0, <1>4 DEF PanelOK, TypeOK, Insert, AfterWrite
<1>5. ASSUME NEW c \in Contents, AddManual(c) PROVE PanelOK'
  BY <1>0, <1>5 DEF PanelOK, TypeOK, AddManual
<1>6. CASE Restart
  BY <1>0, <1>6 DEF PanelOK, Restart
<1>. QED
  BY StepCases, <1>1, <1>2, <1>3, <1>4, <1>5, <1>6
  DEF RememberAsync, Extract, Count, List, DeleteLast, Return, End, Recall, TouchMemory,
      DeleteMemory, DecayMemory, Forget, Maintain, GiveUp, Tick, vars

\* No extraction is about to insert what another one has inserted.
LEMMA FreshStep ==
  TypeOK /\ GateOK /\ PanelOK /\ FreshOK /\ AutoRowsDistinct /\ [Next]_vars
    => FreshOK' /\ AutoRowsDistinct'
<1>. SUFFICES ASSUME TypeOK, GateOK, PanelOK, FreshOK, AutoRowsDistinct, [Next]_vars
              PROVE  FreshOK' /\ AutoRowsDistinct'
  OBVIOUS
<1>. USE Constants
<1>0. Extractors \subseteq Writers /\ Panel \in Writers /\ Panel \notin Extractors
  BY DEF Writers
\* Most steps insert nothing and do not look for anything.
<1>1. ASSUME Stored' \subseteq Stored,
             \A i \in Stored' : /\ rows'[i].auto = rows[i].auto
                                /\ rows'[i].content = rows[i].content,
             \A x \in Extractors : pc'[x] = "write" =>
               pc[x] = "write" /\ found'[x] = found[x] /\ cur'[x] = cur[x]
      PROVE  FreshOK' /\ AutoRowsDistinct'
  <2>1. FreshOK'
    BY <1>1 DEF FreshOK
  <2>2. AutoRowsDistinct'
    BY <1>1 DEF AutoRowsDistinct
  <2>. QED BY <2>1, <2>2
<1>2. ASSUME NEW x \in Extractors, RememberAsync(x) PROVE FreshOK' /\ AutoRowsDistinct'
  BY <1>0, <1>1, <1>2 DEF TypeOK, RememberAsync, table, Stored
<1>3. ASSUME NEW x \in Extractors, NEW C \in SUBSET Contents, Extract(x, C)
      PROVE  FreshOK' /\ AutoRowsDistinct'
  BY <1>0, <1>1, <1>3 DEF TypeOK, Extract, table, Stored
<1>4. ASSUME NEW c \in Contents, AddManual(c) PROVE FreshOK' /\ AutoRowsDistinct'
  BY <1>0, <1>1, <1>4 DEF TypeOK, AddManual, table, Stored
<1>5. ASSUME NEW w \in Writers, Select(w) PROVE FreshOK' /\ AutoRowsDistinct'
  <2>1. UNCHANGED rows
    BY <1>5 DEF Select, table
  <2>2. AutoRowsDistinct'
    BY <2>1 DEF AutoRowsDistinct, Stored
  <2>3. PICK c \in todo[w] :
          /\ cur' = [cur EXCEPT ![w] = c]
          /\ \E i \in IF {j \in Stored : rows[j].content = c} = {} THEN {NoId}
                      ELSE {j \in Stored : rows[j].content = c} :
               found' = [found EXCEPT ![w] = i]
    BY <1>5 DEF Select
  <2>4. PICK i \in IF {j \in Stored : rows[j].content = c} = {} THEN {NoId}
                   ELSE {j \in Stored : rows[j].content = c} :
               found' = [found EXCEPT ![w] = i]
    BY <2>3
  <2>5. cur'[w] = c /\ found'[w] = i
    BY <2>3, <2>4 DEF TypeOK
  <2>6. found'[w] = NoId => \A j \in Stored : rows[j].content # cur'[w]
    <3>1. \A j \in Stored : j # NoId
      BY StoredFinite DEF Ids, NoId
    <3>. QED BY <2>5, <2>4, <3>1
  <2>7. \A v \in Writers \ {w} : pc'[v] = pc[v] /\ found'[v] = found[v] /\ cur'[v] = cur[v]
    BY <1>5, <2>3, <2>4 DEF TypeOK, Select
  <2>8. FreshOK'
    BY <1>0, <2>1, <2>6, <2>7 DEF FreshOK, Stored
  <2>. QED BY <2>2, <2>8
<1>6. ASSUME NEW w \in Writers, NEW importance \in Levels \ {0}, Insert(w, importance)
      PROVE  FreshOK' /\ AutoRowsDistinct'
  <2>. DEFINE n == lastId + 1
  <2>1. /\ Stored' = Stored \cup {n} /\ n \notin Stored
        /\ rows'[n].auto = (w # Panel) /\ rows'[n].content = cur[w]
        /\ \A j \in Stored : rows'[j] = rows[j]
    BY <1>6 DEF TypeOK, Insert, Stored
  <2>2. pc[w] = "write" /\ found[w] = NoId /\ pc'[w] # "write"
    BY <1>6 DEF TypeOK, Insert, AfterWrite
  <2>3. \A v \in Writers \ {w} : pc'[v] = pc[v] /\ found'[v] = found[v] /\ cur'[v] = cur[v]
    BY <1>6 DEF TypeOK, Insert, AfterWrite
  <2>4. AutoRowsDistinct'
    <3>1. w # Panel => \A j \in Stored : rows[j].auto => rows[j].content # cur[w]
      BY <2>2 DEF FreshOK, Writers
    <3>2. CASE w = Panel
      <4>1. ~rows'[n].auto
        BY <2>1, <3>2
      <4>. QED BY <2>1, <4>1 DEF AutoRowsDistinct
    <3>3. CASE w # Panel
      <4>1. \A j \in Stored : rows'[j].auto => rows'[j].content # rows'[n].content
        BY <2>1, <3>1, <3>3
      <4>. QED BY <2>1, <4>1 DEF AutoRowsDistinct
    <3>. QED BY <3>2, <3>3
  <2>5. FreshOK'
    <3>. SUFFICES ASSUME NEW x \in Extractors, pc'[x] = "write", found'[x] = NoId,
                         NEW j \in Stored', rows'[j].auto
                  PROVE  rows'[j].content # cur'[x]
      BY DEF FreshOK
    <3>1. x # w /\ pc[x] = "write" /\ found[x] = NoId /\ cur'[x] = cur[x]
      BY <1>0, <2>2, <2>3
    <3>2. w = Panel
      BY <2>2, <3>1 DEF GateOK, Writers
    <3>3. j \in Stored /\ rows'[j] = rows[j]
      BY <2>1, <3>2
    <3>. QED BY <3>1, <3>3 DEF FreshOK
  <2>. QED BY <2>4, <2>5
<1>7. ASSUME NEW w \in Writers, Update(w) PROVE FreshOK' /\ AutoRowsDistinct'
  <2>1. /\ Stored' \subseteq Stored
        /\ \A i \in Stored' : /\ rows'[i].auto = rows[i].auto
                              /\ rows'[i].content = rows[i].content
    <3>1. CASE found[w] \in Stored
      <4>1. rows[found[w]] \in Row
        BY <3>1 DEF TypeOK
      <4>2. rows' = [rows EXCEPT ![found[w]] =
                       [rows[found[w]] EXCEPT
                          !.importance = Raised(rows[found[w]].importance),
                          !.lastAccess = clock]]
        BY <1>7, <3>1 DEF Update
      <4>. QED BY <3>1, <4>1, <4>2 DEF TypeOK, Stored, Row
    <3>2. CASE found[w] \notin Stored
      BY <1>7, <3>2 DEF Update, Stored
    <3>. QED BY <3>1, <3>2
  <2>2. \A x \in Extractors : pc'[x] = "write" =>
          pc[x] = "write" /\ found'[x] = found[x] /\ cur'[x] = cur[x]
    BY <1>0, <1>7 DEF TypeOK, Update, AfterWrite
  <2>. QED BY <1>1, <2>1, <2>2
<1>8. ASSUME NEW x \in Extractors, Count(x) \/ List(x) PROVE FreshOK' /\ AutoRowsDistinct'
  BY <1>0, <1>1, <1>8 DEF TypeOK, Count, List, table, Stored
<1>9. ASSUME NEW x \in Extractors, DeleteLast(x) PROVE FreshOK' /\ AutoRowsDistinct'
  BY <1>0, <1>1, <1>9 DEF TypeOK, DeleteLast, Without, Stored
<1>10. ASSUME NEW w \in Writers, End(w), UNCHANGED rows PROVE FreshOK' /\ AutoRowsDistinct'
  BY <1>0, <1>1, <1>10 DEF TypeOK, End, Stored
<1>11. ASSUME NEW i \in Ids, Recall(i) PROVE FreshOK' /\ AutoRowsDistinct'
  <2>1. rows[i] \in Row
    BY <1>11 DEF TypeOK, Recall, TouchMemory
  <2>. QED BY <1>1, <1>11, <2>1 DEF TypeOK, Recall, TouchMemory, Stored, Row
<1>12. ASSUME NEW i \in Ids, DeleteMemory(i) PROVE FreshOK' /\ AutoRowsDistinct'
  BY <1>1, <1>12 DEF DeleteMemory, Without, Stored
<1>13. ASSUME NEW i \in Ids, DecayMemory(i) PROVE FreshOK' /\ AutoRowsDistinct'
  <2>1. CASE rows' = rows
    BY <1>1, <1>13, <2>1 DEF DecayMemory, Stored
  <2>2. CASE rows' = Without(rows, i)
    BY <1>1, <1>13, <2>2 DEF DecayMemory, Stored, Without
  <2>3. CASE rows' = [rows EXCEPT ![i].importance = Decayed(items[i])] /\ i \in Stored
    <3>1. rows[i] \in Row
      BY <2>3 DEF TypeOK
    <3>2. /\ Stored' \subseteq Stored
          /\ \A j \in Stored' : /\ rows'[j].auto = rows[j].auto
                                /\ rows'[j].content = rows[j].content
      BY <2>3, <3>1 DEF TypeOK, Stored, Row
    <3>. QED BY <1>1, <1>13, <3>2 DEF DecayMemory
  <2>. QED BY <1>13, <2>1, <2>2, <2>3 DEF DecayMemory
<1>14. CASE Forget
  BY <1>1, <1>14 DEF Forget, Stored, NoRows
<1>15. CASE Restart
  BY <1>0, <1>1, <1>15 DEF Restart, table, Stored
<1>16. CASE UNCHANGED <<rows, pc, found, cur>>
  BY <1>1, <1>16 DEF Stored
<1>. QED
  BY StepCases, <1>0, <1>2, <1>3, <1>4, <1>5, <1>6, <1>7, <1>8, <1>9, <1>10, <1>11, <1>12,
     <1>13, <1>14, <1>15, <1>16
  DEF Return, Fail, Maintain, GiveUp, Tick, vars, table
-----------------------------------------------------------------------------
(* The limit, one extraction at a time.                                     *)

LimitAt(x) ==
  /\ pc[x] = "list" => /\ counted[x] = MaxPerOwner + excess[x] /\ excess[x] > 0
                       /\ Cardinality(Stored) <= counted[x] + late[x]
  /\ pc[x] = "delete" /\ counted[x] <= ListMax =>
       /\ Cardinality(Stored \cup DOMAIN listed[x]) <= MaxPerOwner + excess[x] + late[x]
       /\ Cardinality(Stored \ DOMAIN listed[x]) <= late[x]
  /\ pc[x] = "done" /\ counted[x] <= ListMax => Cardinality(Stored) <= MaxPerOwner + late[x]

\* One more element is one more at most.
LEMMA OneMore ==
  ASSUME NEW S, IsFiniteSet(S), NEW n
  PROVE  /\ IsFiniteSet(S \cup {n}) /\ Cardinality(S \cup {n}) \in Nat
         /\ Cardinality(S) \in Nat /\ Cardinality(S \cup {n}) <= Cardinality(S) + 1
<1>1. IsFiniteSet(S \cup {n})
  BY FS_AddElement
<1>2. Cardinality(S \cup {n}) \in Nat /\ Cardinality(S) \in Nat
  BY <1>1, FS_CardinalityType
<1>3. Cardinality(S \cup {n}) = Cardinality(S) \/ Cardinality(S \cup {n}) = Cardinality(S) + 1
  BY FS_AddElement
<1>. QED BY <1>1, <1>2, <1>3

LEMMA LimitParts == LimitOK /\ LimitKept <=> \A x \in Extractors : LimitAt(x)
BY DEF LimitOK, LimitKept, LimitAt

\* What the extraction has listed is finite, too.
LEMMA ListedFinite ==
  ASSUME TypeOK, NEW x \in Extractors
  PROVE  /\ IsFiniteSet(Stored \cup DOMAIN listed[x])
         /\ IsFiniteSet(Stored \ DOMAIN listed[x])
         /\ IsFiniteSet(DOMAIN listed[x])
         /\ Cardinality(Stored \cup DOMAIN listed[x]) \in Nat
         /\ Cardinality(Stored \ DOMAIN listed[x]) \in Nat
<1>1. DOMAIN listed[x] \subseteq 1..MaxIds
  BY DEF TypeOK, Writers, Ids
<1>2. IsFiniteSet(1..MaxIds)
  <2>1. MaxIds \in Int
    BY Constants
  <2>. QED BY <2>1, FS_Interval
<1>3. IsFiniteSet(DOMAIN listed[x]) /\ IsFiniteSet(Stored)
  BY <1>1, <1>2, FS_Subset, StoredFinite
<1>4. IsFiniteSet(Stored \cup DOMAIN listed[x]) /\ IsFiniteSet(Stored \ DOMAIN listed[x])
  BY <1>3, FS_Union, FS_Difference
<1>. QED BY <1>3, <1>4, FS_CardinalityType

\* An extraction that stands still keeps its part when rows go ...
LEMMA LimitShrinks ==
  ASSUME TypeOK, NEW x \in Extractors, LimitAt(x), Stored' \subseteq Stored,
         pc'[x] = pc[x], excess'[x] = excess[x], listed'[x] = listed[x],
         counted'[x] = counted[x], late'[x] = late[x]
  PROVE  LimitAt(x)'
<1>1. /\ excess[x] \in Nat /\ late[x] \in Nat /\ counted[x] \in Nat
      /\ MaxPerOwner \in Nat /\ ListMax \in Nat
  BY Constants DEF TypeOK, Writers
<1>2. /\ Cardinality(Stored') <= Cardinality(Stored) /\ Cardinality(Stored') \in Nat
      /\ Cardinality(Stored) \in Nat
  BY StoredFinite, FS_Subset, FS_CardinalityType
<1>. DEFINE A == Stored \cup DOMAIN listed[x]  B == Stored \ DOMAIN listed[x]
            C == Stored' \cup DOMAIN listed[x] D == Stored' \ DOMAIN listed[x]
<1>3. IsFiniteSet(A) /\ IsFiniteSet(B) /\ C \in SUBSET A /\ D \in SUBSET B
  BY ListedFinite
<1>4. Cardinality(C) <= Cardinality(A) /\ Cardinality(D) <= Cardinality(B)
  BY <1>3, FS_Subset
<1>5. /\ Cardinality(A) \in Nat /\ Cardinality(B) \in Nat
      /\ Cardinality(C) \in Nat /\ Cardinality(D) \in Nat
  BY <1>3, FS_Subset, FS_CardinalityType
<1>. HIDE DEF A, B, C, D
<1>6. /\ pc'[x] = "delete" /\ counted'[x] <= ListMax =>
           Cardinality(C) <= MaxPerOwner + excess'[x] + late'[x] /\ Cardinality(D) <= late'[x]
  BY <1>1, <1>4, <1>5 DEF LimitAt, A, B
<1>. QED BY <1>1, <1>2, <1>6 DEF LimitAt, C, D

\* ... and when another one inserts a row, which is counted as late.
LEMMA LimitGrows ==
  ASSUME TypeOK, NEW x \in Extractors, LimitAt(x), NEW n, Stored' = Stored \cup {n},
         pc'[x] = pc[x], excess'[x] = excess[x], listed'[x] = listed[x],
         counted'[x] = counted[x],
         pc[x] \in {"list", "delete", "done"} => late'[x] = late[x] + 1
  PROVE  LimitAt(x)'
<1>1. /\ excess[x] \in Nat /\ late[x] \in Nat /\ counted[x] \in Nat
      /\ MaxPerOwner \in Nat /\ ListMax \in Nat
  BY Constants DEF TypeOK, Writers
<1>2. /\ Cardinality(Stored') <= Cardinality(Stored) + 1 /\ Cardinality(Stored') \in Nat
      /\ Cardinality(Stored) \in Nat
  BY StoredFinite, OneMore
<1>. DEFINE A == Stored \cup DOMAIN listed[x]  B == Stored \ DOMAIN listed[x]
            C == Stored' \cup DOMAIN listed[x] D == Stored' \ DOMAIN listed[x]
<1>3. /\ IsFiniteSet(A) /\ IsFiniteSet(B) /\ IsFiniteSet(B \cup {n})
      /\ C = A \cup {n} /\ D \in SUBSET (B \cup {n})
  BY ListedFinite, OneMore
<1>4. /\ Cardinality(C) <= Cardinality(A) + 1
      /\ Cardinality(D) <= Cardinality(B) + 1
      /\ Cardinality(A) \in Nat /\ Cardinality(B) \in Nat
      /\ Cardinality(C) \in Nat /\ Cardinality(D) \in Nat
  <2>. HIDE DEF A, B, C, D
  <2>1. Cardinality(D) <= Cardinality(B \cup {n}) /\ IsFiniteSet(D)
    BY <1>3, FS_Subset
  <2>2. Cardinality(D) \in Nat
    BY <2>1, FS_CardinalityType
  <2>. QED BY <1>3, <2>1, <2>2, OneMore
<1>. HIDE DEF A, B, C, D
<1>5. /\ pc'[x] = "delete" /\ counted'[x] <= ListMax =>
           Cardinality(C) <= MaxPerOwner + excess'[x] + late'[x] /\ Cardinality(D) <= late'[x]
  BY <1>1, <1>4 DEF LimitAt, A, B
<1>. QED BY <1>1, <1>2, <1>5 DEF LimitAt, C, D

\* An extraction that keeps no limit now has no part in this.
LEMMA LimitIdle ==
  ASSUME NEW x, pc'[x] \notin {"list", "delete", "done"}
  PROVE  LimitAt(x)'
BY DEF LimitAt

\* Counting begins the accounting.
LEMMA LimitCounted ==
  ASSUME TypeOK, NEW x \in Extractors, Count(x)
  PROVE  LimitAt(x)'
<1>. DEFINE n == Cardinality(Stored)
<1>1. n \in Nat /\ Stored' = Stored /\ MaxPerOwner \in Nat
  BY StoredFinite, Constants DEF Count, table, Stored
<1>2. /\ counted'[x] = n /\ late'[x] = 0 /\ excess'[x] = OverLimit(n)
      /\ pc'[x] = IF OverLimit(n) = 0 THEN "done" ELSE "list"
  BY DEF Count, TypeOK, Writers
<1>3. Cardinality(Stored') = n
  BY <1>1
<1>. HIDE DEF n
<1>. QED BY <1>1, <1>2, <1>3 DEF LimitAt, OverLimit

\* What a page leaves out has been inserted late.
LEMMA LimitListed ==
  ASSUME TypeOK, NEW x \in Extractors, LimitAt(x), List(x)
  PROVE  LimitAt(x)'
<1>1. /\ excess[x] \in Nat /\ late[x] \in Nat /\ counted[x] \in Nat
      /\ MaxPerOwner \in Nat /\ MaxPerOwner > 0 /\ ListMax \in Nat
  BY Constants DEF TypeOK, Writers
<1>2. PICK L \in SUBSET Stored :
        /\ Cardinality(L) = Least(PageSize(counted[x]), Cardinality(Stored))
        /\ listed' = [listed EXCEPT ![x] = [i \in L |-> Ranked(rows[i])]]
        /\ pc' = [pc EXCEPT ![x] = IF L = {} THEN "done" ELSE "delete"]
  BY DEF List
<1>3. /\ pc[x] = "list" /\ Stored' = Stored
      /\ counted'[x] = counted[x] /\ late'[x] = late[x] /\ excess'[x] = excess[x]
      /\ DOMAIN listed'[x] = L /\ pc'[x] = IF L = {} THEN "done" ELSE "delete"
  <2>1. pc[x] = "list" /\ UNCHANGED <<rows, counted, late, excess>>
    BY DEF List, table
  <2>2. x \in Writers
    BY DEF Writers
  <2>. QED BY <1>2, <2>1, <2>2 DEF TypeOK, Stored
<1>4. /\ IsFiniteSet(Stored) /\ IsFiniteSet(L) /\ Cardinality(Stored) \in Nat
      /\ Cardinality(L) \in Nat
  BY StoredFinite, FS_Subset, FS_CardinalityType
<1>5. Cardinality(Stored \ L) = Cardinality(Stored) - Cardinality(L)
  <2>1. Stored \cap L = L
    OBVIOUS
  <2>2. Cardinality(Stored \ L) = Cardinality(Stored) - Cardinality(Stored \cap L)
    BY <1>4, FS_Difference
  <2>. QED BY <2>1, <2>2
<1>6. L = {} => Cardinality(L) = 0
  BY FS_EmptySet
<1>7. /\ counted[x] = MaxPerOwner + excess[x] /\ excess[x] > 0
      /\ Cardinality(Stored) <= counted[x] + late[x]
  BY <1>3 DEF LimitAt
<1>8. ASSUME counted[x] <= ListMax
      PROVE  \/ Cardinality(L) = counted[x]
             \/ Cardinality(L) = Cardinality(Stored) /\ Cardinality(Stored) <= counted[x]
  BY <1>1, <1>2, <1>4, <1>8 DEF Least, PageSize
<1>9. CASE L = {}
  <2>1. counted[x] <= ListMax => Cardinality(Stored) <= MaxPerOwner + late[x]
    BY <1>1, <1>4, <1>6, <1>7, <1>8, <1>9
  <2>. QED BY <1>3, <1>9, <2>1 DEF LimitAt
<1>10. CASE L # {}
  <2>1. Stored \cup L = Stored
    OBVIOUS
  <2>2. counted[x] <= ListMax => Cardinality(Stored \ L) <= late[x]
    BY <1>1, <1>4, <1>5, <1>7, <1>8
  <2>3. Cardinality(Stored) <= MaxPerOwner + excess[x] + late[x]
    BY <1>7
  <2>4. Stored' \cup DOMAIN listed'[x] = Stored /\ Stored' \ DOMAIN listed'[x] = Stored \ L
    BY <1>3, <2>1
  <2>5. /\ Cardinality(Stored' \cup DOMAIN listed'[x]) = Cardinality(Stored)
        /\ Cardinality(Stored' \ DOMAIN listed'[x]) = Cardinality(Stored \ L)
    BY <2>4
  <2>. QED BY <1>3, <1>10, <2>2, <2>3, <2>5 DEF LimitAt
<1>. QED BY <1>9, <1>10

\* A deletion takes one from the list, from the excess and from all rows together.
LEMMA LimitDeleted ==
  ASSUME TypeOK, NEW x \in Extractors, LimitAt(x), DeleteLast(x)
  PROVE  LimitAt(x)'
<1>1. /\ excess[x] \in Nat /\ late[x] \in Nat /\ counted[x] \in Nat
      /\ MaxPerOwner \in Nat /\ ListMax \in Nat
  BY Constants DEF TypeOK, Writers
<1>2. PICK i \in DOMAIN listed[x] :
        /\ rows' = Without(rows, i)
        /\ listed' = [listed EXCEPT ![x] = Without(listed[x], i)]
        /\ pc' = [pc EXCEPT ![x] = IF excess[x] = 1 \/ DOMAIN listed[x] = {i}
                                   THEN "done" ELSE "delete"]
  BY DEF DeleteLast
<1>. DEFINE D == DOMAIN listed[x]
<1>3. /\ pc[x] = "delete" /\ counted'[x] = counted[x] /\ late'[x] = late[x]
      /\ excess'[x] = excess[x] - 1 /\ excess[x] > 0
      /\ pc'[x] = IF excess[x] = 1 \/ D = {i} THEN "done" ELSE "delete"
      /\ Stored' = Stored \ {i} /\ DOMAIN listed'[x] = D \ {i}
  <2>1. /\ pc[x] = "delete" /\ UNCHANGED <<counted, late>>
        /\ excess' = [excess EXCEPT ![x] = excess[x] - 1]
    BY DEF DeleteLast
  <2>2. x \in Writers
    BY DEF Writers
  <2>3. Stored' = Stored \ {i}
    BY <1>2 DEF Without, Stored
  <2>4. DOMAIN listed'[x] = D \ {i}
    BY <1>2, <2>2 DEF TypeOK, Without
  <2>. QED BY <1>2, <2>1, <2>2, <2>3, <2>4 DEF TypeOK
<1>4. /\ Stored' \cup DOMAIN listed'[x] = (Stored \cup D) \ {i}
      /\ Stored' \ DOMAIN listed'[x] = Stored \ D
  BY <1>3
<1>5. IsFiniteSet(Stored \cup D) /\ IsFiniteSet(Stored \ D)
  BY ListedFinite
<1>6. /\ Cardinality((Stored \cup D) \ {i}) = Cardinality(Stored \cup D) - 1
      /\ Cardinality(Stored \cup D) \in Nat /\ Cardinality(Stored \ D) \in Nat
      /\ IsFiniteSet((Stored \cup D) \ {i})
  <2>1. i \in Stored \cup D
    OBVIOUS
  <2>. QED BY <1>5, <2>1, FS_RemoveElement, FS_CardinalityType
<1>7. /\ Cardinality(Stored' \cup DOMAIN listed'[x]) = Cardinality(Stored \cup D) - 1
      /\ Cardinality(Stored' \ DOMAIN listed'[x]) = Cardinality(Stored \ D)
  BY <1>4, <1>6
<1>8. Cardinality(Stored') <= Cardinality(Stored \cup D) - 1 /\ Cardinality(Stored') \in Nat
  <2>1. Stored' \in SUBSET ((Stored \cup D) \ {i})
    BY <1>3
  <2>. QED BY <1>6, <2>1, FS_Subset, FS_CardinalityType
<1>9. D = {i} => Stored' \subseteq Stored \ D
  BY <1>3
<1>10. D = {i} => Cardinality(Stored') <= Cardinality(Stored \ D)
  BY <1>5, <1>9, FS_Subset
<1>11. counted[x] <= ListMax =>
         /\ Cardinality(Stored \cup D) <= MaxPerOwner + excess[x] + late[x]
         /\ Cardinality(Stored \ D) <= late[x]
  BY <1>3 DEF LimitAt
<1>12. pc'[x] = "done" /\ counted[x] <= ListMax => Cardinality(Stored') <= MaxPerOwner + late[x]
  BY <1>1, <1>3, <1>6, <1>8, <1>10, <1>11
<1>13. counted[x] <= ListMax =>
         /\ Cardinality(Stored \cup D) - 1 <= MaxPerOwner + (excess[x] - 1) + late[x]
         /\ Cardinality(Stored \ D) <= late[x]
  BY <1>1, <1>6, <1>11
<1>. HIDE DEF D
<1>. QED BY <1>3, <1>7, <1>12, <1>13 DEF LimitAt
LEMMA LimitStep == TypeOK /\ LimitOK /\ LimitKept /\ [Next]_vars => LimitOK' /\ LimitKept'
<1>. SUFFICES ASSUME TypeOK, [Next]_vars, NEW x \in Extractors, LimitAt(x)
              PROVE  LimitAt(x)'
  BY LimitParts DEF LimitOK, LimitKept, LimitAt
<1>0. x \in Writers /\ x # Panel /\ Panel \in Writers /\ Extractors \subseteq Writers
  BY Constants DEF Writers
<1>1. CASE UNCHANGED <<pc, limiting>> /\ Stored' \subseteq Stored
  BY <1>1, LimitShrinks DEF limiting
<1>2. ASSUME NEW w \in Writers, NEW s, s \notin {"list", "delete", "done"},
             pc' = [pc EXCEPT ![w] = s], UNCHANGED <<rows, limiting>>
      PROVE  LimitAt(x)'
  <2>1. CASE w = x
    BY <1>0, <1>2, <2>1, LimitIdle DEF TypeOK
  <2>2. CASE w # x
    BY <1>0, <1>2, <2>2, LimitShrinks DEF TypeOK, limiting, Stored
  <2>. QED BY <2>1, <2>2
<1>3. ASSUME NEW y \in Extractors, RememberAsync(y) PROVE LimitAt(x)'
  BY <1>0, <1>2, <1>3 DEF RememberAsync, table
<1>4. ASSUME NEW y \in Extractors, NEW C \in SUBSET Contents, Extract(y, C)
      PROVE  LimitAt(x)'
  BY <1>0, <1>2, <1>4 DEF Extract, table
<1>5. ASSUME NEW c \in Contents, AddManual(c) PROVE LimitAt(x)'
  BY <1>0, <1>2, <1>5 DEF AddManual, table
<1>6. ASSUME NEW w \in Writers, Select(w) PROVE LimitAt(x)'
  BY <1>0, <1>2, <1>6 DEF Select, table
<1>7. ASSUME NEW w \in Writers, NEW importance \in Levels \ {0}, Insert(w, importance)
      PROVE  LimitAt(x)'
  <2>1. CASE w = x
    <3>1. pc'[x] \in {"select", "idle", "count"}
      BY <1>0, <1>7, <2>1 DEF TypeOK, Insert, AfterWrite
    <3>. QED BY <3>1, LimitIdle
  <2>2. CASE w # x
    <3>1. Stored' = Stored \cup {lastId + 1}
      BY <1>7 DEF Insert, Stored
    <3>2. pc'[x] = pc[x] /\ UNCHANGED <<excess, listed, counted>>
      BY <1>0, <1>7, <2>2 DEF TypeOK, Insert, AfterWrite
    <3>3. pc[x] \in {"list", "delete", "done"} => late'[x] = late[x] + 1
      BY <1>0, <1>7 DEF Insert
    <3>. QED BY <3>1, <3>2, <3>3, LimitGrows
  <2>. QED BY <2>1, <2>2
<1>8. ASSUME NEW w \in Writers, Update(w) PROVE LimitAt(x)'
  <2>1. Stored' = Stored /\ UNCHANGED limiting
    BY <1>8 DEF Update, Stored
  <2>2. CASE w = x
    <3>1. pc'[x] \in {"select", "idle", "count"}
      BY <1>0, <1>8, <2>2 DEF TypeOK, Update, AfterWrite
    <3>. QED BY <3>1, LimitIdle
  <2>3. CASE w # x
    <3>1. pc'[x] = pc[x]
      BY <1>0, <1>8, <2>3 DEF TypeOK, Update, AfterWrite
    <3>. QED BY <2>1, <3>1, LimitShrinks DEF limiting
  <2>. QED BY <2>2, <2>3
<1>9. ASSUME NEW y \in Extractors, Count(y) \/ List(y) \/ DeleteLast(y) PROVE LimitAt(x)'
  <2>1. CASE y = x
    BY <1>9, <2>1, LimitCounted, LimitListed, LimitDeleted
  <2>2. CASE y # x
    <3>1. Stored' \subseteq Stored
      BY <1>9 DEF Count, List, DeleteLast, table, Without, Stored
    <3>2. /\ pc'[x] = pc[x] /\ excess'[x] = excess[x] /\ listed'[x] = listed[x]
          /\ counted'[x] = counted[x] /\ late'[x] = late[x]
      BY <1>0, <1>9, <2>2 DEF TypeOK, Count, List, DeleteLast
    <3>. QED BY <3>1, <3>2, LimitShrinks
  <2>. QED BY <2>1, <2>2
<1>10. ASSUME NEW w \in Writers, Fail(w) \/ (w \in Extractors /\ Return(w)) PROVE LimitAt(x)'
  <2>1. End(w) /\ Stored' = Stored
    BY <1>10 DEF Fail, Return, table, Stored
  <2>2. CASE w = x
    <3>1. pc'[x] = "idle"
      BY <1>0, <2>1, <2>2 DEF TypeOK, End
    <3>. QED BY <3>1, LimitIdle
  <2>3. CASE w # x
    <3>1. /\ pc'[x] = pc[x] /\ excess'[x] = excess[x] /\ listed'[x] = listed[x]
          /\ counted'[x] = counted[x] /\ late'[x] = late[x]
      BY <1>0, <2>1, <2>3 DEF TypeOK, End
    <3>. QED BY <2>1, <3>1, LimitShrinks
  <2>. QED BY <2>2, <2>3
<1>11. ASSUME NEW i \in Ids, Recall(i) \/ DeleteMemory(i) \/ DecayMemory(i)
       PROVE  LimitAt(x)'
  <2>1. UNCHANGED <<pc, limiting>>
    BY <1>11 DEF Recall, TouchMemory, DeleteMemory, DecayMemory
  <2>2. Stored' \subseteq Stored
    BY <1>11 DEF Recall, TouchMemory, DeleteMemory, DecayMemory, Without, Stored
  <2>. QED BY <1>1, <2>1, <2>2
<1>12. CASE Forget
  BY <1>1, <1>12 DEF Forget, NoRows, Stored
<1>13. CASE Restart
  BY <1>0, <1>13, LimitIdle DEF Restart
<1>14. CASE Maintain \/ GiveUp \/ Tick \/ UNCHANGED vars
  BY <1>1, <1>14 DEF Maintain, GiveUp, Tick, vars, table, limiting, Stored
<1>. QED
  BY StepCases, <1>0, <1>3, <1>4, <1>5, <1>6, <1>7, <1>8, <1>9, <1>10, <1>11, <1>12,
     <1>13, <1>14

-----------------------------------------------------------------------------
(* The theorems.                                                            *)

LEMMA InitIInv == Init => IInv
<1>. SUFFICES ASSUME Init PROVE IInv
  OBVIOUS
<1>. USE Constants
<1>1. Stored = {} /\ \A w \in Writers : pc[w] = "idle"
  BY DEF Init, Stored, NoRows
<1>2. TypeOK
  <2>1. rows \in [Stored -> Row] /\ Stored \subseteq 1..lastId
    BY <1>1 DEF Init, NoRows, Stored
  <2>2. /\ DOMAIN listed = Writers
        /\ \A w \in Writers : /\ DOMAIN listed[w] \subseteq Ids
                              /\ listed[w] \in [DOMAIN listed[w] -> Ranks]
    BY NoRowsForm DEF Init
  <2>3. DOMAIN items \subseteq Ids /\ items \in [DOMAIN items -> Dates]
    BY NoRowsForm DEF Init
  <2>4. born \in [Ids -> Levels]
    BY DEF Init, Levels
  <2>5. /\ pc \in [Writers -> {"idle", "model", "select", "write", "count", "list",
                               "delete", "done"}]
        /\ todo \in [Writers -> SUBSET Contents]
        /\ cur \in [Writers -> Contents \cup {NoContent}]
        /\ inflight \in BOOLEAN
    BY DEF Init
  <2>6. /\ found \in [Writers -> 0..MaxIds] /\ excess \in [Writers -> Nat]
        /\ counted \in [Writers -> Nat] /\ late \in [Writers -> Nat]
        /\ clock \in 1..MaxTime /\ lastId \in 0..MaxIds /\ decayAt \in 0..MaxTime
    BY DEF Init, NoId
  <2>7. \A w \in Writers : pc[w] # "write" /\ pc[w] # "delete"
    BY <1>1
  <2>. QED BY <2>1, <2>2, <2>3, <2>4, <2>5, <2>6, <2>7 DEF TypeOK
<1>3. AutoRowsDistinct /\ LimitKept /\ FreshOK /\ LimitOK
  BY <1>1 DEF AutoRowsDistinct, LimitKept, FreshOK, LimitOK, Writers
<1>4. GateOK /\ PanelOK
  BY <1>1 DEF GateOK, PanelOK, Writers
<1>. QED BY <1>2, <1>3, <1>4 DEF IInv

\* The inductive invariant: types, the mark, what is looked up and what is counted.
THEOREM Invariant == Spec => []IInv
<1>1. IInv /\ [Next]_vars => IInv'
  BY TypeStep, GateStep, PanelStep, FreshStep, LimitStep DEF IInv
<1>. QED BY InitIInv, <1>1, PTL DEF Spec

\* Every variable of Memory keeps its type.
THEOREM TypeCorrect == Spec => []TypeOK
<1>1. IInv => TypeOK
  BY DEF IInv
<1>. QED BY Invariant, <1>1, PTL

\* No two extractions ever write the same memory twice.
THEOREM AutoRowsDistinctCorrect == Spec => []AutoRowsDistinct
<1>1. IInv => AutoRowsDistinct
  BY DEF IInv
<1>. QED BY Invariant, <1>1, PTL

\* An enforced limit holds but for the rows inserted since the count.
THEOREM LimitKeptCorrect == Spec => []LimitKept
<1>1. IInv => LimitKept
  BY DEF IInv
<1>. QED BY Invariant, <1>1, PTL

\* The limit deletes from the end of the list.
THEOREM LeastGoCorrect == Spec => LeastGo
<1>. DEFINE A == \A x \in Extractors, i \in Ids :
       /\ pc[x] = "delete" /\ counted[x] <= ListMax
       /\ i \in DOMAIN listed[x] /\ listed'[x] = Without(listed[x], i)
       => Cardinality({j \in DOMAIN rows' :
                         j \notin DOMAIN listed[x] \/ Below(listed[x][j], listed[x][i])})
            <= late[x]
<1>1. IInv /\ [Next]_vars => A
  <2>. SUFFICES ASSUME IInv, [Next]_vars, NEW x \in Extractors, NEW i \in Ids,
                       pc[x] = "delete", counted[x] <= ListMax,
                       i \in DOMAIN listed[x], listed'[x] = Without(listed[x], i)
                PROVE  Cardinality({j \in DOMAIN rows' : \/ j \notin DOMAIN listed[x]
                                       \/ Below(listed[x][j], listed[x][i])}) <= late[x]
    OBVIOUS
  <2>0. TypeOK /\ LimitOK /\ x \in Writers
    BY DEF IInv, Writers
  <2>1. DOMAIN listed'[x] = DOMAIN listed[x] \ {i}
    BY DEF Without
  <2>2. listed'[x] # listed[x]
    BY <2>1
  <2>3. Stored' \subseteq Stored /\ LastOf(listed[x], i)
    <3>1. ASSUME DOMAIN listed'[x] = {} PROVE LastOf(listed[x], i)
      <4>1. DOMAIN listed[x] = {i} /\ listed[x][i] \in Ranks
        BY <2>0, <2>1, <3>1 DEF TypeOK
      <4>2. ~Below(listed[x][i], listed[x][i])
        BY <4>1 DEF Below, Ranks, Levels
      <4>. QED BY <4>1, <4>2 DEF LastOf
    <3>2. ASSUME NEW w \in Writers, End(w), UNCHANGED rows
          PROVE  Stored' \subseteq Stored /\ LastOf(listed[x], i)
      <4>1. listed'[x] = NoRows
        BY <2>0, <2>2, <3>2 DEF TypeOK, End
      <4>. QED BY <3>1, <3>2, <4>1, NoRowsForm DEF Stored
    <3>3. ASSUME NEW y \in Extractors, DeleteLast(y)
          PROVE  Stored' \subseteq Stored /\ LastOf(listed[x], i)
      <4>1. PICK k \in DOMAIN listed[y] :
              /\ LastOf(listed[y], k) /\ rows' = Without(rows, k)
              /\ listed' = [listed EXCEPT ![y] = Without(listed[y], k)]
        BY <3>3 DEF DeleteLast
      <4>2. y = x
        BY <2>0, <2>2, <4>1 DEF TypeOK
      <4>3. DOMAIN listed'[x] = DOMAIN listed[x] \ {k}
        BY <2>0, <4>1, <4>2 DEF TypeOK, Without
      <4>4. k = i
        BY <2>1, <4>1, <4>2, <4>3
      <4>. QED BY <4>1, <4>2, <4>4 DEF Stored, Without
    <3>4. ASSUME NEW y \in Extractors, List(y) PROVE FALSE
      BY <2>0, <2>2, <3>4 DEF List, TypeOK
    <3>5. CASE Restart
      BY <2>0, <3>1, <3>5, NoRowsForm DEF Restart, table, Stored
    <3>6. listed' = listed => FALSE
      BY <2>2
    <3>. QED
      BY StepCases, <3>2, <3>3, <3>4, <3>5, <3>6
      DEF RememberAsync, Extract, AddManual, Select, Insert, Update, Count, Return, Fail,
          Recall, TouchMemory, DeleteMemory, DecayMemory, Forget, Maintain, GiveUp, Tick, vars,
          limiting, table, Writers
  <2>. DEFINE K == {j \in DOMAIN rows' : \/ j \notin DOMAIN listed[x]
                                         \/ Below(listed[x][j], listed[x][i])}
  <2>4. K \in SUBSET (Stored \ DOMAIN listed[x])
    BY <2>3 DEF LastOf, Stored
  <2>5. Cardinality(K) <= Cardinality(Stored \ DOMAIN listed[x])
    BY <2>0, <2>4, ListedFinite, FS_Subset
  <2>6. Cardinality(K) \in Nat /\ Cardinality(Stored \ DOMAIN listed[x]) \in Nat
    BY <2>0, <2>4, ListedFinite, FS_Subset, FS_CardinalityType
  <2>7. Cardinality(Stored \ DOMAIN listed[x]) <= late[x] /\ late[x] \in Nat
    BY <2>0 DEF LimitOK, TypeOK
  <2>. HIDE DEF K
  <2>8. Cardinality(K) <= late[x]
    BY <2>5, <2>6, <2>7
  <2>. QED BY <2>8 DEF K
<1>2. IInv /\ [Next]_vars => [A]_vars
  BY <1>1
<1>. QED BY Invariant, <1>2, PTL DEF Spec, LeastGo

\* The decay deletes nothing that was used within a half-life before its pass.
THEOREM PruneSparesUsedCorrect == Spec => PruneSparesUsed
<1>. DEFINE A == \A i \in DOMAIN items \cap Stored :
       items' = Without(items, i) /\ i \notin DOMAIN rows' =>
         \/ decayAt - LastUse(rows[i]) > HalfLife
         \/ LastUse(rows[i]) # LastUse(items[i])
<1>1. [Next]_vars => A
  <2>. SUFFICES ASSUME [Next]_vars, NEW i \in DOMAIN items \cap Stored,
                       items' = Without(items, i), i \notin DOMAIN rows',
                       LastUse(rows[i]) = LastUse(items[i])
                PROVE  decayAt - LastUse(rows[i]) > HalfLife
    OBVIOUS
  <2>1. DOMAIN items' = DOMAIN items \ {i} /\ items' # items /\ rows' # rows
    BY DEF Without, Stored
  <2>2. PICK k \in Ids : DecayMemory(k)
    <3>1. ~Maintain
      BY DEF Maintain, NoRows
    <3>. QED
      BY <2>1, <3>1, StepCases
      DEF RememberAsync, Extract, AddManual, Select, Insert, Update, Count, List,
          DeleteLast, Return, Fail, Recall, TouchMemory, DeleteMemory, Forget, GiveUp, Tick,
          Restart, vars, decaying, table
  <2>3. k \in DOMAIN items /\ DOMAIN items' = DOMAIN items \ {k}
    BY <2>2 DEF DecayMemory, Without
  <2>4. k = i
    BY <2>1, <2>3
  <2>5. Age(items[i]) > HalfLife
    BY <2>1, <2>2, <2>4 DEF DecayMemory, Stored
  <2>. QED BY <2>5 DEF Age
<1>2. [Next]_vars => [A]_vars
  BY <1>1
<1>. QED BY <1>2, PTL DEF Spec, PruneSparesUsed
=============================================================================
