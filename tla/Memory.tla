------------------------------- MODULE Memory -------------------------------
(***************************************************************************)
(* The long-term memories of one conversation partner: internal/memory     *)
(* (recall, extraction in the background, the limit) on the table of       *)
(* store/memories.go.  A statement is atomic (one write mutex); everything *)
(* longer is not: adding a memory is a SELECT and then a write, keeping    *)
(* the limit a COUNT, a list and one DELETE per row, the decay a read of   *)
(* all rows and one write per row.  Between two statements an extraction,  *)
(* the panel, a recall, the `forget' plugin and the maintenance interleave.*)
(*                                                                         *)
(* Importance is kept on a logarithmic scale: the decay takes one level    *)
(* per tick of age, so a half-life of HalfLife ticks halves by HalfLife    *)
(* levels; a change the code is too small to write is below one level.     *)
(* All memories have one category.  The five minutes between two           *)
(* extractions are shorter than a tick.                                    *)
(***************************************************************************)
EXTENDS Integers, FiniteSets

CONSTANTS Contents,     \* what can be remembered
          NoContent,    \* nothing is being written
          Extractors,   \* background goroutines of RememberAsync
          Panel,        \* the panel's AddMemory
          Top,          \* importance 1.0
          Floor,        \* importance 0.05, under which an old memory goes
          MinRecall,    \* cfg.MinImportance, under which none is recalled
          HalfLife,     \* in ticks
          MaxPerOwner,  \* cfg.MaxPerOwner (300)
          ListMax,      \* the largest page ListMemories serves (500) ...
          ListDefault,  \* ... and the page a larger request gets (100)
          MaxIds,       \* bound of the model: rows ever inserted
          MaxTime       \* bound of the model: the clock stops here

Writers == Extractors \cup {Panel}
Ids == 1..MaxIds
NoId == 0
Levels == 0..Top

ASSUME MemoryAssumption ==
  /\ Panel \notin Extractors /\ NoContent \notin Contents
  /\ Top \in Nat \ {0} /\ Floor \in Levels /\ MinRecall \in Levels
  /\ HalfLife \in Nat /\ MaxPerOwner \in Nat \ {0}
  /\ ListMax \in Nat \ {0} /\ ListDefault \in 1..ListMax
  /\ MaxIds \in Nat /\ MaxTime \in Nat \ {0}

VARIABLES
  rows,      \* the table: a function on the ids that are in it
  lastId,    \* AUTOINCREMENT
  clock,     \* in ticks, the interval of the maintenance
  inflight,  \* the mark in Manager.inflight
  pc,        \* pc[w]: where w is
  todo,      \* todo[w]: candidates not taken up yet
  cur,       \* cur[w]: the candidate being written
  found,     \* found[w]: the row with that content, or NoId
  excess,    \* excess[w]: rows over the limit, as counted
  listed,    \* listed[w]: the rows enforceLimit has listed and not deleted
  items,     \* rows the decay has read and not finished
  decayAt,   \* the time it works with
  counted,   \* history: counted[w], the rows w has counted
  late,      \* history: late[w], rows others have inserted since then
  born       \* history: born[i], the importance i was given first

vars == <<rows, lastId, clock, inflight, pc, todo, cur, found, excess, listed,
          items, decayAt, counted, late, born>>
table == <<rows, lastId, born>>
limiting == <<excess, listed, counted, late>>
decaying == <<items, decayAt>>

Row == [content : Contents, importance : Levels, auto : BOOLEAN,
        created : 1..MaxTime, lastAccess : 0..MaxTime]
Ranks == [importance : Levels, created : 1..MaxTime]
Dates == [importance : Levels, created : 1..MaxTime, lastAccess : 0..MaxTime]
Stored == DOMAIN rows
Without(f, i) == [j \in DOMAIN f \ {i} |-> f[j]]
NoRows == [i \in {} |-> i]
Least(m, n) == IF m < n THEN m ELSE n

\* The columns with which enforceLimit and the decay work.
Ranked(r) == [importance |-> r.importance, created |-> r.created]
Dated(r) == [importance |-> r.importance, created |-> r.created,
             lastAccess |-> r.lastAccess]

\* ORDER BY importance DESC, created_at DESC: r comes after s.
Below(r, s) ==
  \/ r.importance < s.importance
  \/ r.importance = s.importance /\ r.created < s.created

\* When a memory was last used, or made if it never was.
LastUse(r) == IF r.lastAccess = 0 THEN r.created ELSE r.lastAccess

Init ==
  /\ rows = NoRows /\ lastId = 0 /\ clock = 1
  /\ inflight = FALSE
  /\ pc = [w \in Writers |-> "idle"] /\ todo = [w \in Writers |-> {}]
  /\ cur = [w \in Writers |-> NoContent] /\ found = [w \in Writers |-> NoId]
  /\ excess = [w \in Writers |-> 0] /\ listed = [w \in Writers |-> NoRows]
  /\ items = NoRows /\ decayAt = 0
  /\ counted = [w \in Writers |-> 0] /\ late = [w \in Writers |-> 0]
  /\ born = [i \in Ids |-> 0]

-----------------------------------------------------------------------------
(* Slips the code could contain; PROJECT.json names the property that would *)
(* notice each.                                                             *)

\* The mark is set, but an earlier one is not looked at.
RememberAsyncUngated(x) ==
  /\ pc[x] = "idle"
  /\ inflight' = TRUE
  /\ pc' = [pc EXCEPT ![x] = "model"]
  /\ UNCHANGED <<table, clock, todo, cur, found, limiting, decaying>>

\* The limit is meant for the rows besides the newest one.
OverLimitByOne(n) == IF n > MaxPerOwner THEN n - MaxPerOwner - 1 ELSE 0

\* The age counts from the making, however often the memory was used.
AgeSinceMade(r) == decayAt - r.created

\* An error leaves the mark where it is.
ReleasedOnSuccess(x) == pc[x] = "done"

-----------------------------------------------------------------------------
(* Adding a memory: a writer takes up its candidates one by one.            *)

\* After a reply: one extraction at a time, which goes on to ask the model.  That
\* one has started within the last minutes stops it too, which is less than a tick.
RememberAsync(x) ==
  /\ pc[x] = "idle" /\ ~inflight
  /\ inflight' = TRUE
  /\ pc' = [pc EXCEPT ![x] = "model"]
  /\ UNCHANGED <<table, clock, todo, cur, found, limiting, decaying>>

\* The model answers with candidates.
Extract(x, C) ==
  /\ pc[x] = "model" /\ C # {}
  /\ todo' = [todo EXCEPT ![x] = C]
  /\ pc' = [pc EXCEPT ![x] = "select"]
  /\ UNCHANGED <<table, clock, inflight, cur, found, limiting, decaying>>

\* The panel adds one memory.
AddManual(c) ==
  /\ pc[Panel] = "idle"
  /\ todo' = [todo EXCEPT ![Panel] = {c}]
  /\ pc' = [pc EXCEPT ![Panel] = "select"]
  /\ UNCHANGED <<table, clock, inflight, cur, found, limiting, decaying>>

\* AddMemory looks for a row with the same content.
Select(w) ==
  /\ pc[w] = "select"
  /\ \E c \in todo[w] :
       LET same == {i \in Stored : rows[i].content = c}
       IN  /\ cur' = [cur EXCEPT ![w] = c]
           /\ todo' = [todo EXCEPT ![w] = @ \ {c}]
           /\ \E i \in IF same = {} THEN {NoId} ELSE same :
                found' = [found EXCEPT ![w] = i]
  /\ pc' = [pc EXCEPT ![w] = "write"]
  /\ UNCHANGED <<table, clock, inflight, limiting, decaying>>

\* After a write: the next candidate, or the end of AddManual, or the limit.
AfterWrite(w) ==
  /\ pc' = [pc EXCEPT ![w] = IF todo[w] # {} THEN "select"
                             ELSE IF w = Panel THEN "idle" ELSE "count"]
  /\ cur' = [cur EXCEPT ![w] = NoContent]
  /\ found' = [found EXCEPT ![w] = NoId]

\* There was none: a new row.
Insert(w, importance) ==
  /\ pc[w] = "write" /\ found[w] = NoId /\ lastId < MaxIds
  /\ LET i == lastId + 1
         row == [content |-> cur[w], importance |-> importance, auto |-> w # Panel,
                 created |-> clock, lastAccess |-> 0]
     IN  /\ lastId' = i
         /\ rows' = [j \in Stored \cup {i} |-> IF j = i THEN row ELSE rows[j]]
         /\ born' = [born EXCEPT ![i] = importance]
  /\ late' = [v \in Writers |->
                IF pc[v] \in {"list", "delete", "done"} THEN late[v] + 1 ELSE late[v]]
  /\ AfterWrite(w)
  /\ UNCHANGED <<clock, inflight, todo, excess, listed, counted, decaying>>

\* A memory mentioned again counts for more, at most for 1.0.
Raised(importance) == Least(importance + 1, Top)

\* There was one: it is raised, if it is still there.
Update(w) ==
  /\ pc[w] = "write" /\ found[w] # NoId
  /\ IF found[w] \in Stored
     THEN rows' = [rows EXCEPT ![found[w]].importance = Raised(@),
                               ![found[w]].lastAccess = clock]
     ELSE UNCHANGED rows
  /\ AfterWrite(w)
  /\ UNCHANGED <<lastId, born, clock, inflight, todo, limiting, decaying>>

-----------------------------------------------------------------------------
(* enforceLimit, after an extraction that has saved something.              *)

OverLimit(n) == IF n > MaxPerOwner THEN n - MaxPerOwner ELSE 0

\* CountMemories.
Count(x) ==
  LET n == Cardinality(Stored)
  IN  /\ pc[x] = "count"
      /\ counted' = [counted EXCEPT ![x] = n]
      /\ late' = [late EXCEPT ![x] = 0]
      /\ excess' = [excess EXCEPT ![x] = OverLimit(n)]
      /\ pc' = [pc EXCEPT ![x] = IF OverLimit(n) = 0 THEN "done" ELSE "list"]
      /\ UNCHANGED <<table, clock, inflight, todo, cur, found, listed, decaying>>

\* The rows ListMemories serves when n are asked for.
PageSize(n) == IF n > ListMax THEN ListDefault ELSE n

\* ListMemories: the first page of the rows in order.
List(x) ==
  /\ pc[x] = "list"
  /\ \E L \in SUBSET Stored :
       /\ Cardinality(L) = Least(PageSize(counted[x]), Cardinality(Stored))
       /\ \A i \in L, j \in Stored \ L : ~Below(rows[i], rows[j])
       /\ listed' = [listed EXCEPT ![x] = [i \in L |-> Ranked(rows[i])]]
       /\ pc' = [pc EXCEPT ![x] = IF L = {} THEN "done" ELSE "delete"]
  /\ UNCHANGED <<table, clock, inflight, todo, cur, found, excess, counted, late,
                 decaying>>

\* The end of a list.
LastOf(f, i) == \A j \in DOMAIN f : ~Below(f[j], f[i])

\* DeleteMemory of the last row of the list.
DeleteLast(x) ==
  /\ pc[x] = "delete"
  /\ \E i \in DOMAIN listed[x] :
       /\ LastOf(listed[x], i)
       /\ rows' = Without(rows, i)
       /\ listed' = [listed EXCEPT ![x] = Without(@, i)]
       /\ pc' = [pc EXCEPT ![x] = IF excess[x] = 1 \/ DOMAIN listed[x] = {i}
                                  THEN "done" ELSE "delete"]
  /\ excess' = [excess EXCEPT ![x] = @ - 1]
  /\ UNCHANGED <<lastId, born, clock, inflight, todo, cur, found, counted, late,
                 decaying>>

\* The writer's job ends: an extraction takes its mark away.
End(w) ==
  /\ pc' = [pc EXCEPT ![w] = "idle"] /\ todo' = [todo EXCEPT ![w] = {}]
  /\ cur' = [cur EXCEPT ![w] = NoContent] /\ found' = [found EXCEPT ![w] = NoId]
  /\ excess' = [excess EXCEPT ![w] = 0] /\ listed' = [listed EXCEPT ![w] = NoRows]
  /\ counted' = [counted EXCEPT ![w] = 0] /\ late' = [late EXCEPT ![w] = 0]

\* Whether the mark goes: always, it is deferred.
Released(x) == pc[x] # "idle"

\* Remember returns, with its work done or with nothing to save.
Return(x) ==
  /\ pc[x] \in {"done", "model"}
  /\ End(x)
  /\ inflight' = (inflight /\ ~Released(x))
  /\ UNCHANGED <<table, clock, decaying>>

\* The model or a statement fails, and the job is given up where it is.
Fail(w) ==
  /\ pc[w] \in {"model", "select", "write", "count", "list", "delete"}
  /\ End(w)
  /\ inflight' = IF w = Panel THEN inflight ELSE inflight /\ ~Released(w)
  /\ UNCHANGED <<table, clock, decaying>>

-----------------------------------------------------------------------------
(* The others.                                                              *)

TouchMemory(i) == rows' = [rows EXCEPT ![i].lastAccess = clock]

\* Recall uses the important ones of the rows its search has found, and touches
\* them one by one; a row that has gone meanwhile is not touched.
Recall(i) ==
  /\ i \in Stored /\ rows[i].importance >= MinRecall
  /\ TouchMemory(i)
  /\ UNCHANGED <<lastId, born, clock, inflight, pc, todo, cur, found, limiting,
                 decaying>>

\* The `forget' plugin.
Forget ==
  /\ rows' = NoRows
  /\ UNCHANGED <<lastId, born, clock, inflight, pc, todo, cur, found, limiting,
                 decaying>>

\* The panel deletes a row.
DeleteMemory(i) ==
  /\ i \in Stored
  /\ rows' = Without(rows, i)
  /\ UNCHANGED <<lastId, born, clock, inflight, pc, todo, cur, found, limiting,
                 decaying>>

\* The panel's requests.
AdminMemories ==
  \/ \E c \in Contents : AddManual(c)
  \/ \E i \in Ids : DeleteMemory(i)

\* The maintenance, at most once a tick, reads all rows ...
Maintain ==
  /\ items = NoRows /\ decayAt < clock
  /\ items' = [i \in Stored |-> Dated(rows[i])] /\ decayAt' = clock
  /\ UNCHANGED <<table, clock, inflight, pc, todo, cur, found, limiting>>

Age(r) == decayAt - LastUse(r)
Decayed(r) == IF Age(r) < r.importance THEN r.importance - Age(r) ELSE 0

\* ... and deletes, lowers or leaves one after the other.
DecayMemory(i) ==
  LET r == items[i]
  IN  /\ i \in DOMAIN items
      /\ rows' = IF i \notin Stored \/ Age(r) <= 0 THEN rows
                 ELSE IF Decayed(r) < Floor /\ Age(r) > HalfLife THEN Without(rows, i)
                 ELSE [rows EXCEPT ![i].importance = Decayed(r)]
      /\ items' = Without(items, i)
      /\ UNCHANGED <<lastId, born, clock, inflight, pc, todo, cur, found, limiting,
                     decayAt>>

\* A statement of the decay fails: the rest is left.
GiveUp ==
  /\ items # NoRows
  /\ items' = NoRows
  /\ UNCHANGED <<table, clock, inflight, pc, todo, cur, found, limiting, decayAt>>

Tick ==
  /\ clock < MaxTime
  /\ clock' = clock + 1
  /\ UNCHANGED <<table, inflight, pc, todo, cur, found, limiting, decaying>>

\* The process dies and starts again; the table stays.
Restart ==
  /\ inflight' = FALSE
  /\ pc' = [w \in Writers |-> "idle"] /\ todo' = [w \in Writers |-> {}]
  /\ cur' = [w \in Writers |-> NoContent] /\ found' = [w \in Writers |-> NoId]
  /\ excess' = [w \in Writers |-> 0] /\ listed' = [w \in Writers |-> NoRows]
  /\ counted' = [w \in Writers |-> 0] /\ late' = [w \in Writers |-> 0]
  /\ items' = NoRows
  /\ UNCHANGED <<table, clock, decayAt>>

\* What a writer does until its job is done.
Write(w) ==
  \/ Select(w) \/ Update(w) \/ Fail(w)
  \/ \E importance \in Levels \ {0} : Insert(w, importance)
Remember(x) ==
  \/ Write(x) \/ Count(x) \/ List(x) \/ DeleteLast(x) \/ Return(x)
  \/ \E C \in SUBSET Contents : Extract(x, C)

Next ==
  \/ \E x \in Extractors : RememberAsync(x) \/ Remember(x)
  \/ AdminMemories \/ Write(Panel)
  \/ \E i \in Ids : Recall(i) \/ DecayMemory(i)
  \/ Forget \/ Maintain \/ GiveUp \/ Tick \/ Restart

\* A started extraction goes on: the model and the database have timeouts.
Spec == Init /\ [][Next]_vars /\ \A x \in Extractors : WF_vars(Remember(x))

-----------------------------------------------------------------------------
\* Every variable has its type.
TypeOK ==
  /\ lastId \in 0..MaxIds /\ Stored \subseteq 1..lastId /\ rows \in [Stored -> Row]
  /\ clock \in 1..MaxTime /\ inflight \in BOOLEAN
  /\ pc \in [Writers -> {"idle", "model", "select", "write", "count", "list",
                         "delete", "done"}]
  /\ todo \in [Writers -> SUBSET Contents]
  /\ cur \in [Writers -> Contents \cup {NoContent}]
  /\ \A w \in Writers : pc[w] = "write" => cur[w] \in Contents
  /\ found \in [Writers -> 0..MaxIds] /\ excess \in [Writers -> Nat]
  /\ DOMAIN listed = Writers
  /\ \A w \in Writers : /\ DOMAIN listed[w] \subseteq Ids
                        /\ listed[w] \in [DOMAIN listed[w] -> Ranks]
                        /\ pc[w] = "delete" => excess[w] > 0
  /\ DOMAIN items \subseteq Ids /\ items \in [DOMAIN items -> Dates]
  /\ decayAt \in 0..MaxTime
  /\ counted \in [Writers -> Nat] /\ late \in [Writers -> Nat]
  /\ born \in [Ids -> Levels]

\* However extractions follow each other, fail and restart, none writes a second
\* row for what an earlier one has written ("one extraction at a time, or it may
\* write the same memory twice", memory.go:95), although AddMemory's look-up and
\* its insert are two statements.
AutoRowsDistinct ==
  \A i, j \in Stored :
    rows[i].auto /\ rows[j].auto /\ rows[i].content = rows[j].content => i = j

\* When an extraction has enforced the limit, no more rows are left than the
\* limit and those inserted by others since it counted, as long as the table does
\* not hold more than one page (memory.go:347).
LimitKept ==
  \A x \in Extractors :
    pc[x] = "done" /\ counted[x] <= ListMax =>
      Cardinality(Stored) <= MaxPerOwner + late[x]

\* The limit takes from the end of the list ("what is too much is what stands at
\* the end", memory.go:362): of the rows that stay, all but those inserted by
\* others since the count were read as no less important than the one deleted.
LeastGo ==
  [][\A x \in Extractors, i \in Ids :
       /\ pc[x] = "delete" /\ counted[x] <= ListMax
       /\ i \in DOMAIN listed[x] /\ listed'[x] = Without(listed[x], i)
       => Cardinality({j \in DOMAIN rows' :
                         j \notin DOMAIN listed[x] \/ Below(listed[x][j], listed[x][i])})
            <= late[x]]_vars

\* The decay deletes what nobody has asked about for a half-life ("old fragments
\* nobody asked for", memories.go:476): a memory used within it goes only if that
\* use came during the very pass that deletes it.
PruneSparesUsed ==
  [][\A i \in DOMAIN items \cap Stored :
       items' = Without(items, i) /\ i \notin DOMAIN rows' =>
         \/ decayAt - LastUse(rows[i]) > HalfLife
         \/ LastUse(rows[i]) # LastUse(items[i])]_vars

\* An extraction, successful or not, makes room for the next one (memory.go:311).
GateReopens == inflight ~> ~inflight

\* "Every half-life halves the importance" (memories.go:534): a memory that nobody
\* has used has lost no more than its age.  The decay takes the whole age again at
\* every maintenance, so this does not hold.
HalfLifeKept ==
  \A i \in Stored :
    rows[i].lastAccess = 0 => rows[i].importance >= born[i] - (clock - rows[i].created)

-----------------------------------------------------------------------------
(* The inductive invariant behind the proofs in MemoryProofs.               *)

\* The mark is there while an extraction runs, so there is one at most.
GateOK ==
  /\ \A x \in Extractors : pc[x] # "idle" => inflight
  /\ \A x, y \in Extractors : pc[x] # "idle" /\ pc[y] # "idle" => x = y

\* What an extraction is about to insert has not been inserted by another one.
FreshOK ==
  \A x \in Extractors : pc[x] = "write" /\ found[x] = NoId =>
    \A i \in Stored : rows[i].auto => rows[i].content # cur[x]

\* The panel does not enforce the limit.
PanelOK == pc[Panel] \in {"idle", "select", "write"}

\* What an extraction has counted, listed and deleted accounts for all rows but
\* those inserted late; without the latter nothing is missing from the list.
LimitOK ==
  \A x \in Extractors :
    /\ pc[x] = "list" => /\ counted[x] = MaxPerOwner + excess[x] /\ excess[x] > 0
                         /\ Cardinality(Stored) <= counted[x] + late[x]
    /\ pc[x] = "delete" /\ counted[x] <= ListMax =>
         /\ Cardinality(Stored \cup DOMAIN listed[x]) <= MaxPerOwner + excess[x] + late[x]
         /\ Cardinality(Stored \ DOMAIN listed[x]) <= late[x]

IInv == /\ TypeOK /\ AutoRowsDistinct /\ LimitKept
        /\ GateOK /\ FreshOK /\ PanelOK /\ LimitOK
=============================================================================
