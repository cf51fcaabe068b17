---------------------------- MODULE PanelProofs -----------------------------
(***************************************************************************)
(* Proofs about Panel and the configuration below it, for every set of     *)
(* passwords, credentials and requests: the types, the one setup, the      *)
(* saves that stay on disk and the sessions that know the password.        *)
(***************************************************************************)
EXTENDS Panel, TLAPS

\* The steps of the specification, by name.
LEMMA StepCases ==
  ASSUME [PanelNext]_panelState
  PROVE  \/ \E r \in Requests, p \in Passwords : SetupArrives(r, p)
         \/ \E r \in Requests, p \in Passwords \cup {None} : LoginArrives(r, p)
         \/ \E r \in Requests, a \in Apps : EditArrives(r, a)
         \/ LoadConfig /\ UNCHANGED panelVars
         \/ Repair /\ UNCHANGED panelVars
         \/ WriteBackup /\ UNCHANGED panelVars
         \/ Saves \/ SaveFails \/ TimePasses \/ SessionEnds \/ Crash
         \/ \E r \in Requests : \/ SetupRefused(r) \/ SetupClaims(r)
                                \/ LoginCompares(r) \/ Open(r) \/ Edit(r)
         \/ UNCHANGED panelState
BY DEF PanelNext, Arrive, Work

-----------------------------------------------------------------------------
(* Records.                                                                 *)

LEMMA ConfigFields ==
  /\ \A c \in Configs : /\ c.pwd \in Passwords \cup {None} /\ c["pwd"] = c.pwd
                        /\ c.app \in Apps \cup {None} /\ c["app"] = c.app
  /\ DefaultConfig \in Configs
  /\ \A c \in Configs : /\ [c EXCEPT !.old = FALSE] \in Configs
                        /\ [c EXCEPT !.old = FALSE].pwd = c.pwd
                        /\ [c EXCEPT !.old = FALSE].app = c.app
BY DEF Configs, DefaultConfig

\* Merging takes what the update gives and keeps the rest.
LEMMA MergedFields ==
  ASSUME NEW c \in Configs, NEW p \in Passwords \cup {None}, NEW a \in Apps \cup {None}
  PROVE  LET new == [pwd |-> p, app |-> a] IN
         /\ Merged(c, new) \in Configs
         /\ Merged(c, new).pwd = IF p = None THEN c.pwd ELSE p
         /\ Merged(c, new).app = IF a = None THEN c.app ELSE a
         /\ Given(new) \subseteq Fields
         /\ "pwd" \in Given(new) <=> p # None
         /\ "app" \in Given(new) <=> a # None
BY DEF Configs, Merged, Given, Fields

LEMMA RequestFields ==
  /\ Idle \in Request
  /\ \A q \in Request : /\ q.pwd \in Passwords \cup {None}
                        /\ q.app \in Apps \cup {None} /\ q.claimed \in BOOLEAN
BY DEF Idle, Request

-----------------------------------------------------------------------------
(* Types.                                                                   *)

\* What an update does to the configuration keeps the types.
LEMMA UpdateType ==
  ASSUME ConfigTypeOK, MemoryOK, NEW r \in Requests,
         NEW p \in Passwords \cup {None}, NEW a \in Apps \cup {None},
         Update(r, [pwd |-> p, app |-> a])
  PROVE  ConfigTypeOK'
<1>1. mem \in Configs
  BY DEF Update, Free, MemoryOK
<1>2. mem' \in Configs /\ Given([pwd |-> p, app |-> a]) \subseteq Fields
  BY <1>1, MergedFields DEF Update
<1>3. saving' \in [by : Requests \cup {None, Main}, next : {"none", "bak", "file"},
                   fields : SUBSET Fields]
  BY <1>2 DEF Update, Save
<1>4. owed' \in [Fields -> Passwords \cup Apps \cup {None}]
  BY DEF Update, ConfigTypeOK
<1>. QED BY <1>2, <1>3, <1>4 DEF Update, ConfigTypeOK

\* Every variable keeps its type on every step.
LEMMA TypeStep == PanelTypeOK /\ SavingOK /\ MemoryOK /\ [PanelNext]_panelState => PanelTypeOK'
<1>. SUFFICES ASSUME PanelTypeOK, SavingOK, MemoryOK, [PanelNext]_panelState
              PROVE  PanelTypeOK'
  OBVIOUS
<1>. USE PanelAssumption DEF configVars, panelVars
<1>1. (Fail \/ Reset \/ UNCHANGED <<misses, locked>>)
        => misses' \in 0..(MaxTries - 1) /\ locked' \in BOOLEAN
  <2>1. misses \in 0..(MaxTries - 1) /\ locked \in BOOLEAN
    BY DEF PanelTypeOK
  <2>2. Fail => misses' \in 0..(MaxTries - 1) /\ (locked' = TRUE \/ locked' = locked)
    BY <2>1 DEF Fail
  <2>3. Reset => misses' \in 0..(MaxTries - 1) /\ locked' = FALSE
    BY DEF Reset
  <2>4. UNCHANGED <<misses, locked>> => misses' \in 0..(MaxTries - 1) /\ locked' = locked
    BY <2>1
  <2>. HIDE DEF Fail
  <2>. QED BY <2>1, <2>2, <2>3, <2>4, Zenon
<1>2. ASSUME NEW r \in Requests, Done(r) PROVE req' \in [Requests -> Request]
  BY <1>2, RequestFields DEF PanelTypeOK, Done
<1>3. ASSUME NEW r \in Requests, Goto(r, "open") PROVE req' \in [Requests -> Request]
  BY <1>3 DEF PanelTypeOK, Goto, Request
<1>4. UNCHANGED configVars => ConfigTypeOK'
  BY DEF PanelTypeOK, ConfigTypeOK
<1>5. ASSUME NEW r \in Requests, NEW p \in Passwords, SetupArrives(r, p) PROVE PanelTypeOK'
  <2>1. req' \in [Requests -> Request]
    <3>. DEFINE arrived == [req[r] EXCEPT !.step = "setup", !.pwd = p]
    <3>1. arrived \in Request
      BY DEF PanelTypeOK, Request
    <3>2. req' = [req EXCEPT ![r] = arrived]
      BY <1>5 DEF SetupArrives, PanelTypeOK
    <3>. QED BY <3>1, <3>2 DEF PanelTypeOK
  <2>. QED BY <2>1, <1>4, <1>5 DEF PanelTypeOK, SetupArrives
<1>6. ASSUME NEW r \in Requests, NEW p \in Passwords \cup {None}, LoginArrives(r, p)
      PROVE  PanelTypeOK'
  <2>1. req' \in [Requests -> Request]
    <3>. DEFINE arrived == [req[r] EXCEPT !.step = "login", !.pwd = p]
    <3>1. arrived \in Request
      BY DEF PanelTypeOK, Request
    <3>2. req' = [req EXCEPT ![r] = arrived]
      BY <1>6 DEF LoginArrives, PanelTypeOK
    <3>. QED BY <3>1, <3>2 DEF PanelTypeOK
  <2>. QED BY <2>1, <1>4, <1>6 DEF PanelTypeOK, LoginArrives
<1>7. ASSUME NEW r \in Requests, NEW a \in Apps, EditArrives(r, a) PROVE PanelTypeOK'
  <2>1. req' \in [Requests -> Request]
    <3>. DEFINE arrived == [req[r] EXCEPT !.step = "edit", !.app = a]
    <3>1. arrived \in Request
      BY DEF PanelTypeOK, Request
    <3>2. req' = [req EXCEPT ![r] = arrived]
      BY <1>7 DEF EditArrives, PanelTypeOK
    <3>. QED BY <3>1, <3>2 DEF PanelTypeOK
  <2>. QED BY <2>1, <1>4, <1>7 DEF PanelTypeOK, EditArrives
<1>8. CASE LoadConfig /\ UNCHANGED panelVars
  <2>1. mem' \in Configs
    BY <1>8, ConfigFields DEF PanelTypeOK, ConfigTypeOK, LoadConfig
  <2>2. saving' \in [by : Requests \cup {None, Main}, next : {"none", "bak", "file"},
                     fields : SUBSET Fields]
    BY <1>8 DEF PanelTypeOK, ConfigTypeOK, LoadConfig, Save
  <2>. QED BY <2>1, <2>2, <1>8 DEF PanelTypeOK, ConfigTypeOK, LoadConfig
<1>9. CASE Repair /\ UNCHANGED panelVars
  BY <1>9 DEF PanelTypeOK, ConfigTypeOK, Repair
<1>10. CASE WriteBackup /\ UNCHANGED panelVars
  BY <1>10 DEF PanelTypeOK, ConfigTypeOK, WriteBackup, Backup
<1>11. /\ Nobody \in [by : Requests \cup {None, Main}, next : {"none", "bak", "file"},
                      fields : SUBSET Fields]
       /\ saving.next # "none" /\ saving.by # Main => saving.by \in Requests
  BY DEF Nobody, SavingOK
<1>12. CASE Saves
  <2>1. mem \in Configs
    BY <1>12 DEF Saves, WriteFile, SavingOK, MemoryOK
  <2>2. ConfigTypeOK'
    BY <2>1, <1>11, <1>12, ConfigFields
    DEF PanelTypeOK, ConfigTypeOK, Saves, WriteFile, Fields
  <2>3. req' \in [Requests -> Request]
    BY <1>2, <1>3, <1>11, <1>12 DEF PanelTypeOK, Saves, WriteFile
  <2>. QED BY <2>2, <2>3, <1>12 DEF PanelTypeOK, Saves
<1>13. CASE SaveFails
  <2>1. ConfigTypeOK'
    BY <1>11, <1>13 DEF PanelTypeOK, ConfigTypeOK, SaveFails, WriteFileFails
  <2>2. req' \in [Requests -> Request]
    BY <1>2, <1>11, <1>13 DEF PanelTypeOK, SaveFails, WriteFileFails
  <2>. QED BY <2>1, <2>2, <1>13 DEF PanelTypeOK, SaveFails
<1>14. CASE TimePasses
  BY <1>1, <1>4, <1>14 DEF PanelTypeOK, TimePasses
<1>15. CASE SessionEnds
  BY <1>4, <1>15 DEF PanelTypeOK, SessionEnds
<1>16. CASE Crash
  <2>1. ConfigTypeOK'
    BY <1>11, <1>16 DEF PanelTypeOK, ConfigTypeOK, Crash, Dies
  <2>. QED BY <2>1, <1>1, <1>16, RequestFields DEF PanelTypeOK, Crash
<1>17. ASSUME NEW r \in Requests, SetupRefused(r) PROVE PanelTypeOK'
  BY <1>1, <1>2, <1>4, <1>17 DEF PanelTypeOK, SetupRefused
<1>18. ASSUME NEW r \in Requests, SetupClaims(r) PROVE PanelTypeOK'
  <2>1. ConfigTypeOK'
    BY <1>18, UpdateType, RequestFields DEF PanelTypeOK, SetupClaims
  <2>2. req' \in [Requests -> Request]
    <3>. DEFINE asked == [req[r] EXCEPT !.step = "saving", !.claimed = Claims(r)]
    <3>1. asked \in Request
      BY DEF PanelTypeOK, Request, Claims
    <3>2. req' = [req EXCEPT ![r] = asked]
      BY <1>18 DEF SetupClaims, PanelTypeOK
    <3>. QED BY <3>1, <3>2 DEF PanelTypeOK
  <2>. QED BY <2>1, <2>2, <1>18 DEF PanelTypeOK, SetupClaims
<1>19. ASSUME NEW r \in Requests, LoginCompares(r) PROVE PanelTypeOK'
  BY <1>1, <1>2, <1>3, <1>4, <1>19 DEF PanelTypeOK, LoginCompares
<1>20. ASSUME NEW r \in Requests, Open(r) PROVE PanelTypeOK'
  <2>1. req[r].pwd \in Passwords \cup {None} /\ setups' \in Nat
    BY <1>20, RequestFields DEF PanelTypeOK, Open
  <2>. QED BY <2>1, <1>1, <1>2, <1>4, <1>20 DEF PanelTypeOK, Open
<1>21. ASSUME NEW r \in Requests, Edit(r) PROVE PanelTypeOK'
  <2>1. ConfigTypeOK'
    BY <1>21, UpdateType, RequestFields DEF PanelTypeOK, Edit
  <2>2. req' \in [Requests -> Request]
    BY <1>21 DEF PanelTypeOK, Edit, Goto, Request
  <2>. QED BY <2>1, <2>2, <1>21 DEF PanelTypeOK, Edit
<1>22. CASE UNCHANGED panelState
  BY <1>4, <1>22 DEF PanelTypeOK, panelState
<1>. QED BY StepCases, <1>5, <1>6, <1>7, <1>8, <1>9, <1>10, <1>12, <1>13, <1>14, <1>15,
            <1>16, <1>17, <1>18, <1>19, <1>20, <1>21, <1>22

-----------------------------------------------------------------------------
(* The configuration: the lock, memory and the file.                        *)

\* What the steps do to the configuration; an update that gives a password
\* has seen that there is none.
LEMMA ConfigCases ==
  ASSUME PanelTypeOK, [PanelNext]_panelState
  PROVE  \/ UNCHANGED configVars
         \/ LoadConfig \/ Repair \/ WriteBackup \/ WriteFile \/ WriteFileFails \/ Crash
         \/ \E r \in Requests, p \in Passwords \cup {None}, a \in Apps \cup {None} :
              Update(r, [pwd |-> p, app |-> a]) /\ (p # None => mem.pwd = None)
<1>1. ASSUME NEW r \in Requests, SetupClaims(r)
      PROVE  \E p \in Passwords \cup {None}, a \in Apps \cup {None} :
               Update(r, [pwd |-> p, app |-> a]) /\ (p # None => mem.pwd = None)
  <2>. DEFINE p == IF Claims(r) THEN req[r].pwd ELSE None
  <2>1. p \in Passwords \cup {None} /\ (p # None => mem.pwd = None)
    BY RequestFields DEF PanelTypeOK, Claims
  <2>2. Update(r, [pwd |-> p, app |-> None])
    BY <1>1 DEF SetupClaims
  <2>. HIDE DEF p
  <2>. QED BY <2>1, <2>2
<1>2. ASSUME NEW r \in Requests, Edit(r)
      PROVE  \E a \in Apps \cup {None} : Update(r, [pwd |-> None, app |-> a])
  BY <1>2, RequestFields DEF PanelTypeOK, Edit
<1>3. ASSUME NEW r \in Requests, SetupRefused(r) \/ LoginCompares(r) \/ Open(r)
      PROVE  UNCHANGED configVars
  BY <1>3 DEF SetupRefused, LoginCompares, Open
<1>4. ASSUME NEW r \in Requests, NEW p, SetupArrives(r, p) \/ LoginArrives(r, p) \/ EditArrives(r, p)
      PROVE  UNCHANGED configVars
  BY <1>4 DEF SetupArrives, LoginArrives, EditArrives
<1>5. /\ (Saves => WriteFile) /\ (SaveFails => WriteFileFails)
      /\ TimePasses \/ SessionEnds \/ UNCHANGED panelState => UNCHANGED configVars
  BY DEF Saves, SaveFails, TimePasses, SessionEnds, panelState
<1>. QED BY StepCases, <1>1, <1>2, <1>3, <1>4, <1>5

\* The lock stays with main while it starts, and with requests after that.
LEMMA SavingStep == PanelTypeOK /\ SavingOK /\ [PanelNext]_panelState => SavingOK'
<1>. SUFFICES ASSUME PanelTypeOK, SavingOK, [PanelNext]_panelState PROVE SavingOK'
  OBVIOUS
<1>1. CASE UNCHANGED configVars
  BY <1>1 DEF SavingOK, configVars
<1>2. CASE LoadConfig
  BY <1>2 DEF SavingOK, LoadConfig, Save, Nobody
<1>3. CASE Repair
  BY <1>3 DEF SavingOK, Repair
<1>4. CASE WriteBackup
  BY <1>4 DEF SavingOK, WriteBackup, Backup, PanelTypeOK, ConfigTypeOK
<1>5. CASE WriteFile \/ Crash
  BY <1>5 DEF SavingOK, WriteFile, Crash, Dies, Nobody
<1>6. CASE WriteFileFails
  BY <1>6, ConfigAssumption DEF SavingOK, WriteFileFails, Nobody
<1>7. ASSUME NEW r \in Requests, NEW new, Update(r, new) PROVE SavingOK'
  BY <1>7 DEF SavingOK, Update, Save, Free
<1>. QED BY ConfigCases, <1>1, <1>2, <1>3, <1>4, <1>5, <1>6, <1>7

\* What a save has promised is in memory: an update withdraws the promise of
\* the fields it changes, and a start reads what the file holds.
LEMMA MemoryStep ==
  PanelTypeOK /\ SavingOK /\ MemoryOK /\ AckedOnDisk /\ [PanelNext]_panelState => MemoryOK'
<1>. SUFFICES ASSUME PanelTypeOK, SavingOK, MemoryOK, AckedOnDisk, [PanelNext]_panelState
              PROVE  MemoryOK'
  OBVIOUS
<1>1. CASE UNCHANGED configVars
  BY <1>1 DEF MemoryOK, configVars
<1>2. CASE LoadConfig
  <2>1. file = Absent \/ file \in Configs
    BY <1>2 DEF LoadConfig, PanelTypeOK, ConfigTypeOK
  <2>2. CASE file = Absent
    BY <2>2, <1>2, ConfigFields, ConfigAssumption DEF MemoryOK, LoadConfig, AckedOnDisk
  <2>3. CASE file # Absent /\ file \in Configs
    <3>1. mem' = [file EXCEPT !.old = FALSE] /\ owed' = owed
      BY <2>3, <1>2 DEF LoadConfig
    <3>2. mem' \in Configs /\ \A f \in Fields : mem'[f] = file[f]
      BY <2>3, <3>1, ConfigFields DEF Fields
    <3>. QED BY <3>1, <3>2 DEF MemoryOK, AckedOnDisk
  <2>. QED BY <2>1, <2>2, <2>3
<1>3. CASE Repair
  BY <1>3 DEF MemoryOK, Repair
<1>4. CASE WriteBackup
  BY <1>4 DEF MemoryOK, WriteBackup, Backup
<1>5. CASE WriteFile
  BY <1>5 DEF MemoryOK, SavingOK, WriteFile, PanelTypeOK, ConfigTypeOK
<1>6. CASE WriteFileFails
  BY <1>6 DEF MemoryOK, WriteFileFails
<1>7. CASE Crash
  BY <1>7 DEF MemoryOK, Crash, Dies
<1>8. ASSUME NEW r \in Requests, NEW p \in Passwords \cup {None}, NEW a \in Apps \cup {None},
             Update(r, [pwd |-> p, app |-> a])
      PROVE  MemoryOK'
  <2>. DEFINE new == [pwd |-> p, app |-> a]
  <2>1. mem \in Configs /\ proc = "up"
    BY <1>8 DEF MemoryOK, Update, Free
  <2>2. /\ mem' \in Configs
        /\ \A f \in Fields \ Given(new) : mem'[f] = mem[f]
    BY <1>8, <2>1, MergedFields, ConfigFields DEF Update, Fields
  <2>3. \A f \in Fields : owed'[f] = IF f \in Given(new) THEN None ELSE owed[f]
    BY <1>8 DEF Update
  <2>. QED BY <2>1, <2>2, <2>3 DEF MemoryOK
<1>. QED BY ConfigCases, <1>1, <1>2, <1>3, <1>4, <1>5, <1>6, <1>7, <1>8

\* No step takes what a save has promised from the disk.
LEMMA DiskStep ==
  PanelTypeOK /\ SavingOK /\ MemoryOK /\ AckedOnDisk /\ [PanelNext]_panelState => AckedOnDisk'
<1>. SUFFICES ASSUME PanelTypeOK, SavingOK, MemoryOK, AckedOnDisk, [PanelNext]_panelState
              PROVE  AckedOnDisk'
  OBVIOUS
<1>1. CASE UNCHANGED <<file, owed>>
  BY <1>1 DEF AckedOnDisk
<1>2. CASE Repair
  BY <1>2, ConfigAssumption DEF Repair, AckedOnDisk
<1>3. CASE WriteFile
  <2>1. /\ mem \in Configs /\ file' = mem
        /\ \A f \in Fields : owed[f] # None => mem[f] = owed[f]
        /\ \A f \in Fields : owed'[f] = IF f \in saving.fields THEN mem[f] ELSE owed[f]
    BY <1>3 DEF SavingOK, MemoryOK, WriteFile
  <2>. QED BY <2>1 DEF AckedOnDisk
<1>4. ASSUME NEW r, NEW new, Update(r, new) PROVE AckedOnDisk'
  <2>1. file' = file /\ \A f \in Fields : owed'[f] = None \/ owed'[f] = owed[f]
    BY <1>4 DEF Update
  <2>. QED BY <2>1 DEF AckedOnDisk
<1>5. CASE LoadConfig \/ WriteBackup \/ WriteFileFails \/ Crash \/ UNCHANGED configVars
  BY <1>1, <1>5 DEF LoadConfig, WriteBackup, Backup, WriteFileFails, Crash, Dies, configVars
<1>. QED BY ConfigCases, <1>2, <1>3, <1>4, <1>5

-----------------------------------------------------------------------------
(* The requests and their sessions.                                         *)

\* One request's record, after each way in which a step may write it.
LEMMA RequestWrites ==
  ASSUME PanelTypeOK, NEW r \in Requests
  PROVE  /\ Done(r) => req'[r] = Idle
         /\ \A step : Goto(r, step) =>
              /\ req'[r].step = step /\ req'[r].pwd = req[r].pwd
              /\ req'[r].claimed = req[r].claimed
         /\ \A step : Done(r) \/ Goto(r, step) => \A s \in Requests \ {r} : req'[s] = req[s]
BY DEF PanelTypeOK, Request, Done, Goto

\* What an update by a request does to the lock and to the password.
LEMMA UpdateEffect ==
  ASSUME MemoryOK, NEW r \in Requests, NEW p \in Passwords \cup {None},
         NEW a \in Apps \cup {None}, Update(r, [pwd |-> p, app |-> a])
  PROVE  /\ proc = "up" /\ proc' = "up" /\ saving = Nobody
         /\ saving'.by = r /\ saving'.next # "none"
         /\ mem'.pwd = IF p = None THEN mem.pwd ELSE p
         /\ p # None => "pwd" \in saving'.fields
         /\ p = None => owed'["pwd"] = owed["pwd"]
<1>1. proc = "up" /\ proc' = "up" /\ saving = Nobody /\ mem \in Configs
  BY DEF Update, Free, MemoryOK
<1>2. saving' = [by |-> r, next |-> IF file = Absent THEN "file" ELSE "bak",
                 fields |-> Given([pwd |-> p, app |-> a])]
  BY DEF Update, Save
<1>3. p = None => owed'["pwd"] = owed["pwd"]
  BY <1>1, MergedFields DEF Update, Fields
<1>. QED BY <1>1, <1>2, <1>3, MergedFields DEF Update

\* Who waits for a save holds the lock, and who is about to open a session has
\* the password that memory has.
LEMMA RequestsStep ==
  PanelTypeOK /\ SavingOK /\ MemoryOK /\ RequestsOK /\ ClaimOK /\ [PanelNext]_panelState
    => RequestsOK'
<1>. SUFFICES ASSUME PanelTypeOK, SavingOK, MemoryOK, RequestsOK, ClaimOK,
                     [PanelNext]_panelState
              PROVE  RequestsOK'
  OBVIOUS
<1>. USE DEF configVars, panelVars
<1>. DEFINE Good(q) == /\ q.step # "saving" /\ (q.step = "setup" => q.pwd # None)
                       /\ (q.step = "open" => q.pwd # None /\ q.pwd = mem.pwd)
<1>1. ASSUME UNCHANGED configVars, proc = "up",
             NEW r \in Requests, \A s \in Requests \ {r} : req'[s] = req[s],
             req[r].step # "saving", Good(req'[r])
      PROVE  RequestsOK'
  BY <1>1 DEF RequestsOK
<1>2. ASSUME NEW r \in Requests, req[r].step # "idle" PROVE proc = "up"
  BY <1>2 DEF RequestsOK, Idle
<1>3. ASSUME NEW r \in Requests, NEW p \in Passwords, SetupArrives(r, p) PROVE RequestsOK'
  <2>1. proc = "up" /\ p # None /\ req[r].step = "idle"
    BY <1>3, ConfigAssumption DEF SetupArrives, Free
  <2>2. /\ req'[r].step = "setup" /\ req'[r].pwd = p
        /\ \A s \in Requests \ {r} : req'[s] = req[s]
    BY <1>3 DEF PanelTypeOK, SetupArrives, Request
  <2>. QED BY <2>1, <2>2, <1>1, <1>3 DEF SetupArrives
<1>4. ASSUME NEW r \in Requests, NEW p, LoginArrives(r, p) PROVE RequestsOK'
  <2>1. /\ req'[r].step = "login" /\ req[r].step = "idle" /\ proc = "up"
        /\ \A s \in Requests \ {r} : req'[s] = req[s]
    BY <1>4 DEF PanelTypeOK, LoginArrives, Request
  <2>. QED BY <2>1, <1>1, <1>4 DEF LoginArrives
<1>5. ASSUME NEW r \in Requests, NEW a \in Apps, EditArrives(r, a) PROVE RequestsOK'
  <2>1. /\ req'[r].step = "edit" /\ req[r].step = "idle" /\ proc = "up"
        /\ \A s \in Requests \ {r} : req'[s] = req[s]
    BY <1>5 DEF PanelTypeOK, EditArrives, Request
  <2>. QED BY <2>1, <1>1, <1>5 DEF EditArrives
<1>6. CASE LoadConfig /\ UNCHANGED panelVars
  <2>1. (\A r \in Requests : req'[r] = Idle) /\ sessions' = {} /\ proc' # "down"
    BY <1>6 DEF LoadConfig, RequestsOK
  <2>3. Idle.step = "idle"
    BY DEF Idle
  <2>2. saving'.next # "none" => saving'.by = Main
    BY <1>6 DEF LoadConfig, SavingOK, Save, Nobody
  <2>. QED BY <2>1, <2>2, <2>3, ConfigAssumption DEF RequestsOK
<1>7. CASE Repair /\ UNCHANGED panelVars
  BY <1>7 DEF Repair, RequestsOK
<1>8. CASE WriteBackup /\ UNCHANGED panelVars
  <2>1. saving'.next # "none" /\ saving'.by = saving.by
    BY <1>8 DEF WriteBackup, Backup, PanelTypeOK, ConfigTypeOK
  <2>. QED BY <2>1, <1>8 DEF WriteBackup, Backup, RequestsOK
<1>9. saving.next = "file" => \/ saving.by = Main /\ proc = "booting"
                              \/ saving.by \in Requests /\ saving.by # Main /\ proc = "up"
  BY ConfigAssumption DEF SavingOK
<1>10. CASE Saves
  <2>1. /\ saving.next = "file" /\ saving' = Nobody /\ proc' = "up" /\ mem' = mem
        /\ sessions' = sessions /\ Nobody.next = "none"
    BY <1>10 DEF Saves, WriteFile, Nobody
  <2>2. CASE saving.by = Main
    <3>1. req' = req /\ \A r \in Requests : req[r].step = "idle"
      BY <2>1, <2>2, <1>9, <1>10 DEF Saves, RequestsOK, Idle
    <3>. QED BY <2>1, <3>1 DEF RequestsOK
  <2>3. CASE saving.by # Main
    <3>. DEFINE r == saving.by
    <3>1. r \in Requests /\ req[r].step = "saving"
      BY <2>1, <2>3, <1>9 DEF RequestsOK
    <3>2. \A s \in Requests \ {r} : req[s].step # "saving"
      BY <2>1 DEF RequestsOK
    <3>3. \A s \in Requests \ {r} : req'[s] = req[s]
      BY <3>1, <2>3, <1>10, RequestWrites DEF Saves
    <3>4. Good(req'[r])
      <4>1. CASE req[r].claimed
        <5>1. req'[r].step = "open" /\ req'[r].pwd = req[r].pwd
          BY <3>1, <4>1, <2>3, <1>10, RequestWrites DEF Saves
        <5>. QED BY <5>1, <4>1, <3>1 DEF ClaimOK
      <4>2. CASE ~req[r].claimed
        BY <4>2, <3>1, <2>3, <1>10, RequestWrites DEF Saves, Idle
      <4>. QED BY <4>1, <4>2
    <3>. QED BY <2>1, <3>1, <3>2, <3>3, <3>4 DEF RequestsOK
  <2>. QED BY <2>2, <2>3
<1>11. CASE SaveFails
  <2>1. saving.next = "file" /\ saving' = Nobody /\ sessions' = sessions /\ Nobody.next = "none"
    BY <1>11 DEF SaveFails, WriteFileFails, Nobody
  <2>2. CASE saving.by = Main
    <3>1. req' = req /\ (\A r \in Requests : req[r] = Idle) /\ sessions = {}
      BY <2>1, <2>2, <1>9, <1>11 DEF SaveFails, RequestsOK
    <3>2. Idle.step = "idle"
      BY DEF Idle
    <3>. QED BY <2>1, <3>1, <3>2 DEF RequestsOK
  <2>3. CASE saving.by # Main
    <3>. DEFINE r == saving.by
    <3>1. r \in Requests /\ proc' = proc /\ proc = "up" /\ mem' = mem
      BY <2>1, <2>3, <1>9, <1>11 DEF SaveFails, WriteFileFails
    <3>2. req'[r] = Idle /\ \A s \in Requests \ {r} : req'[s] = req[s] /\ req[s].step # "saving"
      BY <3>1, <2>1, <2>3, <1>11, RequestWrites DEF SaveFails, RequestsOK
    <3>. QED BY <2>1, <3>1, <3>2 DEF RequestsOK, Idle
  <2>. QED BY <2>2, <2>3
<1>12. CASE TimePasses
  BY <1>12 DEF TimePasses, RequestsOK
<1>13. CASE SessionEnds
  BY <1>13 DEF SessionEnds, RequestsOK
<1>14. CASE Crash
  BY <1>14 DEF Crash, Dies, RequestsOK, Idle, Nobody
<1>15. ASSUME NEW r \in Requests, SetupRefused(r) PROVE RequestsOK'
  <2>1. req'[r] = Idle /\ proc = "up" /\ req[r].step = "setup"
    BY <1>15, <1>2, RequestWrites DEF SetupRefused
  <2>. QED BY <2>1, <1>1, <1>15, RequestWrites DEF SetupRefused, Idle
<1>16. ASSUME NEW r \in Requests, NEW p \in Passwords \cup {None}, NEW a \in Apps \cup {None},
              Update(r, [pwd |-> p, app |-> a]), p # None => mem.pwd = None,
              req'[r].step = "saving", \A s \in Requests \ {r} : req'[s] = req[s],
              UNCHANGED sessions
       PROVE  RequestsOK'
  <2>1. \A s \in Requests : req[s].step = "open" => mem.pwd # None /\ mem'.pwd = mem.pwd
    BY <1>16, UpdateEffect DEF RequestsOK
  <2>2. \A s \in Requests \ {r} : req[s].step # "saving"
    BY <1>16, UpdateEffect DEF RequestsOK, Nobody
  <2>. QED BY <2>1, <2>2, <1>16, UpdateEffect DEF RequestsOK
<1>17. ASSUME NEW r \in Requests, SetupClaims(r) PROVE RequestsOK'
  <2>. DEFINE p == IF Claims(r) THEN req[r].pwd ELSE None
  <2>1. p \in Passwords \cup {None} /\ (p # None => mem.pwd = None)
    BY RequestFields DEF PanelTypeOK, Claims
  <2>2. Update(r, [pwd |-> p, app |-> None]) /\ UNCHANGED sessions
    BY <1>17 DEF SetupClaims
  <2>3. req'[r].step = "saving" /\ \A s \in Requests \ {r} : req'[s] = req[s]
    BY <1>17 DEF PanelTypeOK, SetupClaims, Request
  <2>. HIDE DEF p
  <2>. QED BY <2>1, <2>2, <2>3, <1>16
<1>18. ASSUME NEW r \in Requests, LoginCompares(r) PROVE RequestsOK'
  <2>1. proc = "up" /\ req[r].step = "login" /\ UNCHANGED configVars
    BY <1>18 DEF LoginCompares, Free
  <2>2. CASE Passes(req[r].pwd)
    <3>1. Goto(r, "open") /\ req[r].pwd # None /\ req[r].pwd = mem.pwd
      BY <2>2, <1>18 DEF LoginCompares, Passes
    <3>. QED BY <2>1, <3>1, <1>1, RequestWrites
  <2>3. CASE ~Passes(req[r].pwd)
    <3>1. Done(r)
      BY <2>3, <1>18 DEF LoginCompares
    <3>. QED BY <2>1, <3>1, <1>1, RequestWrites DEF Idle
  <2>. QED BY <2>2, <2>3
<1>19. ASSUME NEW r \in Requests, Open(r) PROVE RequestsOK'
  <2>1. req'[r] = Idle /\ proc = "up" /\ req[r].step = "open"
    BY <1>19, <1>2, RequestWrites DEF Open
  <2>. QED BY <2>1, <1>1, <1>19, RequestWrites DEF Open, Idle
<1>20. ASSUME NEW r \in Requests, Edit(r) PROVE RequestsOK'
  <2>1. Update(r, [pwd |-> None, app |-> req[r].app]) /\ UNCHANGED sessions
    BY <1>20 DEF Edit
  <2>2. req'[r].step = "saving" /\ \A s \in Requests \ {r} : req'[s] = req[s]
    BY <1>20, RequestWrites DEF Edit
  <2>3. req[r].app \in Apps \cup {None}
    BY RequestFields DEF PanelTypeOK
  <2>. QED BY <2>1, <2>2, <2>3, <1>16
<1>21. CASE UNCHANGED panelState
  BY <1>21 DEF panelState, RequestsOK
<1>. QED BY StepCases, <1>3, <1>4, <1>5, <1>6, <1>7, <1>8, <1>10, <1>11, <1>12, <1>13,
            <1>14, <1>15, <1>17, <1>18, <1>19, <1>20, <1>21

\* A password that was promised is never changed: updates give one only where
\* memory has none, and memory has what was promised.
LEMMA PasswordStays ==
  ASSUME PanelTypeOK, SavingOK, MemoryOK, [PanelNext]_panelState, owed["pwd"] # None
  PROVE  owed'["pwd"] = owed["pwd"]
<1>1. CASE UNCHANGED owed
  BY <1>1
<1>2. CASE LoadConfig \/ Repair \/ WriteBackup \/ WriteFileFails \/ Crash \/ UNCHANGED configVars
  BY <1>2 DEF LoadConfig, Repair, WriteBackup, Backup, WriteFileFails, Crash, Dies, configVars
<1>3. CASE WriteFile
  <2>1. mem["pwd"] = owed["pwd"]
    BY <1>3 DEF WriteFile, SavingOK, MemoryOK, Fields
  <2>. QED BY <2>1, <1>3 DEF WriteFile, Fields
<1>4. ASSUME NEW r \in Requests, NEW p \in Passwords \cup {None}, NEW a \in Apps \cup {None},
             Update(r, [pwd |-> p, app |-> a]), p # None => mem.pwd = None
      PROVE  owed'["pwd"] = owed["pwd"]
  <2>1. mem \in Configs /\ mem["pwd"] = owed["pwd"]
    BY <1>4, UpdateEffect DEF MemoryOK, Fields
  <2>2. p = None
    BY <2>1, <1>4, ConfigFields
  <2>. QED BY <2>2, <1>4, UpdateEffect
<1>. QED BY ConfigCases, <1>2, <1>3, <1>4

\* At most one setup has claimed the panel, and none does once one has counted.
LEMMA ClaimStep ==
  PanelTypeOK /\ SavingOK /\ MemoryOK /\ RequestsOK /\ ClaimOK /\ [PanelNext]_panelState
    => ClaimOK'
<1>. SUFFICES ASSUME PanelTypeOK, SavingOK, MemoryOK, RequestsOK, ClaimOK,
                     [PanelNext]_panelState
              PROVE  ClaimOK'
  OBVIOUS
<1>. USE DEF configVars, panelVars
<1>1. owed["pwd"] # None => owed'["pwd"] # None
  BY PasswordStays
<1>2. ASSUME NEW r \in Requests, req[r].step \notin {"saving", "open"}
      PROVE  ~req[r].claimed
  BY <1>2 DEF ClaimOK
<1>3. ~Idle.claimed /\ Idle.step = "idle" /\ Nobody.next = "none"
  BY DEF Idle, Nobody
\* A request that has claimed nothing goes on; so may the lock, for others.
<1>4. ASSUME UNCHANGED <<mem, setups>>, NEW r \in Requests,
             \A s \in Requests \ {r} : req'[s] = req[s], ~req'[r].claimed,
             \A s \in Requests \ {r} : req[s].step = "saving" => UNCHANGED saving
      PROVE  ClaimOK'
  BY <1>1, <1>4 DEF ClaimOK
<1>5. ASSUME UNCHANGED setups, \A r \in Requests : ~req'[r].claimed
      PROVE  ClaimOK'
  BY <1>1, <1>5 DEF ClaimOK
<1>6. ASSUME NEW r \in Requests, NEW p \in Passwords, SetupArrives(r, p) PROVE ClaimOK'
  <2>1. ~req'[r].claimed /\ \A s \in Requests \ {r} : req'[s] = req[s]
    BY <1>2, <1>6 DEF PanelTypeOK, SetupArrives, Request
  <2>. QED BY <2>1, <1>4, <1>6 DEF SetupArrives
<1>7. ASSUME NEW r \in Requests, NEW p, LoginArrives(r, p) PROVE ClaimOK'
  <2>1. ~req'[r].claimed /\ \A s \in Requests \ {r} : req'[s] = req[s]
    BY <1>2, <1>7 DEF PanelTypeOK, LoginArrives, Request
  <2>. QED BY <2>1, <1>4, <1>7 DEF LoginArrives
<1>8. ASSUME NEW r \in Requests, NEW a \in Apps, EditArrives(r, a) PROVE ClaimOK'
  <2>1. ~req'[r].claimed /\ \A s \in Requests \ {r} : req'[s] = req[s]
    BY <1>2, <1>8 DEF PanelTypeOK, EditArrives, Request
  <2>. QED BY <2>1, <1>4, <1>8 DEF EditArrives
<1>9. CASE (LoadConfig \/ Repair) /\ UNCHANGED panelVars
  <2>1. \A r \in Requests : req'[r] = Idle
    BY <1>9 DEF LoadConfig, Repair, RequestsOK
  <2>. QED BY <2>1, <1>3, <1>5, <1>9
<1>10. CASE WriteBackup /\ UNCHANGED panelVars
  <2>1. saving'.fields = saving.fields
    BY <1>10 DEF WriteBackup, Backup, PanelTypeOK, ConfigTypeOK
  <2>. QED BY <2>1, <1>1, <1>10 DEF WriteBackup, Backup, ClaimOK
<1>11. saving.next = "file" => \/ saving.by = Main /\ proc = "booting"
                               \/ saving.by \in Requests /\ saving.by # Main
  BY ConfigAssumption DEF SavingOK
<1>12. CASE Saves /\ saving.by = Main
  <2>1. \A r \in Requests : req'[r] = Idle
    BY <1>11, <1>12 DEF Saves, WriteFile, RequestsOK
  <2>. QED BY <2>1, <1>3, <1>5, <1>12 DEF Saves
<1>13. CASE Saves /\ saving.by # Main
  <2>. DEFINE r == saving.by
  <2>1. /\ r \in Requests /\ saving.next = "file" /\ UNCHANGED <<mem, setups>>
        /\ \A f \in Fields : owed'[f] = IF f \in saving.fields THEN mem[f] ELSE owed[f]
    BY <1>11, <1>13 DEF Saves, WriteFile
  <2>2. req[r].step = "saving" /\ \A s \in Requests \ {r} : req[s].step # "saving"
    BY <2>1 DEF RequestsOK
  <2>3. \A s \in Requests \ {r} : req'[s] = req[s]
    BY <2>1, <1>13, RequestWrites DEF Saves
  <2>4. CASE req[r].claimed
    <3>1. /\ req'[r].step = "open" /\ req'[r].pwd = req[r].pwd /\ req'[r].claimed
      BY <2>1, <2>4, <1>13, RequestWrites DEF Saves
    <3>2. /\ setups = 0 /\ req[r].pwd # None /\ req[r].pwd = mem.pwd /\ "pwd" \in saving.fields
          /\ \A s \in Requests : req[s].claimed => s = r
      BY <2>1, <2>2, <2>4 DEF ClaimOK
    <3>3. mem \in Configs
      BY <2>1, <1>13 DEF MemoryOK, SavingOK, Saves, WriteFile
    <3>4. owed'["pwd"] # None
      BY <3>2, <3>3, <2>1, ConfigFields DEF Fields
    <3>. QED BY <3>1, <3>2, <3>4, <2>1, <2>3 DEF ClaimOK
  <2>5. CASE ~req[r].claimed
    <3>1. ~req'[r].claimed
      BY <2>1, <2>5, <1>3, <1>13, RequestWrites DEF Saves
    <3>. QED BY <3>1, <2>1, <2>2, <2>3, <1>4
  <2>. QED BY <2>4, <2>5
<1>14. CASE SaveFails
  <2>1. saving.next = "file" /\ UNCHANGED setups
    BY <1>14 DEF SaveFails, WriteFileFails
  <2>2. CASE saving.by = Main
    <3>1. \A r \in Requests : req'[r] = Idle
      BY <2>1, <2>2, <1>11, <1>14 DEF SaveFails, RequestsOK
    <3>. QED BY <3>1, <2>1, <1>3, <1>5
  <2>3. CASE saving.by # Main
    <3>. DEFINE r == saving.by
    <3>1. r \in Requests /\ UNCHANGED mem
      BY <2>1, <2>3, <1>11, <1>14 DEF SaveFails, WriteFileFails
    <3>2. req'[r] = Idle /\ \A s \in Requests \ {r} : req'[s] = req[s] /\ req[s].step # "saving"
      BY <3>1, <2>1, <2>3, <1>14, RequestWrites DEF SaveFails, RequestsOK
    <3>. QED BY <3>1, <3>2, <2>1, <1>3, <1>4
  <2>. QED BY <2>2, <2>3
<1>15. CASE TimePasses \/ SessionEnds \/ UNCHANGED panelState
  BY <1>15 DEF TimePasses, SessionEnds, panelState, ClaimOK
<1>16. CASE Crash
  BY <1>3, <1>5, <1>16 DEF Crash
<1>17. ASSUME NEW r \in Requests, SetupRefused(r) PROVE ClaimOK'
  BY <1>3, <1>4, <1>17, RequestWrites DEF SetupRefused
<1>18. ASSUME NEW r \in Requests, NEW a \in Apps \cup {None},
              Update(r, [pwd |-> None, app |-> a]), UNCHANGED setups,
              \A s \in Requests \ {r} : req'[s] = req[s], ~req'[r].claimed
       PROVE  ClaimOK'
  <2>1. mem'.pwd = mem.pwd /\ \A s \in Requests : req[s].step # "saving"
    BY <1>18, UpdateEffect, <1>3 DEF RequestsOK
  <2>. QED BY <2>1, <1>1, <1>18 DEF ClaimOK
<1>19. ASSUME NEW r \in Requests, SetupClaims(r) PROVE ClaimOK'
  <2>1. /\ req[r].step = "setup" /\ req[r].pwd \in Passwords \cup {None} /\ req[r].pwd # None
        /\ UNCHANGED setups
    BY <1>19, RequestFields DEF SetupClaims, RequestsOK, PanelTypeOK
  <2>2. /\ req'[r].step = "saving" /\ req'[r].pwd = req[r].pwd
        /\ req'[r].claimed = (mem.pwd = None)
        /\ \A s \in Requests \ {r} : req'[s] = req[s]
    BY <1>19 DEF PanelTypeOK, SetupClaims, Claims, Request
  <2>3. CASE mem.pwd = None
    <3>1. Update(r, [pwd |-> req[r].pwd, app |-> None])
      BY <2>3, <1>19 DEF SetupClaims, Claims
    <3>2. mem'.pwd = req[r].pwd /\ "pwd" \in saving'.fields /\ proc = "up"
      BY <3>1, <2>1, UpdateEffect
    <3>3. \A s \in Requests : ~req[s].claimed
      BY <2>3 DEF ClaimOK
    <3>4. setups = 0
      <4>1. mem \in Configs /\ owed["pwd"] # None => mem["pwd"] = owed["pwd"]
        BY <3>2 DEF MemoryOK, Fields
      <4>. QED BY <4>1, <3>2, <2>3, ConfigFields DEF ClaimOK, MemoryOK, Fields
    <3>. QED BY <3>2, <3>3, <3>4, <2>1, <2>2 DEF ClaimOK
  <2>4. CASE mem.pwd # None
    <3>1. Update(r, [pwd |-> None, app |-> None])
      BY <2>4, <1>19 DEF SetupClaims, Claims
    <3>. QED BY <3>1, <2>1, <2>2, <2>4, <1>18
  <2>. QED BY <2>3, <2>4
<1>20. ASSUME NEW r \in Requests, LoginCompares(r) PROVE ClaimOK'
  <2>1. ~req[r].claimed /\ UNCHANGED <<mem, setups, saving>>
    BY <1>2, <1>20 DEF LoginCompares
  <2>2. ~req'[r].claimed /\ \A s \in Requests \ {r} : req'[s] = req[s]
    BY <2>1, <1>3, <1>20, RequestWrites DEF LoginCompares
  <2>. QED BY <2>1, <2>2, <1>4
<1>21. ASSUME NEW r \in Requests, Open(r) PROVE ClaimOK'
  <2>1. /\ req[r].step = "open" /\ ~req'[r].claimed /\ UNCHANGED <<mem, saving, owed>>
        /\ \A s \in Requests \ {r} : req'[s] = req[s]
        /\ setups' = setups + (IF req[r].claimed THEN 1 ELSE 0)
    BY <1>3, <1>21, RequestWrites DEF Open
  <2>2. CASE ~req[r].claimed
    BY <2>1, <2>2, <1>4 DEF PanelTypeOK
  <2>3. CASE req[r].claimed
    BY <2>1, <2>3 DEF ClaimOK
  <2>. QED BY <2>2, <2>3
<1>22. ASSUME NEW r \in Requests, Edit(r) PROVE ClaimOK'
  <2>1. ~req'[r].claimed /\ \A s \in Requests \ {r} : req'[s] = req[s]
    BY <1>2, <1>22, RequestWrites DEF Edit
  <2>. QED BY <2>1, <1>18, <1>22, RequestFields DEF PanelTypeOK, Edit
<1>. QED BY StepCases, <1>6, <1>7, <1>8, <1>9, <1>10, <1>12, <1>13, <1>14, <1>15, <1>16,
            <1>17, <1>19, <1>20, <1>21, <1>22

\* Every session knows the password: it is set only where there is none, so
\* where nobody can be logged in.
LEMMA SessionsStep ==
  PanelTypeOK /\ SavingOK /\ MemoryOK /\ RequestsOK /\ SessionsCurrent /\ [PanelNext]_panelState
    => SessionsCurrent'
<1>. SUFFICES ASSUME PanelTypeOK, SavingOK, MemoryOK, RequestsOK, SessionsCurrent,
                     [PanelNext]_panelState
              PROVE  SessionsCurrent'
  OBVIOUS
<1>1. sessions # {} => mem'.pwd = mem.pwd \/ Crash
  <2>1. ASSUME sessions # {} PROVE mem.pwd # None /\ proc = "up"
    BY <2>1 DEF SessionsCurrent, RequestsOK
  <2>2. ASSUME sessions # {}, NEW r \in Requests, NEW p \in Passwords \cup {None},
               NEW a \in Apps \cup {None}, Update(r, [pwd |-> p, app |-> a]),
               p # None => mem.pwd = None
        PROVE  mem'.pwd = mem.pwd
    BY <2>1, <2>2, UpdateEffect
  <2>3. ASSUME sessions # {}, WriteFileFails PROVE mem' = mem
    BY <2>1, <2>3, ConfigAssumption DEF WriteFileFails, SavingOK
  <2>4. ASSUME sessions # {} PROVE ~LoadConfig /\ ~Repair
    BY <2>1, <2>4 DEF LoadConfig, Repair
  <2>5. WriteBackup \/ WriteFile \/ UNCHANGED configVars => mem' = mem
    BY DEF WriteBackup, Backup, WriteFile, configVars
  <2>. QED BY ConfigCases, <2>2, <2>3, <2>4, <2>5
<1>2. ASSUME NEW r \in Requests, Open(r) PROVE SessionsCurrent'
  <2>1. mem' = mem /\ sessions' = sessions \cup {req[r].pwd} /\ req[r].step = "open"
    BY <1>2 DEF Open, configVars
  <2>. QED BY <2>1 DEF RequestsOK, SessionsCurrent
<1>3. CASE Crash
  BY <1>3 DEF Crash, SessionsCurrent
<1>4. CASE sessions' \subseteq sessions /\ ~Crash
  BY <1>1, <1>4 DEF SessionsCurrent
<1>5. ASSUME NEW r \in Requests, NEW p, SetupArrives(r, p) \/ LoginArrives(r, p) \/ EditArrives(r, p)
      PROVE  sessions' \subseteq sessions
  BY <1>5 DEF SetupArrives, LoginArrives, EditArrives
<1>6. ASSUME NEW r \in Requests,
             SetupRefused(r) \/ SetupClaims(r) \/ LoginCompares(r) \/ Edit(r)
      PROVE  sessions' \subseteq sessions
  BY <1>6 DEF SetupRefused, SetupClaims, LoginCompares, Edit
<1>7. UNCHANGED panelVars \/ Saves \/ SaveFails \/ TimePasses \/ SessionEnds
        \/ UNCHANGED panelState => sessions' \subseteq sessions
  BY DEF panelVars, panelState, Saves, SaveFails, TimePasses, SessionEnds
<1>. QED BY StepCases, <1>2, <1>3, <1>4, <1>5, <1>6, <1>7

-----------------------------------------------------------------------------
(* The invariant and what follows.                                          *)

LEMMA InvInit == PanelInit => IInv
<1>. SUFFICES ASSUME PanelInit PROVE IInv
  OBVIOUS
<1>1. PanelTypeOK
  <2>1. ConfigTypeOK
    BY DEF PanelInit, ConfigInit, ConfigTypeOK, Nobody
  <2>2. misses \in 0..(MaxTries - 1) /\ setups \in Nat
    BY PanelAssumption DEF PanelInit
  <2>3. req \in [Requests -> Request] /\ sessions = {} /\ locked = FALSE
    BY RequestFields DEF PanelInit
  <2>. QED BY <2>1, <2>2, <2>3 DEF PanelTypeOK
<1>2. SavingOK /\ MemoryOK
  BY DEF PanelInit, ConfigInit, SavingOK, MemoryOK, Nobody
<1>3. RequestsOK /\ ClaimOK
  BY DEF PanelInit, ConfigInit, RequestsOK, ClaimOK, Nobody, Idle
<1>4. SetupOnce /\ AckedOnDisk /\ SessionsCurrent
  BY DEF PanelInit, ConfigInit, SetupOnce, AckedOnDisk, SessionsCurrent
<1>. QED BY <1>1, <1>2, <1>3, <1>4 DEF IInv

\* The inductive invariant: the parts above hold in every reachable state.
THEOREM Invariant == PanelSpec => []IInv
<1>1. IInv /\ [PanelNext]_panelState => IInv'
  <2>1. ClaimOK' => SetupOnce'
    BY DEF ClaimOK, SetupOnce
  <2>. QED BY <2>1, TypeStep, SavingStep, MemoryStep, DiskStep, RequestsStep, ClaimStep,
              SessionsStep DEF IInv
<1>. QED BY InvInit, <1>1, PTL DEF PanelSpec

\* Every variable always has its type.
THEOREM TypeCorrect == PanelSpec => []PanelTypeOK
<1>1. IInv => PanelTypeOK
  BY DEF IInv
<1>. QED BY Invariant, <1>1, PTL

\* The panel is set up once, whichever requests race for it and whenever the
\* process dies.
THEOREM SetupOnceCorrect == PanelSpec => []SetupOnce
<1>1. IInv => SetupOnce
  BY DEF IInv
<1>. QED BY Invariant, <1>1, PTL

\* What a save that succeeded stored stays in config.json until a later update
\* changes it, across crashes, starts and other saves that fail.
THEOREM AckedOnDiskCorrect == PanelSpec => []AckedOnDisk
<1>1. IInv => AckedOnDisk
  BY DEF IInv
<1>. QED BY Invariant, <1>1, PTL

\* Whoever is logged in knows the password that the panel has now.
THEOREM SessionsCurrentCorrect == PanelSpec => []SessionsCurrent
<1>1. IInv => SessionsCurrent
  BY DEF IInv
<1>. QED BY Invariant, <1>1, PTL

\* The panel's password, once a save of it has succeeded, is never another one
\* and never none: no step changes it, a crash and the next start included.
THEOREM PasswordNeverChanges ==
  PanelSpec => [][owed["pwd"] # None => owed'["pwd"] = owed["pwd"]]_panelState
<1>1. IInv /\ [PanelNext]_panelState
        => [owed["pwd"] # None => owed'["pwd"] = owed["pwd"]]_panelState
  BY PasswordStays DEF IInv
<1>. QED BY Invariant, <1>1, PTL DEF PanelSpec
=============================================================================
