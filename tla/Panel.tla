------------------------------- MODULE Panel --------------------------------
(***************************************************************************)
(* The web panel (web/server.go, web/auth.go) on top of Config: the first  *)
(* password, logging in and out, and the form that changes the             *)
(* configuration.  Every request runs on its own goroutine; what it reads  *)
(* of the configuration, of the sessions and of the limiter it reads in    *)
(* separate critical sections.  All requests come from one address.        *)
(***************************************************************************)
EXTENDS Config

CONSTANT MaxTries  \* loginMaxAttempts (8)

ASSUME PanelAssumption == MaxTries \in Nat \ {0}

VARIABLES
  req,       \* req[r]: a request
  sessions,  \* the passwords with which the open sessions were opened
  misses,    \* loginAttempt.count
  locked,    \* the time is before loginAttempt.lockedUntil
  setups     \* history: how many setups were answered with a session

panelVars == <<req, sessions, misses, locked, setups>>
panelState == <<configVars, panelVars>>

Request == [step : {"idle", "setup", "claim", "saving", "login", "open", "edit"},
            pwd : Passwords \cup {None}, app : Apps \cup {None}, claimed : BOOLEAN]
Idle == [step |-> "idle", pwd |-> None, app |-> None, claimed |-> FALSE]

PanelInit ==
  /\ ConfigInit
  /\ req = [r \in Requests |-> Idle]
  /\ sessions = {} /\ misses = 0 /\ locked = FALSE /\ setups = 0

-----------------------------------------------------------------------------
(* Slips the code could contain; PROJECT.json names the property that would *)
(* notice each.                                                             *)

\* Setup writes without looking again.
ClaimsUnseen(r) == TRUE

\* An empty password is compared like any other.
PassesEmpty(p) == p = mem.pwd

-----------------------------------------------------------------------------
Goto(r, step) == req' = [req EXCEPT ![r].step = step]
Done(r) == req' = [req EXCEPT ![r] = Idle]

\* loginGuard.
Fail == IF misses + 1 >= MaxTries THEN misses' = 0 /\ locked' = TRUE
                                  ELSE misses' = misses + 1 /\ UNCHANGED locked
Reset == misses' = 0 /\ locked' = FALSE

\* The lock, and the window in which misses count, pass.
TimePasses ==
  /\ misses # 0 \/ locked
  /\ Reset
  /\ UNCHANGED <<configVars, req, sessions, setups>>

\* handleSetup: while there is no password and the limiter allows it.
SetupArrives(r, p) ==
  /\ Free /\ req[r].step = "idle" /\ mem.pwd = None /\ ~locked
  /\ req' = [req EXCEPT ![r].step = "setup", ![r].pwd = p]
  /\ UNCHANGED <<configVars, sessions, misses, locked, setups>>

\* The two entries differ, or ValidateWebPassword objects.
SetupRefused(r) ==
  /\ req[r].step = "setup" /\ Done(r)
  /\ Fail \/ UNCHANGED <<misses, locked>>
  /\ UNCHANGED <<configVars, sessions, setups>>

\* The update looks at the password again, and is saved either way.
Claims(r) == mem.pwd = None

SetupClaims(r) ==
  /\ req[r].step = "setup"
  /\ Update(r, [pwd |-> IF Claims(r) THEN req[r].pwd ELSE None, app |-> None])
  /\ req' = [req EXCEPT ![r].step = "saving", ![r].claimed = Claims(r)]
  /\ UNCHANGED <<sessions, misses, locked, setups>>

\* handleLogin: the limiter first,
LoginArrives(r, p) ==
  /\ proc = "up" /\ req[r].step = "idle" /\ ~locked
  /\ req' = [req EXCEPT ![r].step = "login", ![r].pwd = p]
  /\ UNCHANGED <<configVars, sessions, misses, locked, setups>>

Passes(p) == mem.pwd # None /\ p = mem.pwd

\* then the comparison, a miss or a session.
LoginCompares(r) ==
  /\ Free /\ req[r].step = "login"
  /\ IF Passes(req[r].pwd)
     THEN Goto(r, "open") /\ UNCHANGED <<misses, locked>>
     ELSE Done(r) /\ Fail
  /\ UNCHANGED <<configVars, sessions, setups>>

\* guard.reset and store.create.
Open(r) ==
  /\ req[r].step = "open" /\ Done(r) /\ Reset
  /\ sessions' = sessions \cup {req[r].pwd}
  /\ setups' = setups + (IF req[r].claimed THEN 1 ELSE 0)
  /\ UNCHANGED configVars

\* requireAuth, and handleConfig behind it.
EditArrives(r, a) ==
  /\ proc = "up" /\ req[r].step = "idle" /\ sessions # {}
  /\ req' = [req EXCEPT ![r].step = "edit", ![r].app = a]
  /\ UNCHANGED <<configVars, sessions, misses, locked, setups>>

Edit(r) ==
  /\ req[r].step = "edit"
  /\ Update(r, [pwd |-> None, app |-> req[r].app])
  /\ Goto(r, "saving")
  /\ UNCHANGED <<sessions, misses, locked, setups>>

\* Update returns: a claimed password opens a session, everything else is
\* answered.
Saves ==
  /\ WriteFile
  /\ IF saving.by = Main THEN UNCHANGED req
     ELSE IF req[saving.by].claimed THEN Goto(saving.by, "open")
                                    ELSE Done(saving.by)
  /\ UNCHANGED <<sessions, misses, locked, setups>>

SaveFails ==
  /\ WriteFileFails
  /\ IF saving.by = Main THEN UNCHANGED req ELSE Done(saving.by)
  /\ UNCHANGED <<sessions, misses, locked, setups>>

\* handleLogout, or twelve hours have passed.
SessionEnds ==
  /\ proc = "up" /\ \E p \in sessions : sessions' = sessions \ {p}
  /\ UNCHANGED <<configVars, req, misses, locked, setups>>

\* Sessions and misses are in memory only.
Crash ==
  /\ Dies
  /\ req' = [r \in Requests |-> Idle] /\ sessions' = {} /\ Reset
  /\ UNCHANGED setups

Arrive ==
  \E r \in Requests :
    \/ \E p \in Passwords : SetupArrives(r, p)
    \/ \E p \in Passwords \cup {None} : LoginArrives(r, p)
    \/ \E a \in Apps : EditArrives(r, a)

Work ==
  \/ (LoadConfig \/ Repair \/ WriteBackup) /\ UNCHANGED panelVars
  \/ Saves \/ SaveFails \/ TimePasses \/ SessionEnds
  \/ \E r \in Requests : SetupRefused(r) \/ SetupClaims(r) \/ LoginCompares(r) \/ Open(r)
                          \/ Edit(r)

PanelNext == Arrive \/ Work \/ Crash

PanelSpec == PanelInit /\ [][PanelNext]_panelState

-----------------------------------------------------------------------------
(* Every variable has its type. *)
PanelTypeOK ==
  /\ ConfigTypeOK
  /\ req \in [Requests -> Request]
  /\ sessions \subseteq Passwords \cup {None}
  /\ misses \in 0..(MaxTries - 1) /\ locked \in BOOLEAN /\ setups \in Nat

(* The panel is set up once, whichever requests race for it and whenever the *)
(* process dies: "该端点只在未初始化时可用；一旦设置成功即自行关闭"          *)
(* (server.go:231).                                                          *)
SetupOnce == setups <= 1

(* What a save that succeeded stored is in config.json until a later update  *)
(* changes it, across crashes and other saves that fail.                     *)
AckedOnDisk ==
  \A f \in Fields : owed[f] # None => file \in Configs /\ file[f] = owed[f]

(* Whoever is logged in knows the password that the panel has now, although  *)
(* the session was opened after the comparison and after the save.           *)
SessionsCurrent == \A p \in sessions : p # None /\ p = mem.pwd

-----------------------------------------------------------------------------
(* The inductive invariant behind the proofs in PanelProofs.                 *)

\* The lock is held by main while it starts, and by a request after that.
SavingOK ==
  /\ saving.next = "none" => saving = Nobody /\ proc # "booting"
  /\ saving.next # "none" => \/ proc = "booting" /\ saving.by = Main /\ saving.fields = {}
                             \/ proc = "up" /\ saving.by \in Requests

\* Memory holds a configuration, with everything that a save has promised.
MemoryOK ==
  proc # "down" => /\ mem \in Configs
                   /\ \A f \in Fields : owed[f] # None => mem[f] = owed[f]

\* Sessions and requests end with the process; who waits for a save is who
\* holds the lock; and who opens a session does so with the password there is.
RequestsOK ==
  /\ proc # "up" => sessions = {} /\ \A r \in Requests : req[r] = Idle
  /\ \A r \in Requests :
       /\ req[r].step = "saving" <=> saving.next # "none" /\ saving.by = r
       /\ req[r].step = "setup" => req[r].pwd # None
       /\ req[r].step = "open" => req[r].pwd # None /\ req[r].pwd = mem.pwd

\* One setup at most has claimed the panel: it is about to save the password
\* that memory has, or has saved it and is about to count.
ClaimOK ==
  /\ \A r \in Requests : req[r].claimed =>
       /\ setups = 0 /\ req[r].pwd # None /\ req[r].pwd = mem.pwd
       /\ \/ req[r].step = "saving" /\ "pwd" \in saving.fields
          \/ req[r].step = "open" /\ owed["pwd"] # None
       /\ \A s \in Requests : req[s].claimed => s = r
  /\ setups = 0 \/ (setups = 1 /\ owed["pwd"] # None)

IInv == /\ PanelTypeOK /\ SavingOK /\ MemoryOK /\ RequestsOK /\ ClaimOK
        /\ SetupOnce /\ AckedOnDisk /\ SessionsCurrent
=============================================================================
