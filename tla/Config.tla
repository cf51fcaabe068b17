------------------------------- MODULE Config -------------------------------
(***************************************************************************)
(* The configuration of config/config.go: one value in memory behind a     *)
(* lock, config.json, and the copy of its previous content in              *)
(* config.json.bak.  Update changes the value in memory and then saves it, *)
(* both under the lock; the copy is made first, and both files are written *)
(* whole (WriteFileAtomic).  The process may die at any moment and main    *)
(* loads the file again.                                                   *)
(*                                                                         *)
(* Of the fields two stand for all: the panel's password, which is set     *)
(* once, and the QQ credentials, which the panel's form changes.  The      *)
(* fields an older version left for normalize to fill are one flag.        *)
(***************************************************************************)
EXTENDS Naturals

CONSTANTS Passwords, Apps, Requests,
          None,     \* the empty string
          Absent,   \* there is no such file
          Broken,   \* a file that does not parse
          Main      \* the main goroutine

Configs == [pwd : Passwords \cup {None}, app : Apps \cup {None}, old : BOOLEAN]

ASSUME ConfigAssumption ==
  /\ None \notin Passwords \cup Apps
  /\ Main \notin Requests
  /\ {Absent, Broken} \cap Configs = {}

VARIABLES
  proc,    \* "down", "booting", "up"
  mem,     \* config.instance
  file,    \* config.json
  bak,     \* config.json.bak
  saving,  \* the holder of the lock and the file it writes next
  owed     \* history: what the last save of a field that succeeded promised

configVars == <<proc, mem, file, bak, saving, owed>>

Fields == {"pwd", "app"}
DefaultConfig == [pwd |-> None, app |-> None, old |-> FALSE]
Nobody == [by |-> None, next |-> "none", fields |-> {}]

\* What an update changes: the fields of a request that are not empty.
Merged(c, new) == [c EXCEPT !.pwd = IF new.pwd = None THEN @ ELSE new.pwd,
                            !.app = IF new.app = None THEN @ ELSE new.app]
Given(new) == {f \in Fields : new[f] # None}

ConfigInit ==
  /\ proc = "down" /\ mem = None
  /\ file \in {Absent, Broken} \cup {c \in Configs : c.pwd = None}
  /\ bak \in {Absent, file}
  /\ saving = Nobody /\ owed = [f \in Fields |-> None]

Free == proc = "up" /\ saving = Nobody

-----------------------------------------------------------------------------
(* Slips the code could contain; PROJECT.json names the property that would *)
(* notice each.                                                             *)

\* The file is moved to the backup instead of copied.
BackupMoves ==
  /\ bak' = file /\ file' = Absent
  /\ saving' = [saving EXCEPT !.next = "file"]
  /\ UNCHANGED <<proc, mem, owed>>

-----------------------------------------------------------------------------
Save(by, fields) ==
  saving' = [by |-> by, next |-> IF file = Absent THEN "file" ELSE "bak", fields |-> fields]

\* Update: the change in memory stays even if the save fails.
Update(by, new) ==
  /\ Free /\ mem' = Merged(mem, new) /\ Save(by, Given(new))
  /\ owed' = [f \in Fields |-> IF f \in Given(new) THEN None ELSE owed[f]]
  /\ UNCHANGED <<proc, file, bak>>

\* persistLocked: the old content goes to the backup, or that fails and does
\* not matter.
Backup ==
  /\ bak' \in {file, bak}
  /\ saving' = [saving EXCEPT !.next = "file"]
  /\ UNCHANGED <<proc, mem, file, owed>>

WriteBackup == saving.next = "bak" /\ Backup

\* Then the new content is written, and the caller of Update goes on.
WriteFile ==
  /\ saving.next = "file" /\ file' = mem /\ saving' = Nobody
  /\ owed' = [f \in Fields |-> IF f \in saving.fields THEN mem[f] ELSE owed[f]]
  /\ proc' = "up"
  /\ UNCHANGED <<mem, bak>>

\* A failed save is fatal to main and an error to everybody else.
WriteFileFails ==
  /\ saving.next = "file" /\ saving' = Nobody
  /\ IF saving.by = Main THEN proc' = "down" /\ mem' = None
                         ELSE UNCHANGED <<proc, mem>>
  /\ UNCHANGED <<file, bak, owed>>

\* LoadConfig.  What does not parse is fatal, whatever the backup holds: main
\* ends on the error that comes with the recovered configuration.
LoadConfig ==
  /\ proc = "down" /\ file # Broken
  /\ mem' = IF file = Absent THEN DefaultConfig ELSE [file EXCEPT !.old = FALSE]
  /\ IF file = Absent \/ file.old
     THEN proc' = "booting" /\ Save(Main, {})
     ELSE proc' = "up" /\ UNCHANGED saving
  /\ UNCHANGED <<file, bak, owed>>

\* Somebody puts the backup in the place of a broken file, or removes it.
Repair ==
  /\ proc = "down" /\ file = Broken
  /\ file' \in {Absent, bak} \ {Broken}
  /\ UNCHANGED <<proc, mem, bak, saving, owed>>

\* The process ends, at whatever point it is: nothing waits for a save.
Dies ==
  /\ proc # "down" /\ proc' = "down" /\ mem' = None /\ saving' = Nobody
  /\ UNCHANGED <<file, bak, owed>>

ConfigTypeOK ==
  /\ proc \in {"down", "booting", "up"}
  /\ mem \in Configs \cup {None}
  /\ {file, bak} \subseteq Configs \cup {Absent, Broken}
  /\ saving \in [by : Requests \cup {None, Main}, next : {"none", "bak", "file"},
                 fields : SUBSET Fields]
  /\ owed \in [Fields -> Passwords \cup Apps \cup {None}]
=============================================================================
