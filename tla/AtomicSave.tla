----------------------------- MODULE AtomicSave -----------------------------
(***************************************************************************)
(* One save slot on the SD card (src/common/atomic_save.cpp) and its       *)
(* callers: App.save, wrapped in lua/3ds/platform.lua, which lets the game *)
(* write slot.tmp and commits it, atomic_write_file, and                   *)
(* recover_atomic_file.  All run on one thread; every file-system call is  *)
(* a step of its own, may fail, and the power may go between any two.      *)
(*                                                                         *)
(* The file system applies renames and removals in order and keeps them;   *)
(* a file's contents survive a crash for sure only once they were fsynced. *)
(***************************************************************************)
EXTENDS Naturals

CONSTANTS MaxVersion,      \* bound on the saves attempted
          MaxCrashes,      \* bound on the crashes
          MaxDamage,       \* bound on the slots damaged by the medium
          DirectorySync    \* the platform syncs directories: not on the 3DS

ASSUME SaveAssumption ==
  /\ MaxVersion \in Nat /\ MaxCrashes \in Nat /\ MaxDamage \in Nat
  /\ DirectorySync \in BOOLEAN

Names == {"final", "bak", "tmp"}
Versions == 1..MaxVersion
NoVersion == 0
None == NoVersion          \* no such file
Torn == MaxVersion + 1     \* a file the validator rejects
Callers == {"save", "write", "recover"}
Pcs == {"idle", "open", "writing", "written", "synced", "rotate", "rename",
        "install", "restore", "installed"}

VARIABLES
  disk,       \* name -> the version its file holds, None or Torn
  unsynced,   \* files whose contents a crash may tear
  pc,         \* the next call of the operation in progress
  caller,     \* who runs it
  keep,       \* its keep_backup argument
  version,    \* the version it is installing
  attempts, crashes, damage,
  acked,      \* the newest version a save reported as committed
  before      \* what was recoverable when the operation began

filesVars == <<disk, unsynced>>
callVars == <<caller, keep, version, attempts, before>>
faultVars == <<crashes, damage>>
vars == <<filesVars, pc, callVars, faultVars, acked>>

Good(name) == disk[name] \in Versions

\* What recover_atomic_file looks for: a valid final, then a valid backup.
Recoverable == IF Good("final") THEN disk["final"]
               ELSE IF Good("bak") THEN disk["bak"] ELSE NoVersion

Init ==
  /\ disk = [n \in Names |-> None] /\ unsynced = {}
  /\ pc = "idle" /\ caller = "save" /\ keep = TRUE /\ version = NoVersion
  /\ attempts = 0 /\ crashes = 0 /\ damage = 0
  /\ acked = NoVersion /\ before = NoVersion

-----------------------------------------------------------------------------
(* File-system calls.                                                      *)

Rename(from, to) ==
  /\ disk' = [disk EXCEPT ![to] = disk[from], ![from] = None]
  /\ unsynced' = (unsynced \ {from, to}) \cup (IF from \in unsynced THEN {to} ELSE {})

Remove(name) ==
  /\ disk' = [disk EXCEPT ![name] = None]
  /\ unsynced' = unsynced \ {name}

Goto(from, to) == pc = from /\ pc' = to

\* The operation returns an error.
Fail == pc' = "idle" /\ UNCHANGED <<callVars, faultVars, acked>>

-----------------------------------------------------------------------------
(* Beginning.                                                              *)

\* App.save: the game opens slot.tmp, whatever an earlier save left there.
BeginSave ==
  /\ Goto("idle", "writing")
  /\ attempts < MaxVersion
  /\ attempts' = attempts + 1 /\ version' = attempts + 1
  /\ caller' = "save" /\ keep' = TRUE /\ before' = Recoverable
  /\ disk' = [disk EXCEPT !["tmp"] = Torn] /\ unsynced' = unsynced \cup {"tmp"}
  /\ UNCHANGED <<faultVars, acked>>

\* atomic_write_file first removes slot.tmp; its result is not looked at.
BeginWrite(keepBackup) ==
  /\ Goto("idle", "open")
  /\ attempts < MaxVersion
  /\ attempts' = attempts + 1 /\ version' = attempts + 1
  /\ caller' = "write" /\ keep' = keepBackup /\ before' = Recoverable
  /\ Remove("tmp") \/ UNCHANGED filesVars
  /\ UNCHANGED <<faultVars, acked>>

Validates(name) == Good(name)

\* recover_atomic_file finds only the backup valid and copies it, keeping it.
\* Its other outcomes (a valid final, nothing valid, a failed look) change nothing.
BeginRecover ==
  /\ Goto("idle", "open")
  /\ ~Validates("final") /\ Validates("bak")
  /\ version' = disk["bak"]
  /\ caller' = "recover" /\ keep' = FALSE /\ before' = Recoverable
  /\ Remove("tmp") \/ UNCHANGED filesVars
  /\ UNCHANGED <<attempts, faultVars, acked>>

-----------------------------------------------------------------------------
(* Writing slot.tmp.                                                       *)

OpenTemporary ==
  /\ Goto("open", "writing")
  /\ disk' = [disk EXCEPT !["tmp"] = Torn] /\ unsynced' = unsynced \cup {"tmp"}
  /\ UNCHANGED <<callVars, faultVars, acked>>

WriteTemporary ==
  /\ Goto("writing", "written")
  /\ disk' = [disk EXCEPT !["tmp"] = version]
  /\ UNCHANGED <<unsynced, callVars, faultVars, acked>>

\* The writer fails, before or after it opened the file.  atomic_write_file
\* removes what is there, if it can; App.save leaves it.
WriterFails ==
  /\ pc \in {"open", "writing"}
  /\ \/ UNCHANGED filesVars
     \/ caller # "save" /\ Remove("tmp")
  /\ Fail

-----------------------------------------------------------------------------
(* atomic_commit_existing.                                                 *)

\* MUTANT: the temporary file is renamed without having been synced.
SyncTemporary_Skipped ==
  /\ Goto("written", "synced")
  /\ UNCHANGED <<filesVars, callVars, faultVars, acked>>

SyncTemporary ==
  /\ Goto("written", "synced")
  /\ unsynced' = unsynced \ {"tmp"}
  /\ UNCHANGED <<disk, callVars, faultVars, acked>>

\* slot.tmp is not found, the directory cannot be made, or the sync fails.
CommitFailsEarly == pc = "written" /\ UNCHANGED filesVars /\ Fail

\* MUTANT: without a backup to keep, final is removed to make room.
InspectFinal_RemovesFinal ==
  /\ pc = "synced"
  /\ pc' = IF keep /\ disk["final"] # None THEN "rotate" ELSE "install"
  /\ IF keep THEN UNCHANGED filesVars ELSE Remove("final")
  /\ UNCHANGED <<callVars, faultVars, acked>>

InspectFinal ==
  /\ pc = "synced"
  /\ pc' = IF keep /\ disk["final"] # None THEN "rotate" ELSE "install"
  /\ UNCHANGED <<filesVars, callVars, faultVars, acked>>

RemoveBackup ==
  /\ Goto("rotate", "rename")
  /\ Remove("bak")
  /\ UNCHANGED <<callVars, faultVars, acked>>

RotateFinal ==
  /\ Goto("rename", "install")
  /\ Rename("final", "bak")
  /\ UNCHANGED <<callVars, faultVars, acked>>

\* Inspecting, removing or rotating fails; what was done so far stays.
RotationFails == pc \in {"synced", "rotate", "rename"} /\ UNCHANGED filesVars /\ Fail

Install ==
  /\ Goto("install", "installed")
  /\ Rename("tmp", "final")
  /\ UNCHANGED <<callVars, faultVars, acked>>

\* MUTANT: the backup is put back also by an operation that did not rotate.
InstallFails_AlwaysRestores ==
  /\ pc = "install"
  /\ UNCHANGED filesVars
  /\ IF disk["bak"] # None
     THEN pc' = "restore" /\ UNCHANGED <<callVars, faultVars, acked>>
     ELSE Fail

InstallFails ==
  /\ pc = "install"
  /\ UNCHANGED filesVars
  /\ IF keep /\ disk["bak"] # None
     THEN pc' = "restore" /\ UNCHANGED <<callVars, faultVars, acked>>
     ELSE Fail

\* The backup is put back; the result of that rename is not looked at.
RestoreBackup ==
  /\ pc = "restore"
  /\ Rename("bak", "final") \/ UNCHANGED filesVars
  /\ Fail

\* The operation reports success.
Succeed ==
  /\ Goto("installed", "idle")
  /\ acked' = IF caller = "recover" THEN acked ELSE version
  /\ UNCHANGED <<filesVars, callVars, faultVars>>

\* The directory sync fails: an error is reported though the file is installed.
SyncDirectoryFails ==
  /\ pc = "installed" /\ DirectorySync
  /\ UNCHANGED filesVars
  /\ Fail

-----------------------------------------------------------------------------
(* The medium.                                                             *)

\* Power goes: contents that were not synced are kept, torn or gone.
Crash ==
  /\ crashes < MaxCrashes /\ crashes' = crashes + 1
  /\ pc' = "idle"
  /\ \E outcome \in [unsynced -> {"kept", "torn", "gone"}] :
       disk' = [n \in Names |->
                  IF n \notin unsynced \/ disk[n] = None \/ outcome[n] = "kept" THEN disk[n]
                  ELSE IF outcome[n] = "torn" THEN Torn ELSE None]
  /\ unsynced' = {}
  /\ UNCHANGED <<callVars, damage, acked>>

\* The medium damages the installed save while nothing runs.
DamageFinal ==
  /\ damage < MaxDamage /\ damage' = damage + 1
  /\ pc = "idle" /\ Good("final")
  /\ disk' = [disk EXCEPT !["final"] = Torn]
  /\ UNCHANGED <<unsynced, pc, callVars, crashes, acked>>

Next ==
  \/ BeginSave \/ \E keepBackup \in BOOLEAN : BeginWrite(keepBackup)
  \/ BeginRecover
  \/ OpenTemporary \/ WriteTemporary \/ WriterFails
  \/ SyncTemporary \/ CommitFailsEarly
  \/ InspectFinal \/ RemoveBackup \/ RotateFinal \/ RotationFails
  \/ Install \/ InstallFails \/ RestoreBackup
  \/ Succeed \/ SyncDirectoryFails
  \/ Crash \/ DamageFinal

Spec == Init /\ [][Next]_vars

-----------------------------------------------------------------------------
(* Properties.                                                             *)

\* Every variable has its type, and only slot.tmp may hold unsynced contents:
\* what is renamed to slot or slot.bak is on the medium.
TypeOK ==
  /\ disk \in [Names -> Versions \cup {None, Torn}]
  /\ unsynced \subseteq {"tmp"}
  /\ pc \in Pcs /\ caller \in Callers /\ keep \in BOOLEAN
  /\ version \in 0..MaxVersion /\ attempts \in 0..MaxVersion
  /\ crashes \in 0..MaxCrashes /\ damage \in 0..MaxDamage
  /\ acked \in 0..MaxVersion /\ before \in 0..MaxVersion

\* On a medium that does no damage, the newest save that was reported committed,
\* or a later one, is recoverable at every instant, in the middle of any commit,
\* failed rename or crash: "preserve final until replacement".
AckedRecoverable == damage = 0 => Recoverable >= acked

\* An operation in progress has lost nothing yet: until the new version is
\* installed, what was recoverable when it began still is.
CommitKeepsPrevious ==
  damage = 0 /\ pc # "idle" =>
    Recoverable = IF pc = "installed" THEN version ELSE before

\* "Keep the verified backup intact while restoring final": recovery never
\* touches the backup, also when it fails or the power goes, and one that ends
\* well has put into final the version that was in the backup when it began.
RecoveryKeepsBackup ==
  [][pc # "idle" /\ caller = "recover" =>
       /\ disk'["bak"] = disk["bak"]
       /\ Succeed => disk["bak"] = before /\ disk["final"] = before]_vars

\* "Recovery priority is final, temporary, backup": a complete temporary file
\* wins over the backup when there is no final.
TemporaryBeforeBackup ==
  [][BeginRecover /\ disk["final"] = None /\ Good("tmp") => version' = disk["tmp"]]_vars
=============================================================================
