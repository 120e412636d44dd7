--------------------------- MODULE AtomicSaveProofs ---------------------------
(***************************************************************************)
(* Theorems of AtomicSave, for any number of saves, crashes and damaged    *)
(* files.  The invariant behind them says how far the operation in         *)
(* progress has come (Stage), what it works for (Purpose) and, as long as  *)
(* the medium has done no damage, what a recovery would find (Safe).       *)
(***************************************************************************)
EXTENDS AtomicSave, TLAPS

\* From the write of slot.tmp to its rename it holds the version being installed,
\* and from the sync on a crash cannot tear it.
Stage ==
  /\ pc \in {"written", "synced", "rotate", "rename", "install"} => disk["tmp"] = version
  /\ pc \in {"synced", "rotate", "rename", "install", "restore", "installed"}
       => "tmp" \notin unsynced
  /\ pc = "installed" => disk["final"] = version
  /\ pc \in {"rotate", "rename"} => keep
  /\ pc = "restore" => keep /\ disk["bak"] # None

\* A recovery installs the backup's version and keeps the backup; everybody else
\* installs a new version, newer than any other.
Purpose ==
  pc # "idle" =>
    /\ version \in Versions
    /\ caller = "recover" => ~keep /\ version = before /\ disk["bak"] = before
    /\ caller # "recover" => version = attempts

\* On an undamaged medium the two files that recovery looks at are good or absent,
\* a rotation leaves final absent until the install, and what was recoverable at
\* the begin of the operation still is.
Safe ==
  /\ disk["final"] # Torn /\ disk["bak"] # Torn
  /\ pc \in {"rotate", "rename"} => disk["final"] # None
  /\ pc = "install" /\ keep => disk["final"] = None
  /\ pc = "restore" => disk["final"] = None
  /\ pc # "idle" => acked <= before /\ before <= attempts
  /\ pc \notin {"idle", "installed"} => Recoverable = before
  /\ Recoverable >= acked /\ Recoverable <= attempts

Inv == TypeOK /\ Stage /\ Purpose /\ (damage = 0 => Safe)

\* The names and versions are what they are written as.
LEMMA Constants ==
  /\ MaxVersion \in Nat /\ MaxCrashes \in Nat /\ MaxDamage \in Nat
  /\ DirectorySync \in BOOLEAN
  /\ None = 0 /\ NoVersion = 0 /\ Torn = MaxVersion + 1 /\ Versions = 1..MaxVersion
  /\ Names = {"final", "bak", "tmp"}
BY SaveAssumption DEF None, NoVersion, Torn, Versions, Names

\* Nothing is saved yet: the invariant holds.
LEMMA InitEstablishes == Init => Inv
BY Constants DEF Init, Inv, TypeOK, Stage, Purpose, Safe, Recoverable, Good, Callers, Pcs

\* The steps that begin an operation.
LEMMA BeginKeeps ==
  ASSUME Inv, BeginSave \/ (\E keepBackup \in BOOLEAN : BeginWrite(keepBackup)) \/ BeginRecover
  PROVE  Inv'
<1> USE Constants DEF filesVars, callVars, faultVars, Goto, Remove, Recoverable, Good
<1>1. CASE BeginSave
  <2>1. TypeOK' BY <1>1 DEF BeginSave, Inv, TypeOK, Callers, Pcs
  <2>2. Stage' /\ Purpose' BY <1>1 DEF BeginSave, Inv, TypeOK, Stage, Purpose
  <2>3. damage' = 0 => Safe' BY <1>1 DEF BeginSave, Inv, TypeOK, Safe
  <2> QED BY <2>1, <2>2, <2>3 DEF Inv
<1>2. ASSUME NEW keepBackup \in BOOLEAN, BeginWrite(keepBackup)
      PROVE  Inv'
  <2>1. TypeOK'
    <3>1. disk' \in [Names -> Versions \cup {None, Torn}] /\ unsynced' \subseteq {"tmp"}
      BY <1>2 DEF BeginWrite, Inv, TypeOK
    <3>2. before' \in 0..MaxVersion BY <1>2 DEF BeginWrite, Inv, TypeOK
    <3> QED BY <1>2, <3>1, <3>2 DEF BeginWrite, Inv, TypeOK, Callers, Pcs
  <2>2. Stage' /\ Purpose' BY <1>2 DEF BeginWrite, Inv, TypeOK, Stage, Purpose
  <2>3. damage' = 0 => Safe' BY <1>2 DEF BeginWrite, Inv, TypeOK, Safe
  <2> QED BY <2>1, <2>2, <2>3 DEF Inv
<1>3. CASE BeginRecover
  <2>1. TypeOK'
    <3>1. disk' \in [Names -> Versions \cup {None, Torn}] /\ unsynced' \subseteq {"tmp"}
      BY <1>3 DEF BeginRecover, Inv, TypeOK
    <3>2. before' \in 0..MaxVersion /\ version' \in 0..MaxVersion
      BY <1>3 DEF BeginRecover, Inv, TypeOK, Validates
    <3> QED BY <1>3, <3>1, <3>2 DEF BeginRecover, Inv, TypeOK, Callers, Pcs
  <2>2. Stage' /\ Purpose' BY <1>3 DEF BeginRecover, Inv, TypeOK, Stage, Purpose, Validates
  <2>3. damage' = 0 => Safe' BY <1>3 DEF BeginRecover, Inv, TypeOK, Safe, Validates
  <2> QED BY <2>1, <2>2, <2>3 DEF Inv
<1> QED BY <1>1, <1>2, <1>3

\* The steps that write and sync slot.tmp.
LEMMA WriteKeeps ==
  ASSUME Inv, OpenTemporary \/ WriteTemporary \/ WriterFails \/ SyncTemporary \/ CommitFailsEarly
  PROVE  Inv'
<1> USE Constants DEF filesVars, callVars, faultVars, Goto, Fail, Remove, Recoverable, Good
<1>1. CASE OpenTemporary
  BY <1>1 DEF OpenTemporary, Inv, TypeOK, Stage, Purpose, Safe, Callers, Pcs
<1>2. CASE WriteTemporary
  BY <1>2 DEF WriteTemporary, Inv, TypeOK, Stage, Purpose, Safe, Callers, Pcs
<1>3. CASE WriterFails
  BY <1>3 DEF WriterFails, Inv, TypeOK, Stage, Purpose, Safe, Callers, Pcs
<1>4. CASE SyncTemporary
  BY <1>4 DEF SyncTemporary, Inv, TypeOK, Stage, Purpose, Safe, Callers, Pcs
<1>5. CASE CommitFailsEarly
  BY <1>5 DEF CommitFailsEarly, Inv, TypeOK, Stage, Purpose, Safe, Callers, Pcs
<1> QED BY <1>1, <1>2, <1>3, <1>4, <1>5

\* The steps that rotate the old save away.
LEMMA RotateKeeps ==
  ASSUME Inv, InspectFinal \/ RemoveBackup \/ RotateFinal \/ RotationFails
  PROVE  Inv'
<1> USE Constants DEF filesVars, callVars, faultVars, Goto, Fail, Remove, Rename, Recoverable, Good
<1>1. CASE InspectFinal
  BY <1>1 DEF InspectFinal, Inv, TypeOK, Stage, Purpose, Safe, Callers, Pcs
<1>2. CASE RemoveBackup
  BY <1>2 DEF RemoveBackup, Inv, TypeOK, Stage, Purpose, Safe, Callers, Pcs
<1>3. CASE RotateFinal
  <2>1. TypeOK' BY <1>3 DEF RotateFinal, Inv, TypeOK, Callers, Pcs
  <2>2. Stage' /\ Purpose' BY <1>3 DEF RotateFinal, Inv, TypeOK, Stage, Purpose
  <2>3. damage' = 0 => Safe' BY <1>3 DEF RotateFinal, Inv, TypeOK, Safe
  <2> QED BY <2>1, <2>2, <2>3 DEF Inv
<1>4. CASE RotationFails
  BY <1>4 DEF RotationFails, Inv, TypeOK, Stage, Purpose, Safe, Callers, Pcs
<1> QED BY <1>1, <1>2, <1>3, <1>4

\* The steps that install the new save or put the old one back.
LEMMA InstallKeeps ==
  ASSUME Inv, Install \/ InstallFails \/ RestoreBackup \/ Succeed \/ SyncDirectoryFails
  PROVE  Inv'
<1> USE Constants DEF filesVars, callVars, faultVars, Goto, Fail, Remove, Rename, Recoverable, Good
<1>1. CASE Install
  <2>1. TypeOK'
    <3>1. disk' \in [Names -> Versions \cup {None, Torn}] BY <1>1 DEF Install, Inv, TypeOK
    <3>2. unsynced' \subseteq {"tmp"} BY <1>1 DEF Install, Inv, TypeOK, Stage
    <3> QED BY <1>1, <3>1, <3>2 DEF Install, Inv, TypeOK, Callers, Pcs
  <2>2. Stage' /\ Purpose' BY <1>1 DEF Install, Inv, TypeOK, Stage, Purpose
  <2>3. damage' = 0 => Safe' BY <1>1 DEF Install, Inv, TypeOK, Stage, Purpose, Safe
  <2> QED BY <2>1, <2>2, <2>3 DEF Inv
<1>2. CASE InstallFails
  BY <1>2 DEF InstallFails, Inv, TypeOK, Stage, Purpose, Safe, Callers, Pcs
<1>3. CASE RestoreBackup
  <2>1. TypeOK'
    <3>1. disk' \in [Names -> Versions \cup {None, Torn}] /\ unsynced' \subseteq {"tmp"}
      BY <1>3 DEF RestoreBackup, Inv, TypeOK
    <3> QED BY <1>3, <3>1 DEF RestoreBackup, Inv, TypeOK, Callers, Pcs
  <2>2. Stage' /\ Purpose' BY <1>3 DEF RestoreBackup, Inv, TypeOK, Stage, Purpose
  <2>3. damage' = 0 => Safe' BY <1>3 DEF RestoreBackup, Inv, TypeOK, Stage, Safe
  <2> QED BY <2>1, <2>2, <2>3 DEF Inv
<1>4. CASE Succeed
  BY <1>4 DEF Succeed, Inv, TypeOK, Stage, Purpose, Safe, Callers, Pcs
<1>5. CASE SyncDirectoryFails
  BY <1>5 DEF SyncDirectoryFails, Inv, TypeOK, Stage, Purpose, Safe, Callers, Pcs
<1> QED BY <1>1, <1>2, <1>3, <1>4, <1>5

\* A crash touches slot.tmp only: nothing else is ever unsynced.
LEMMA CrashTouchesTemporary ==
  ASSUME TypeOK, Crash
  PROVE  /\ disk' \in [Names -> Versions \cup {None, Torn}]
         /\ disk'["final"] = disk["final"] /\ disk'["bak"] = disk["bak"]
BY Constants DEF Crash, TypeOK

\* The steps of the medium.
LEMMA MediumKeeps ==
  ASSUME Inv, Crash \/ DamageFinal
  PROVE  Inv'
<1> USE Constants DEF callVars, Recoverable, Good
<1>1. CASE Crash
  <2>1. /\ disk' \in [Names -> Versions \cup {None, Torn}]
        /\ disk'["final"] = disk["final"] /\ disk'["bak"] = disk["bak"]
    BY <1>1, CrashTouchesTemporary DEF Inv
  <2>2. /\ pc' = "idle" /\ unsynced' = {} /\ crashes' = crashes + 1 /\ crashes < MaxCrashes
        /\ UNCHANGED <<callVars, damage, acked>>
    BY <1>1 DEF Crash
  <2>3. TypeOK' BY <2>1, <2>2 DEF Inv, TypeOK, Callers, Pcs
  <2>4. Stage' /\ Purpose' BY <2>2 DEF Stage, Purpose
  <2>5. damage' = 0 => Safe' BY <2>1, <2>2 DEF Inv, TypeOK, Safe
  <2> QED BY <2>3, <2>4, <2>5 DEF Inv
<1>2. CASE DamageFinal
  BY <1>2 DEF DamageFinal, Inv, TypeOK, Stage, Purpose, Safe, Callers, Pcs
<1> QED BY <1>1, <1>2

\* Every step keeps the invariant.
LEMMA StepKeeps == Inv /\ [Next]_vars => Inv'
<1> SUFFICES ASSUME Inv, [Next]_vars PROVE Inv'
  OBVIOUS
<1>1. CASE Next
  BY <1>1, BeginKeeps, WriteKeeps, RotateKeeps, InstallKeeps, MediumKeeps DEF Next
<1>2. CASE UNCHANGED vars
  BY <1>2 DEF vars, filesVars, callVars, faultVars, Inv, TypeOK, Stage, Purpose, Safe,
              Recoverable, Good
<1> QED BY <1>1, <1>2

LEMMA Invariance == Spec => []Inv
BY InitEstablishes, StepKeeps, PTL DEF Spec

\* Every variable keeps its type and only slot.tmp is ever unsynced, however many
\* saves and crashes there are.
THEOREM TypeCorrect == Spec => []TypeOK
<1>1. Inv => TypeOK BY DEF Inv
<1> QED BY <1>1, Invariance, PTL

\* What was reported saved is recoverable at every instant.
THEOREM AckedIsRecoverable == Spec => []AckedRecoverable
<1>1. Inv => AckedRecoverable BY DEF Inv, Safe, AckedRecoverable
<1> QED BY <1>1, Invariance, PTL

\* A commit in progress has lost nothing.
THEOREM PreviousIsKept == Spec => []CommitKeepsPrevious
<1>1. Inv => CommitKeepsPrevious
  BY Constants DEF Inv, Stage, Purpose, Safe, CommitKeepsPrevious, Recoverable, Good
<1> QED BY <1>1, Invariance, PTL

\* A recovery leaves the backup as it is, whatever fails or crashes, and one that
\* reports success has put the backup's version into final.
THEOREM BackupIsKept == Spec => RecoveryKeepsBackup
<1>1. Inv /\ [Next]_vars
      => [pc # "idle" /\ caller = "recover" =>
            /\ disk'["bak"] = disk["bak"]
            /\ Succeed => disk["bak"] = before /\ disk["final"] = before]_vars
  <2> SUFFICES ASSUME Inv, Next, pc # "idle", caller = "recover"
               PROVE  /\ disk'["bak"] = disk["bak"]
                      /\ Succeed => disk["bak"] = before /\ disk["final"] = before
    OBVIOUS
  <2>1. ~keep BY DEF Inv, Purpose
  <2>2. pc \notin {"rotate", "rename", "restore"} BY <2>1 DEF Inv, Stage
  <2>3. ASSUME Crash PROVE disk'["bak"] = disk["bak"]
    BY <2>3, CrashTouchesTemporary DEF Inv
  <2>4. ASSUME ~Crash PROVE disk'["bak"] = disk["bak"]
    BY <2>2, <2>4, Constants
    DEF Next, BeginSave, BeginWrite, BeginRecover, OpenTemporary, WriteTemporary, WriterFails,
        SyncTemporary, CommitFailsEarly, InspectFinal, RemoveBackup, RotateFinal, RotationFails,
        Install, InstallFails, RestoreBackup, Succeed, SyncDirectoryFails, DamageFinal,
        Goto, Rename, Remove, filesVars, Inv, TypeOK
  <2>5. Succeed => disk["bak"] = before /\ disk["final"] = before
    BY DEF Inv, Stage, Purpose, Succeed, Goto
  <2> QED BY <2>3, <2>4, <2>5
<1> QED BY <1>1, Invariance, PTL DEF Spec, RecoveryKeepsBackup
=============================================================================
