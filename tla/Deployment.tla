------------------------------ MODULE Deployment ------------------------------
(***************************************************************************)
(* Installing a package on the console over FTP: tools/old3ds_ftp.py       *)
(* stages a whole tree, reads it back and renames it into place,           *)
(* tools/old3ds_delta.py replaces some files of the installed tree and     *)
(* undoes it on an error, old3ds_fetch_log.py brings back the boot log,    *)
(* and tools/v061_acceptance.py judges deployment and boot from report and *)
(* log.  The server may refuse any command, an upload may be damaged, and  *)
(* the connection or the tool may be gone between any two commands; a      *)
(* command whose reply is lost has been executed or has not.               *)
(*                                                                         *)
(* Package p is the tree whose files all have content p.  The tree that a  *)
(* published delta is laid over its baseline (SdDelta) is such a package.  *)
(***************************************************************************)
EXTENDS SdDelta, Sequences, SequencesExt

CONSTANTS
    Packages,       \* packages that can be deployed, positive numbers
    Files,          \* files of a package, the manifest among them
    Binary, Manifest,   \* the entry point and the manifest
    UserFiles,      \* what the player keeps in the installed directory
    DeltaOrders,    \* lists of files a delta may be given
    MaxDeploys,     \* bound: runs of the two tools
    BootMarks,      \* what a boot may leave in its log: sets of marks
    MaxFaults,      \* bound: refusals, damaged uploads and lost connections
    Damaged         \* content of a damaged upload: the right size only

(* A tree: any of the files, each with what a package, the first install   *)
(* or a damaged upload left in it.  An installed directory is never None.  *)
Copies == Packages \cup {0, Damaged}
Trees == UNION {[D -> Copies] : D \in SUBSET (Files \cup UserFiles)}

(* A delta is given its default files at least, and none of them twice.    *)
ASSUME DeployAssumption ==
    /\ {Binary, Manifest} \subseteq Files /\ Files \cap UserFiles = {}
    /\ \A o \in DeltaOrders : o \in Seq(Files) /\ o # <<>> /\ IsInjective(o)
    /\ Packages \subseteq Nat \ {0} /\ MaxDeploys \in Nat
    /\ None \notin Trees

VARIABLES
    live,       \* the installed tree: content of each file, or None
    staging,    \* the staged tree of a full deployment
    uploads,    \* the .uploading files of a delta
    backup,     \* per deployment: the files it moved away
    tool,       \* what runs: "none", "full" or "delta"
    step,       \* the command it is at
    number,     \* deployments begun so far (bound)
    pkg,        \* the package being deployed
    order,      \* the delta's files
    at,         \* the place in order
    published,  \* the delta's list: <<file, it had a predecessor>>
    before,     \* the installed tree when the deployment began
    ended,      \* how the last deployment ended
    faults,     \* faults so far (bound)
    kept,       \* every <<file, content>> found installed so far
    reports,    \* the reports of full deployments, with their identities
    log,        \* boot.log on the console
    fetched,    \* the boot log on the host
    verdict     \* the last assessment

card == <<live, staging, uploads, backup>>
run == <<tool, step, number, pkg, order, at, published, before, ended>>
proof == <<reports, log, fetched, verdict>>
deployVars == <<card, run, faults, kept, proof>>

NoFiles == [f \in {} |-> None]
Without(t, f) == [g \in DOMAIN t \ {f} |-> t[g]]
With(t, f, c) == [g \in DOMAIN t \cup {f} |-> IF g = f THEN c ELSE t[g]]
Tree(p) == [f \in Files |-> p]
Pairs(t) == IF t = None THEN {} ELSE {<<f, t[f]>> : f \in DOMAIN t}

(* A package of version 0 is installed, with the player's files.           *)
DeployInit ==
    /\ live = [f \in Files \cup UserFiles |-> 0]
    /\ staging = None /\ uploads = NoFiles
    /\ backup = [n \in 1..MaxDeploys |-> NoFiles]
    /\ tool = "none" /\ step = "none" /\ number = 0
    /\ pkg = 0 /\ order = <<>> /\ at = 1 /\ published = <<>> /\ before = None
    /\ ended = "none" /\ faults = 0 /\ kept = {}
    /\ reports = {} /\ log = None /\ fetched = None /\ verdict = None

Go(t, from, to) == tool = t /\ step = from /\ step' = to /\ UNCHANGED tool
Fault == faults < MaxFaults /\ faults' = faults + 1
End(how) == tool' = "none" /\ step' = "none" /\ ended' = how

Begin(t, first) ==
    /\ tool = "none" /\ number < MaxDeploys
    /\ tool' = t /\ step' = first /\ number' = number + 1
    /\ pkg' \in Packages
    /\ at' = 1 /\ published' = <<>> /\ before' = live /\ ended' = "none"
    /\ kept' = kept \cup Pairs(live)

-----------------------------------------------------------------------------
(* old3ds_ftp.deploy.                                                      *)

(* load_manifest found the package complete; the old staging is removed.   *)
StartFull ==
    /\ Begin("full", "upload") /\ order' = <<>>
    /\ staging' = NoFiles
    /\ UNCHANGED <<live, uploads, backup, faults, proof>>

(* transfer_parallel and upload_one: files in any order, the manifest last.*)
UploadFile(f) ==
    /\ Go("full", "upload", IF f = Manifest THEN "verify" ELSE "upload")
    /\ f \in Files \ DOMAIN staging
    /\ f = Manifest => DOMAIN staging = Files \ {Manifest}
    /\ \/ staging' = With(staging, f, pkg) /\ UNCHANGED faults
       \/ staging' = With(staging, f, Damaged) /\ Fault
    /\ UNCHANGED <<live, uploads, backup, number, pkg, order, at, published, before, ended,
                   kept, proof>>

\* MUTANT: the read-back compares sizes only.
VerifyStagedSizes ==
    /\ Go("full", "verify", "backup")
    /\ DOMAIN staging = Files
    /\ UNCHANGED <<card, number, pkg, order, at, published, before, ended, faults, kept,
                   proof>>

(* verify_one for every file, then for the manifest, and the manifest again*)
VerifyStaged ==
    /\ Go("full", "verify", "backup")
    /\ staging = Tree(pkg)
    /\ UNCHANGED <<card, number, pkg, order, at, published, before, ended, faults, kept,
                   proof>>

(* The installed tree, if there is one, is renamed to a stamped backup.    *)
BackUpTree ==
    /\ Go("full", "backup", "publish")
    /\ backup' = [backup EXCEPT ![number] = IF live = None THEN NoFiles ELSE live]
    /\ live' = None /\ log' = None
    /\ UNCHANGED <<staging, uploads, number, pkg, order, at, published, before, ended,
                   faults, kept, reports, fetched, verdict>>

PublishTree ==
    /\ Go("full", "publish", "readback")
    /\ live' = staging /\ staging' = None
    /\ UNCHANGED <<uploads, backup, number, pkg, order, at, published, before, ended, faults,
                   kept, proof>>

(* The server refuses the rename: the backup goes back and the run fails.  *)
RefusePublish ==
    /\ tool = "full" /\ step = "publish" /\ Fault /\ End("restored")
    /\ live' = before
    /\ backup' = [backup EXCEPT ![number] = NoFiles]
    /\ UNCHANGED <<staging, uploads, number, pkg, order, at, published, before, kept, proof>>

(* The report, to which the operator adds deployment, device and time.     *)
ReportFull ==
    /\ tool = "full" /\ step = "readback" /\ End("ok")
    /\ live[Binary] = pkg /\ live[Manifest] = pkg
    /\ reports' = reports \cup {[id |-> number, binary |-> pkg, manifest |-> pkg]}
    /\ UNCHANGED <<card, number, pkg, order, at, published, before, faults, kept, log,
                   fetched, verdict>>

-----------------------------------------------------------------------------
(* old3ds_delta.deploy.                                                    *)

File == order[at]
Forward(next) == IF at = Len(order) THEN at' = 1 /\ step' = next
                 ELSE at' = at + 1 /\ UNCHANGED step

StartDeltaDeploy ==
    /\ Begin("delta", "stage") /\ order' \in DeltaOrders
    /\ live # None
    /\ uploads' = NoFiles
    /\ UNCHANGED <<live, staging, backup, faults, proof>>

(* Everything is staged beside the installed files, with its size checked. *)
StageFile ==
    /\ tool = "delta" /\ step = "stage"
    /\ Forward("moveOld")
    /\ \/ uploads' = With(uploads, File, pkg) /\ UNCHANGED faults
       \/ uploads' = With(uploads, File, Damaged) /\ Fault
    /\ UNCHANGED <<live, staging, backup, tool, number, pkg, order, published, before, ended,
                   kept, proof>>

\* MUTANT: the predecessor is deleted instead of moved.
MoveOldDeletes ==
    /\ Go("delta", "moveOld", "moveNew")
    /\ live' = Without(live, File)
    /\ published' = Append(published, <<File, File \in DOMAIN live>>)
    /\ UNCHANGED <<staging, uploads, backup, number, pkg, order, at, before, ended, faults,
                   kept, proof>>

\* MUTANT: the file is put on the list after it has been installed.
MoveOldUnlisted ==
    /\ Go("delta", "moveOld", "moveNew")
    /\ live' = Without(live, File)
    /\ backup' = IF File \in DOMAIN live
                 THEN [backup EXCEPT ![number] = With(@, File, live[File])] ELSE backup
    /\ UNCHANGED <<staging, uploads, number, pkg, order, at, published, before, ended, faults,
                   kept, proof>>

(* The predecessor, if any, is moved to the backup directory and the file  *)
(* is put on the list.                                                     *)
MoveOld ==
    /\ Go("delta", "moveOld", "moveNew")
    /\ live' = Without(live, File)
    /\ backup' = IF File \in DOMAIN live
                 THEN [backup EXCEPT ![number] = With(@, File, live[File])] ELSE backup
    /\ published' = Append(published, <<File, File \in DOMAIN live>>)
    /\ UNCHANGED <<staging, uploads, number, pkg, order, at, before, ended, faults, kept,
                   proof>>

(* The staged file takes its place and has the right size.                 *)
MoveNew ==
    /\ tool = "delta" /\ step = "moveNew"
    /\ IF at = Len(order) THEN at' = 1 /\ step' = "legacy"
                          ELSE at' = at + 1 /\ step' = "moveOld"
    /\ live' = With(live, File, uploads[File])
    /\ uploads' = Without(uploads, File)
    /\ UNCHANGED <<staging, backup, tool, number, pkg, order, published, before, ended,
                   faults, kept, proof>>

(* The old launcher is moved away, if there is one; the delta is reported. *)
EndDelta ==
    /\ tool = "delta" /\ step = "legacy" /\ End("ok")
    /\ UNCHANGED <<card, number, pkg, order, at, published, before, faults, kept, proof>>

(* The server refuses a command once files are being moved: the list is    *)
(* undone from its end.                                                    *)
RefuseDelta ==
    /\ tool = "delta" /\ step \in {"moveOld", "moveNew", "legacy"} /\ Fault
    /\ step' = "undo"
    /\ UNCHANGED <<card, tool, number, pkg, order, at, published, before, ended, kept, proof>>

LastPublished == Last(published)
UndoDelete ==
    /\ Go("delta", "undo", "undoRename") /\ published # <<>>
    /\ live' = Without(live, LastPublished[1])
    /\ UNCHANGED <<staging, uploads, backup, number, pkg, order, at, published, before,
                   ended, faults, kept, proof>>

UndoRename ==
    /\ Go("delta", "undoRename", "undo")
    /\ LET f == LastPublished[1] IN
       IF LastPublished[2] /\ f \in DOMAIN backup[number]
       THEN /\ live' = With(live, f, backup[number][f])
            /\ backup' = [backup EXCEPT ![number] = Without(@, f)]
       ELSE UNCHANGED <<live, backup>>
    /\ published' = Front(published)
    /\ UNCHANGED <<staging, uploads, number, pkg, order, at, before, ended, faults, kept,
                   proof>>

(* A refusal while undoing is swallowed; the file is left as it is.        *)
RefuseUndo ==
    /\ tool = "delta" /\ step \in {"undo", "undoRename"} /\ published # <<>> /\ Fault
    /\ step' = "undo" /\ published' = Front(published) /\ ended' = "patched"
    /\ UNCHANGED <<card, tool, number, pkg, order, at, before, kept, proof>>

EndUndo ==
    /\ tool = "delta" /\ step = "undo" /\ published = <<>>
    /\ End(IF ended = "patched" THEN "cut" ELSE "restored")
    /\ UNCHANGED <<card, number, pkg, order, at, published, before, faults, kept, proof>>

-----------------------------------------------------------------------------
(* The connection is lost or the tool killed: nothing is undone, because   *)
(* the first command of the undoing raises again.                          *)
LoseConnection ==
    /\ tool # "none" /\ Fault /\ End("cut")
    /\ UNCHANGED <<card, number, pkg, order, at, published, before, kept, proof>>

(* A check or a refused command before anything installed was touched.     *)
Fail ==
    /\ \/ tool = "full" /\ step \in {"verify", "readback"}
       \/ tool = "full" /\ step \in {"upload", "backup"} /\ faults < MaxFaults
       \/ tool = "delta" /\ step = "stage" /\ faults < MaxFaults
    /\ faults' = IF step \in {"verify", "readback"} THEN faults ELSE faults + 1
    /\ End("failed")
    /\ UNCHANGED <<card, number, pkg, order, at, published, before, kept, proof>>

-----------------------------------------------------------------------------
(* The console boots the installed tree and begins a new log; it knows the *)
(* deployment it was installed by.  It may stop before the log is complete.*)
Boot ==
    /\ tool = "none" /\ live # None /\ {Binary, Manifest} \subseteq DOMAIN live
    /\ \E r \in reports, marks \in BootMarks :
          /\ \A q \in reports : q.id <= r.id
          /\ log' = [tree |-> live, id |-> r.id, time |-> number, marks |-> marks]
    /\ UNCHANGED <<card, run, faults, kept, reports, fetched, verdict>>

(* A truncated transfer leaves no log; an older one stays where it is.     *)
FetchLog ==
    /\ tool = "none" /\ log # None
    /\ fetched' = log
    /\ UNCHANGED <<card, run, faults, kept, reports, log, verdict>>

(* validate_deploy: binary, manifest and count of files of the package.    *)
DeployHolds(r, p) == r # None /\ r.binary = p /\ r.manifest = p

\* MUTANT: the boot identity is compared by deployment only.
BootHoldsById(b, r, p) == b.id = r.id /\ b.time >= r.id /\ "complete" \in b.marks

(* validate_boot: the log is of this package and this deployment, not      *)
(* older than it, and shows every stage up to the end of the boot.         *)
BootHolds(b, r, p) ==
    /\ b.tree[Binary] = p /\ b.tree[Manifest] = p
    /\ b.id = r.id /\ b.time >= r.id
    /\ "complete" \in b.marks

Row(holds) == IF holds THEN "PASS" ELSE "FAIL"

(* Rows of the ledger: deployment, boot, heap probes and injected failure; *)
(* the other device rows are never proven by it.                           *)
DeviceRows(r, b, p) ==
    LET bound == b # None /\ DeployHolds(r, p)
        boots == bound /\ BootHolds(b, r, p)
    IN [D01 |-> IF r = None THEN "NOT_PROVEN" ELSE Row(DeployHolds(r, p)),
        D02 |-> IF b = None THEN "NOT_PROVEN" ELSE Row(boots),
        D10 |-> IF bound THEN Row(boots /\ "probes" \in b.marks) ELSE "NOT_PROVEN",
        D11 |-> IF bound THEN Row(boots /\ "injected" \in b.marks) ELSE "NOT_PROVEN",
        others |-> "NOT_PROVEN"]

Gate(results) == IF "FAIL" \in results THEN "FAIL"
                 ELSE IF results = {"PASS"} THEN "PASS" ELSE "OPEN"

(* The release fails with any gate and passes with all of them.            *)
Release(gates) == IF "FAIL" \in gates THEN "FAIL"
                  ELSE IF gates = {"PASS"} THEN "PASS" ELSE "NOT_PROVEN"

(* build: the host rows pass or fail as their summary says.                *)
Assess == \E r \in reports \cup {None}, b \in {None, fetched}, p \in Packages,
            host \in BOOLEAN :
    LET rows == DeviceRows(r, b, p)
        gates == {Gate({Row(host)}), Gate({rows.D01}), Gate({rows[d] : d \in DOMAIN rows})}
    IN /\ verdict' = [report |-> r, package |-> p, boot |-> b, rows |-> rows,
                      release |-> Release(gates)]
       /\ UNCHANGED <<card, run, faults, kept, reports, log, fetched>>

DeployNext ==
    \/ StartFull \/ VerifyStaged \/ BackUpTree \/ PublishTree \/ RefusePublish \/ ReportFull
    \/ \E f \in Files : UploadFile(f)
    \/ StartDeltaDeploy \/ StageFile \/ MoveOld \/ MoveNew \/ EndDelta
    \/ RefuseDelta \/ UndoDelete \/ UndoRename \/ RefuseUndo \/ EndUndo
    \/ LoseConnection \/ Fail \/ Boot \/ FetchLog \/ Assess

(* A deployment follows a delta that was published, or none that was made. *)
ReleaseInit == DeltaInit /\ DeployInit
ReleaseNext == \/ DeltaNext /\ UNCHANGED deployVars
               \/ DeployNext /\ UNCHANGED deltaVars
ReleaseSpec == ReleaseInit /\ [][ReleaseNext]_<<deltaVars, deployVars>>

-----------------------------------------------------------------------------
(* Nothing that was ever installed is lost: each file found on the card at *)
(* the start of a deployment, the player's included, is still installed or *)
(* in a backup directory with the same content, after any refusals and     *)
(* wherever a connection was cut (both deploy functions).                  *)
NothingLost == \A x \in kept :
    \/ x \in Pairs(live)
    \/ \E n \in 1..number : x \in Pairs(backup[n])

(* While and after a full deployment the installed tree is the one before, *)
(* none, or the whole verified package: no partial or damaged tree is ever *)
(* installed by it (old3ds_ftp.deploy).                                    *)
FullPublishesVerified ==
    tool = "full" => live \in {before, None, Tree(pkg)}

(* A delta that the server refuses anywhere leaves exactly the installed   *)
(* files it found, as long as its connection holds and no command of the   *)
(* undoing is refused ("Transactional update": old3ds_delta.deploy); its   *)
(* .uploading files beside them stay and are not looked at.                *)
RefusedDeltaUndone == ended = "restored" => live = before

(* A boot row passes only for a boot of this package after this very       *)
(* deployment, not for an older log or one the host kept; and as long as   *)
(* no other deployment was begun in between, what had booted was every     *)
(* file of the verified package (validate_deploy, validate_boot).          *)
AcceptedBootIsCurrent ==
    verdict # None /\ "PASS" \in {verdict.rows.D02, verdict.rows.D10, verdict.rows.D11} =>
        LET booted == verdict.boot.tree IN
        /\ verdict.report \in reports
        /\ booted[Binary] = verdict.package /\ booted[Manifest] = verdict.package
        /\ verdict.boot.time = verdict.report.id => booted = Tree(verdict.package)
=============================================================================
