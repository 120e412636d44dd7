------------------------------- MODULE SdDelta -------------------------------
(***************************************************************************)
(* Packages for the SD card: tools/validate_sd_tree.py writes and checks   *)
(* the boot contract and the manifest of a tree, and                       *)
(* tools/make_sd_delta.py builds a delta against a retained baseline: it   *)
(* hard-links the unchanged files into a scratch tree, copies the          *)
(* replacements, writes new metadata, validates the merged tree and        *)
(* publishes only what changed.  Sources, baseline and candidate may be    *)
(* edited between any two steps, and another maker may publish first.      *)
(*                                                                         *)
(* Files are reached through inodes, because a linked file is the          *)
(* baseline's own: what is written into its inode is written into the      *)
(* baseline.  Contents are versions; contract and manifest are records.    *)
(***************************************************************************)
EXTENDS Naturals, FiniteSets

CONSTANTS
    Runtime,    \* files a delta may replace: the entry point and Lua files
    Assets,     \* game data, configuration and languages
    Entry,      \* the entry point, CorsixTH-3DS.3dsx
    MaxChanges, \* bound: edits made around the maker
    None        \* no such file, no such tree

ASSUME FilesAssumption ==
    /\ Entry \in Runtime /\ Runtime \cap Assets = {}
    /\ MaxChanges \in Nat
    /\ {"contract", "manifest"} \cap (Runtime \cup Assets) = {}

Metadata == {"contract", "manifest"}
Payload == Runtime \cup Assets
TreeFiles == Payload \cup Metadata

VARIABLES
    bytes,      \* contents of every inode
    base,       \* the baseline: inode of each file
    merged,     \* the scratch tree: inode of each file in it
    sources,    \* version of each replacement file
    identity,   \* commit of the candidate checkout
    known,      \* what the maker hashed and noted when it started
    changed,    \* the delta's files as it will publish them
    output,     \* what is at the output path: nothing, or one delta
    maker,      \* the step the maker is at
    changes     \* edits made around it so far (bound)

deltaVars == <<bytes, base, merged, sources, identity, known, changed, output, maker, changes>>

BaseInode(f) == <<"base", f>>
NewInode(f) == <<"new", f>>
Inodes == {BaseInode(f) : f \in TreeFiles} \cup {NewInode(f) : f \in TreeFiles}

-----------------------------------------------------------------------------
(* validate_sd_tree.  tree is a function from file names to contents.      *)

(* write_boot_contract: the identities of the required files.              *)
ContractOf(tree, commit) == [commit |-> commit,
                             required |-> [f \in Payload \cap DOMAIN tree |-> tree[f]]]

(* write_sd_manifest: every file of the tree but the manifest itself.      *)
ManifestOf(tree) == [commit |-> tree["contract"].commit,
                     contract |-> tree["contract"],
                     files |-> [f \in DOMAIN tree \ {"manifest"} |-> tree[f]]]

Linked(tree) ==
    /\ tree["manifest"].commit = tree["contract"].commit
    /\ tree["manifest"].contract = tree["contract"]

(* Exactly the listed files, each with its recorded identity.              *)
FilesRecorded(tree) ==
    LET files == tree["manifest"].files IN
    /\ "manifest" \notin DOMAIN files
    /\ DOMAIN tree = DOMAIN files \cup {"manifest"}
    /\ \A f \in DOMAIN files : tree[f] = files[f]

(* The contract names every required file as it is.                        *)
ContractCurrent(tree) ==
    /\ Payload \subseteq DOMAIN tree
    /\ tree["contract"] = ContractOf(tree, tree["contract"].commit)

ValidTree(tree) ==
    /\ Metadata \subseteq DOMAIN tree
    /\ tree["contract"] # None /\ tree["manifest"] # None
    /\ Linked(tree) /\ FilesRecorded(tree) /\ ContractCurrent(tree)

Packaged(payload, commit) ==
    LET withContract == [f \in Payload \cup {"contract"} |->
                            IF f = "contract" THEN ContractOf(payload, commit)
                            ELSE payload[f]]
    IN [f \in TreeFiles |-> IF f = "manifest" THEN ManifestOf(withContract)
                            ELSE withContract[f]]

Contents(tree) == [f \in DOMAIN tree |-> bytes[tree[f]]]

-----------------------------------------------------------------------------
DeltaInit ==
    /\ LET first == Packaged([f \in Payload |-> 0], 0) IN
       bytes = [i \in Inodes |-> IF i[1] = "base" THEN first[i[2]] ELSE None]
    /\ base = [f \in TreeFiles |-> BaseInode(f)]
    /\ merged = [f \in {} |-> None]
    /\ sources = [f \in Runtime |-> 1]
    /\ identity = 1
    /\ known = None /\ changed = None /\ output = {}
    /\ maker = "idle" /\ changes = 0

To(from, to) == maker = from /\ maker' = to

(* main and the first checks of make_delta: a clean candidate, a free      *)
(* output, a valid baseline, and the replacements with their hashes; the   *)
(* entry point must be among them.                                         *)
StartDelta == \E replaced \in SUBSET Runtime :
    /\ To("idle", "link")
    /\ Entry \in replaced
    /\ output = {}
    /\ ValidTree(Contents(base))
    /\ known' = [commit |-> identity, baseline |-> Contents(base),
                 source |-> [f \in replaced |-> sources[f]]]
    /\ UNCHANGED <<bytes, base, merged, sources, identity, changed, output, changes>>

Replaced == DOMAIN known.source

\* MUTANT: contract and manifest are hard-linked like every other file.
LinkUnchangedAndMetadata ==
    /\ To("link", "copy")
    /\ merged' = [f \in TreeFiles \ Replaced |-> base[f]]
    /\ UNCHANGED <<bytes, base, sources, identity, known, changed, output, changes>>

LinkUnchanged ==
    /\ To("link", "copy")
    /\ merged' = [f \in TreeFiles \ (Replaced \cup Metadata) |-> base[f]]
    /\ UNCHANGED <<bytes, base, sources, identity, known, changed, output, changes>>

(* Writing a file that is not there makes a new inode; one that is there   *)
(* keeps its inode.                                                        *)
Writing(f, content) ==
    LET i == IF f \in DOMAIN merged THEN merged[f] ELSE NewInode(f) IN
    /\ bytes' = [bytes EXCEPT ![i] = content]
    /\ merged' = [g \in DOMAIN merged \cup {f} |-> IF g = f THEN i ELSE merged[g]]

(* The copy still has the hash that was noted.                             *)
CopyReplacement(f) ==
    /\ maker = "copy" /\ f \in Replaced \ DOMAIN merged
    /\ sources[f] = known.source[f]
    /\ Writing(f, sources[f])
    /\ UNCHANGED <<base, sources, identity, known, changed, output, maker, changes>>

WriteContract ==
    /\ To("copy", "manifest") /\ Replaced \subseteq DOMAIN merged
    /\ Writing("contract", ContractOf(Contents(merged), known.commit))
    /\ UNCHANGED <<base, sources, identity, known, changed, output, changes>>

WriteManifest ==
    /\ To("manifest", "validate")
    /\ Writing("manifest", ManifestOf([f \in DOMAIN merged \ {"manifest"} |->
                                          Contents(merged)[f]]))
    /\ UNCHANGED <<base, sources, identity, known, changed, output, changes>>

ValidateMerged ==
    /\ To("validate", "select")
    /\ ValidTree(Contents(merged))
    /\ UNCHANGED <<bytes, base, merged, sources, identity, known, changed, output, changes>>

NewRows == [f \in TreeFiles |-> IF f = "manifest" THEN bytes[merged["manifest"]]
                                ELSE bytes[merged["manifest"]].files[f]]
Differing == {f \in TreeFiles : NewRows[f] # known.baseline[f]}

\* MUTANT: only the files the new manifest lists are looked at.
SelectChangedListed ==
    /\ To("select", "revalidate")
    /\ Differing \subseteq Replaced \cup Metadata
    /\ changed' = [f \in Differing \ {"manifest"} |-> bytes[merged[f]]]
    /\ UNCHANGED <<bytes, base, merged, sources, identity, known, output, changes>>

(* The rows of the new manifest, and the manifest itself, that differ from *)
(* the baseline's; anything but a replacement or metadata is an error.     *)
SelectChanged ==
    /\ To("select", "revalidate")
    /\ Differing \subseteq Replaced \cup Metadata
    /\ changed' = [f \in Differing |-> bytes[merged[f]]]
    /\ UNCHANGED <<bytes, base, merged, sources, identity, known, output, changes>>

(* Baseline and replacements are still what they were at the start.        *)
Revalidate ==
    /\ To("revalidate", "publish")
    /\ ValidTree(Contents(base))
    /\ Contents(base)["manifest"] = known.baseline["manifest"]
    /\ \A f \in Replaced : sources[f] = known.source[f]
    /\ UNCHANGED <<bytes, base, merged, sources, identity, known, changed, output, changes>>

(* The output is free still; the scratch directory goes.                   *)
PublishDelta ==
    /\ To("publish", "identity")
    /\ output = {}
    /\ output' = {[commit |-> known.commit, baseline |-> known.baseline["manifest"],
                   files |-> changed]}
    /\ merged' = [f \in {} |-> None]
    /\ UNCHANGED <<bytes, base, sources, identity, known, changed, changes>>

(* main: a candidate that moved meanwhile is reported, "do not deploy".    *)
ConfirmIdentity ==
    /\ maker = "identity"
    /\ maker' = IF identity = known.commit THEN "done" ELSE "failed"
    /\ UNCHANGED <<bytes, base, merged, sources, identity, known, changed, output, changes>>

(* A check that fails, an exception or a kill before publication.          *)
StopMaker ==
    /\ maker \notin {"idle", "identity", "done", "failed"}
    /\ maker' = "failed" /\ merged' = [f \in {} |-> None] /\ changed' = None
    /\ UNCHANGED <<bytes, base, sources, identity, known, output, changes>>

(* Somebody edits a replacement, writes into a baseline file, commits, or  *)
(* publishes at the output path.                                           *)
Change ==
    /\ changes < MaxChanges /\ changes' = changes + 1
    /\ \/ /\ \E f \in Runtime : sources' = [sources EXCEPT ![f] = @ + 1]
          /\ UNCHANGED <<bytes, identity, output>>
       \/ /\ \E f \in Payload : bytes' = [bytes EXCEPT ![base[f]] = @ + 1]
          /\ UNCHANGED <<sources, identity, output>>
       \/ /\ identity' = identity + 1
          /\ UNCHANGED <<bytes, sources, output>>
       \/ /\ output = {}
          /\ output' = {[commit |-> 0, baseline |-> None, files |-> None]}
          /\ UNCHANGED <<bytes, sources, identity>>
    /\ UNCHANGED <<base, merged, known, changed, maker>>

DeltaNext ==
    \/ StartDelta \/ LinkUnchanged \/ WriteContract \/ WriteManifest \/ ValidateMerged
    \/ SelectChanged \/ Revalidate \/ PublishDelta \/ ConfirmIdentity \/ StopMaker \/ Change
    \/ \E f \in Runtime : CopyReplacement(f)

-----------------------------------------------------------------------------
(* "The baseline is never edited": whatever the maker writes while its     *)
(* scratch tree shares inodes with the baseline, no byte of the baseline   *)
(* changes by it, only by the edits of others (make_delta).                *)
BaselineKept == [][changes' = changes => Contents(base)' = Contents(base)]_deltaVars

(* A published delta laid over the baseline it names gives a valid tree of *)
(* the candidate it names, whatever was edited while it was made: the      *)
(* changed files were chosen, copied and validated at different moments.   *)
DeltaReconstructs ==
    maker \in {"identity", "done"} => \E delta \in output :
        LET tree == [f \in TreeFiles |-> IF f \in DOMAIN delta.files THEN delta.files[f]
                                         ELSE known.baseline[f]]
        IN /\ delta.baseline = known.baseline["manifest"]
           /\ ValidTree(tree) /\ tree["contract"].commit = delta.commit
           /\ tree["manifest"].commit = delta.commit
=============================================================================
