--------------------------- MODULE DeploymentProofs ---------------------------
(***************************************************************************)
(* Proofs about the delta (SdDelta) and its deployment (Deployment), for   *)
(* every package, list of files, number of deployments and of faults.  The *)
(* two never touch each other's variables, so each invariant is inductive  *)
(* over the steps of its own part and is kept by those of the other.       *)
(***************************************************************************)
EXTENDS Deployment, TLAPS

-----------------------------------------------------------------------------
(* Making a delta (SdDelta).                                               *)

(* The rows of the scratch tree's new files have inodes of their own.      *)
Renewed == Replaced \cup Metadata
InodeFor(f) == IF f \in Renewed THEN NewInode(f) ELSE BaseInode(f)

Writers == {"copy", "manifest", "validate", "select"}
ScratchInv ==
    /\ changes \in Nat
    /\ bytes = [i \in Inodes |-> bytes[i]]
    /\ base = [f \in TreeFiles |-> BaseInode(f)]
    /\ maker \in Writers \cup
          {"idle", "link", "revalidate", "publish", "identity", "done", "failed"}
    /\ maker \notin {"idle", "done", "failed"} => Replaced \subseteq Runtime
    /\ maker \in Writers => /\ merged = [f \in DOMAIN merged |-> InodeFor(f)]
                            /\ DOMAIN merged \subseteq TreeFiles
                            /\ TreeFiles \ Renewed \subseteq DOMAIN merged
    /\ maker = "copy" => DOMAIN merged \cap Metadata = {}
    /\ maker = "manifest" => DOMAIN merged = TreeFiles \ {"manifest"}
    /\ maker \in {"validate", "select"} => DOMAIN merged = TreeFiles
    /\ maker \in {"manifest", "validate"} =>
          bytes[NewInode("contract")].commit = known.commit

(* What is laid over the baseline to give the tree that was validated.     *)
Overlay(files) == [f \in TreeFiles |-> IF f \in DOMAIN files THEN files[f]
                                       ELSE known.baseline[f]]
CandidateTree(tree) == /\ ValidTree(tree)
                       /\ tree["contract"].commit = known.commit
                       /\ tree["manifest"].commit = known.commit

SelectionInv ==
    /\ maker = "select" => /\ CandidateTree(NewRows)
                           /\ \A f \in Renewed : bytes[merged[f]] = NewRows[f]
    /\ maker \in {"revalidate", "publish"} => CandidateTree(Overlay(changed))
    /\ maker \in {"identity", "done"} => \E delta \in output :
          /\ delta.commit = known.commit /\ delta.baseline = known.baseline["manifest"]
          /\ CandidateTree(Overlay(delta.files))

LEMMA FilesApart ==
    /\ Runtime \subseteq Payload /\ Payload \cap Metadata = {}
    /\ TreeFiles = Payload \cup Metadata
    /\ "contract" \in Metadata /\ "manifest" \in Metadata /\ "contract" # "manifest"
    /\ \A f, g : BaseInode(f) # NewInode(g)
    /\ \A f, g : NewInode(f) = NewInode(g) => f = g
    /\ \A f \in TreeFiles : NewInode(f) \in Inodes /\ BaseInode(f) \in Inodes
BY FilesAssumption DEF Payload, Metadata, TreeFiles, BaseInode, NewInode, Inodes

LEMMA InitScratch == DeltaInit => ScratchInv
BY DEF DeltaInit, ScratchInv, Writers

(* A file of the scratch tree is only ever written into an inode of its    *)
(* own.                                                                    *)
LEMMA WritesOwnInode ==
    ASSUME ScratchInv, NEW f \in Renewed \ DOMAIN merged, Renewed \subseteq TreeFiles,
           NEW content, Writing(f, content)
    PROVE  /\ bytes' = [bytes EXCEPT ![NewInode(f)] = content]
           /\ bytes' = [i \in Inodes |-> bytes'[i]]
           /\ bytes'[NewInode(f)] = content
           /\ \A i \in Inodes : i # NewInode(f) => bytes'[i] = bytes[i]
           /\ DOMAIN merged' = DOMAIN merged \cup {f}
           /\ merged' = [g \in DOMAIN merged \cup {f} |->
                            IF g = f THEN NewInode(f) ELSE merged[g]]
<1>1. f \in TreeFiles /\ NewInode(f) \in Inodes
  BY FilesApart
<1>2. /\ bytes' = [bytes EXCEPT ![NewInode(f)] = content]
      /\ merged' = [g \in DOMAIN merged \cup {f} |->
                       IF g = f THEN NewInode(f) ELSE merged[g]]
  BY DEF Writing
<1>3. bytes = [i \in Inodes |-> bytes[i]]
  BY DEF ScratchInv
<1>4. QED
  BY <1>1, <1>2, <1>3

(* What others edit while the maker works is never one of its own inodes.  *)
LEMMA EditsAreOld ==
    ASSUME ScratchInv, Change
    PROVE  /\ bytes' = [i \in Inodes |-> bytes'[i]]
           /\ \A f : bytes'[NewInode(f)] = bytes[NewInode(f)]
<1>1. CASE UNCHANGED bytes
  BY <1>1 DEF ScratchInv
<1>2. ASSUME NEW f \in Payload, bytes' = [bytes EXCEPT ![base[f]] = @ + 1]
      PROVE  /\ bytes' = [i \in Inodes |-> bytes'[i]]
             /\ \A g : bytes'[NewInode(g)] = bytes[NewInode(g)]
  <2>1. base[f] = BaseInode(f) /\ BaseInode(f) \in Inodes
    BY FilesApart DEF ScratchInv
  <2>2. QED
    BY <1>2, <2>1, FilesApart DEF ScratchInv
<1>3. QED
  BY <1>1, <1>2 DEF Change

LEMMA StepScratch == ScratchInv /\ [DeltaNext]_deltaVars => ScratchInv'
<1> SUFFICES ASSUME ScratchInv, [DeltaNext]_deltaVars PROVE ScratchInv'
  OBVIOUS
<1> USE DEF ScratchInv, To, Writers
<1>0. ASSUME ~StartDelta
      PROVE  Replaced' = Replaced /\ Renewed' = Renewed /\ \A f : InodeFor(f)' = InodeFor(f)
  <2>1. known' = known
    BY <1>0 DEF DeltaNext, LinkUnchanged, CopyReplacement, WriteContract, WriteManifest,
                ValidateMerged, SelectChanged, Revalidate, PublishDelta, ConfirmIdentity,
                StopMaker, Change, deltaVars
  <2>2. QED
    BY <2>1 DEF Renewed, Replaced, InodeFor
<1>1. CASE StartDelta
  BY <1>1 DEF StartDelta, Replaced
<1>2. CASE LinkUnchanged
  <2>1. merged' = [f \in TreeFiles \ Renewed |-> BaseInode(f)]
    BY <1>2 DEF LinkUnchanged, Renewed
  <2>2. QED
    BY <1>2, <2>1, <1>0, FilesApart DEF LinkUnchanged, StartDelta, InodeFor, Renewed
<1>3. ASSUME NEW f \in Runtime, CopyReplacement(f) PROVE ScratchInv'
  <2>1. f \in Renewed \ DOMAIN merged /\ Renewed \subseteq TreeFiles /\ Writing(f, sources[f])
    BY <1>3, FilesApart DEF CopyReplacement, Renewed
  <2>2. /\ bytes' = [i \in Inodes |-> bytes'[i]]
        /\ DOMAIN merged' = DOMAIN merged \cup {f}
        /\ merged' = [g \in DOMAIN merged \cup {f} |->
                         IF g = f THEN NewInode(f) ELSE merged[g]]
    BY <2>1, WritesOwnInode
  <2>3. QED
    BY <1>3, <2>1, <2>2, <1>0, FilesApart DEF CopyReplacement, StartDelta, InodeFor
<1>4. CASE WriteContract
  <2>1. "contract" \in Renewed \ DOMAIN merged /\ Renewed \subseteq TreeFiles
    BY <1>4, FilesApart DEF WriteContract, Renewed
  <2>2. /\ bytes' = [i \in Inodes |-> bytes'[i]]
        /\ bytes'[NewInode("contract")] = ContractOf(Contents(merged), known.commit)
        /\ DOMAIN merged' = DOMAIN merged \cup {"contract"}
        /\ merged' = [g \in DOMAIN merged \cup {"contract"} |->
                         IF g = "contract" THEN NewInode("contract") ELSE merged[g]]
    BY <1>4, <2>1, WritesOwnInode DEF WriteContract
  <2>3. DOMAIN merged' = TreeFiles \ {"manifest"}
    BY <1>4, <2>2, FilesApart DEF WriteContract, Renewed, Metadata
  <2>4. bytes'[NewInode("contract")].commit = known'.commit
    BY <1>4, <2>2 DEF WriteContract, ContractOf
  <2>5. QED
    BY <1>4, <2>1, <2>2, <2>3, <2>4, <1>0, FilesApart DEF WriteContract, StartDelta, InodeFor
<1>5. CASE WriteManifest
  <2>1. "manifest" \in Renewed \ DOMAIN merged /\ Renewed \subseteq TreeFiles
    BY <1>5, FilesApart DEF WriteManifest, Renewed
  <2>2. /\ bytes' = [i \in Inodes |-> bytes'[i]]
        /\ bytes'[NewInode("contract")] = bytes[NewInode("contract")]
        /\ DOMAIN merged' = DOMAIN merged \cup {"manifest"}
        /\ merged' = [g \in DOMAIN merged \cup {"manifest"} |->
                         IF g = "manifest" THEN NewInode("manifest") ELSE merged[g]]
    BY <1>5, <2>1, WritesOwnInode, FilesApart DEF WriteManifest
  <2>3. DOMAIN merged' = TreeFiles
    BY <1>5, <2>2, FilesApart DEF WriteManifest
  <2>4. QED
    BY <1>5, <2>1, <2>2, <2>3, <1>0, FilesApart DEF WriteManifest, StartDelta, InodeFor
<1>6. CASE \/ ValidateMerged \/ SelectChanged \/ Revalidate \/ PublishDelta
           \/ ConfirmIdentity \/ StopMaker
  BY <1>6, <1>0 DEF ValidateMerged, SelectChanged, Revalidate, PublishDelta, ConfirmIdentity,
                    StopMaker, StartDelta
<1>7. CASE Change
  <2>1. /\ bytes' = [i \in Inodes |-> bytes'[i]]
        /\ \A f : bytes'[NewInode(f)] = bytes[NewInode(f)]
    BY <1>7, EditsAreOld
  <2>2. UNCHANGED <<base, merged, known, maker>> /\ changes' \in Nat
    BY <1>7 DEF Change
  <2>3. Replaced' = Replaced /\ Renewed' = Renewed /\ \A f : InodeFor(f)' = InodeFor(f)
    BY <2>2 DEF Renewed, Replaced, InodeFor
  <2>4. QED
    BY <2>1, <2>2, <2>3
<1>8. CASE UNCHANGED deltaVars
  BY <1>8, <1>0 DEF deltaVars, StartDelta
<1>9. QED
  BY <1>1, <1>2, <1>3, <1>4, <1>5, <1>6, <1>7, <1>8 DEF DeltaNext

(* The validated scratch tree is the one its manifest lists.               *)
LEMMA ValidatedIsListed ==
    ASSUME DOMAIN merged = TreeFiles, merged["manifest"] = NewInode("manifest"),
           ValidTree(Contents(merged))
    PROVE  NewRows = Contents(merged)
<1> DEFINE tree == Contents(merged)
<1>1. tree = [f \in TreeFiles |-> bytes[merged[f]]]
  BY DEF Contents
<1>2. /\ "manifest" \notin DOMAIN tree["manifest"].files
      /\ DOMAIN tree = DOMAIN tree["manifest"].files \cup {"manifest"}
      /\ \A f \in DOMAIN tree["manifest"].files : tree[f] = tree["manifest"].files[f]
  BY DEF ValidTree, FilesRecorded
<1>3. tree["manifest"] = bytes[merged["manifest"]]
  BY <1>1, FilesApart
<1>4. \A f \in TreeFiles : f # "manifest" => tree[f] = bytes[merged["manifest"]].files[f]
  BY <1>1, <1>2, <1>3
<1>5. QED
  BY <1>1, <1>3, <1>4 DEF NewRows

(* A tree read from the new manifest's rows depends on new inodes only.    *)
LEMMA InitSelection == DeltaInit => SelectionInv
BY DEF DeltaInit, SelectionInv

LEMMA StepSelection == ScratchInv /\ SelectionInv /\ [DeltaNext]_deltaVars => SelectionInv'
<1> SUFFICES ASSUME ScratchInv, SelectionInv, [DeltaNext]_deltaVars PROVE SelectionInv'
  OBVIOUS
<1> USE DEF To
<1>1. ASSUME UNCHANGED <<known, changed, output>>, UNCHANGED maker, maker # "select"
      PROVE  SelectionInv'
  BY <1>1 DEF SelectionInv, CandidateTree, Overlay
<1>2. CASE StartDelta \/ LinkUnchanged \/ WriteContract \/ WriteManifest
  BY <1>2 DEF StartDelta, LinkUnchanged, WriteContract, WriteManifest, SelectionInv
<1>3. ASSUME NEW f \in Runtime, CopyReplacement(f) PROVE SelectionInv'
  BY <1>3, <1>1 DEF CopyReplacement
<1>4. CASE ValidateMerged
  <2>1. /\ maker = "validate" /\ DOMAIN merged = TreeFiles
        /\ \A f \in Renewed : merged[f] = NewInode(f)
        /\ {"manifest", "contract"} \subseteq Renewed /\ Renewed \subseteq TreeFiles
        /\ bytes[NewInode("contract")].commit = known.commit
    BY <1>4, FilesApart DEF ValidateMerged, ScratchInv, Writers, InodeFor, Renewed
  <2>2. ValidTree(Contents(merged))
    BY <1>4 DEF ValidateMerged
  <2>3. NewRows = Contents(merged) /\ Contents(merged) = [f \in TreeFiles |-> bytes[merged[f]]]
    BY <2>1, <2>2, ValidatedIsListed DEF Contents
  <2>4. CandidateTree(NewRows)
    BY <2>1, <2>2, <2>3, FilesApart DEF CandidateTree, ValidTree, Linked
  <2>5. \A f \in Renewed : bytes[merged[f]] = NewRows[f]
    BY <2>1, <2>3
  <2>6. UNCHANGED <<bytes, merged, known, changed, output>> /\ maker' = "select"
    BY <1>4 DEF ValidateMerged
  <2>7. QED
    BY <2>4, <2>5, <2>6 DEF SelectionInv, CandidateTree, NewRows, Renewed, Replaced
<1>5. CASE SelectChanged
  <2>1. /\ maker = "select" /\ maker' = "revalidate"
        /\ UNCHANGED <<bytes, merged, known, output>>
        /\ Differing \subseteq Renewed
        /\ changed' = [f \in Differing |-> bytes[merged[f]]]
    BY <1>5 DEF SelectChanged, Renewed
  <2>2. CandidateTree(NewRows) /\ \A f \in Renewed : bytes[merged[f]] = NewRows[f]
    BY <2>1 DEF SelectionInv
  <2>3. \A f \in TreeFiles : f \notin Differing => NewRows[f] = known.baseline[f]
    BY DEF Differing
  <2>4. Overlay(changed)' = NewRows
    <3>1. NewRows = [f \in TreeFiles |-> NewRows[f]]
      BY DEF NewRows
    <3>2. Overlay(changed)' = [f \in TreeFiles |-> NewRows[f]]
      BY <2>1, <2>2, <2>3 DEF Overlay
    <3>3. QED
      BY <3>1, <3>2
  <2>5. QED
    BY <2>1, <2>2, <2>4 DEF SelectionInv, CandidateTree
<1>6. CASE Revalidate
  BY <1>6 DEF Revalidate, SelectionInv, CandidateTree, Overlay
<1>7. CASE PublishDelta
  <2>1. /\ maker = "publish" /\ maker' = "identity" /\ UNCHANGED <<known, changed>>
        /\ output' = {[commit |-> known.commit, baseline |-> known.baseline["manifest"],
                       files |-> changed]}
    BY <1>7 DEF PublishDelta
  <2>2. CandidateTree(Overlay(changed))
    BY <2>1 DEF SelectionInv
  <2>3. QED
    BY <2>1, <2>2 DEF SelectionInv, CandidateTree, Overlay
<1>8. CASE ConfirmIdentity
  BY <1>8 DEF ConfirmIdentity, SelectionInv, CandidateTree, Overlay
<1>9. CASE StopMaker
  BY <1>9 DEF StopMaker, SelectionInv
<1>10. CASE Change
  <2>1. UNCHANGED <<merged, known, changed, maker>>
    BY <1>10 DEF Change
  <2>2. output # {} => output' = output
    BY <1>10 DEF Change
  <2>3. CASE maker = "select"
    <3>1. /\ \A f \in Renewed : merged[f] = NewInode(f)
          /\ "manifest" \in Renewed
      BY <2>3, FilesApart DEF ScratchInv, Writers, InodeFor, Renewed
    <3>2. \A f \in Renewed : bytes'[NewInode(f)] = bytes[NewInode(f)]
      BY <1>10, EditsAreOld
    <3>3. NewRows' = NewRows /\ Renewed' = Renewed
      BY <2>1, <3>1, <3>2 DEF NewRows, Renewed, Replaced
    <3>4. QED
      BY <2>1, <2>3, <3>1, <3>2, <3>3 DEF SelectionInv, CandidateTree
  <2>4. CASE maker # "select"
    BY <2>1, <2>2, <2>4 DEF SelectionInv, CandidateTree, Overlay
  <2>5. QED
    BY <2>3, <2>4
<1>11. CASE UNCHANGED deltaVars
  BY <1>11 DEF deltaVars, SelectionInv, CandidateTree, Overlay, NewRows, Renewed, Replaced
<1>12. QED
  BY <1>2, <1>3, <1>4, <1>5, <1>6, <1>7, <1>8, <1>9, <1>10, <1>11 DEF DeltaNext

LEMMA Reconstructs == SelectionInv => DeltaReconstructs
BY DEF SelectionInv, CandidateTree, Overlay, DeltaReconstructs

LEMMA StepKeepsBaseline ==
    ScratchInv /\ [DeltaNext]_deltaVars
       => [changes' = changes => Contents(base)' = Contents(base)]_deltaVars
<1> SUFFICES ASSUME ScratchInv, DeltaNext, changes' = changes
             PROVE  Contents(base)' = Contents(base)
  BY DEF deltaVars
<1>1. base' = base
  BY DEF DeltaNext, StartDelta, LinkUnchanged, CopyReplacement, WriteContract, WriteManifest,
         ValidateMerged, SelectChanged, Revalidate, PublishDelta, ConfirmIdentity,
         StopMaker, Change
<1>2. SUFFICES \A f \in TreeFiles : bytes'[BaseInode(f)] = bytes[BaseInode(f)]
  BY <1>1 DEF ScratchInv, Contents
<1>3. ASSUME NEW f \in Renewed \ DOMAIN merged, Renewed \subseteq TreeFiles,
             NEW content, Writing(f, content)
      PROVE  \A g \in TreeFiles : bytes'[BaseInode(g)] = bytes[BaseInode(g)]
  BY <1>3, WritesOwnInode, FilesApart
<1>4. CASE WriteContract
  <2>1. "contract" \in Renewed \ DOMAIN merged /\ Renewed \subseteq TreeFiles
    BY <1>4, FilesApart DEF WriteContract, Renewed, ScratchInv, To
  <2>2. QED
    BY <1>3, <1>4, <2>1 DEF WriteContract
<1>5. CASE WriteManifest
  <2>1. "manifest" \in Renewed \ DOMAIN merged /\ Renewed \subseteq TreeFiles
    BY <1>5, FilesApart DEF WriteManifest, Renewed, ScratchInv, To
  <2>2. QED
    BY <1>3, <1>5, <2>1 DEF WriteManifest
<1>6. ASSUME NEW f \in Runtime, CopyReplacement(f)
      PROVE  \A g \in TreeFiles : bytes'[BaseInode(g)] = bytes[BaseInode(g)]
  <2>1. f \in Renewed \ DOMAIN merged /\ Renewed \subseteq TreeFiles /\ Writing(f, sources[f])
    BY <1>6, FilesApart DEF CopyReplacement, Renewed, ScratchInv
  <2>2. QED
    BY <1>3, <2>1
<1>7. CASE \/ StartDelta \/ LinkUnchanged \/ ValidateMerged \/ SelectChanged \/ Revalidate
           \/ PublishDelta \/ ConfirmIdentity \/ StopMaker
  BY <1>7 DEF StartDelta, LinkUnchanged, ValidateMerged, SelectChanged, Revalidate, PublishDelta,
              ConfirmIdentity, StopMaker
<1>8. CASE Change
  BY <1>8 DEF Change, ScratchInv
<1>9. QED
  BY <1>4, <1>5, <1>6, <1>7, <1>8 DEF DeltaNext

-----------------------------------------------------------------------------
(* Deploying (Deployment).                                                 *)

(* What a run of either tool has done so far.                              *)
Touched == {published[j][1] : j \in DOMAIN published}

DeployTypes ==
    /\ live \in Trees \cup {None} /\ staging \in Trees \cup {None} /\ uploads \in Trees
    /\ backup \in [1..MaxDeploys -> Trees]
    /\ number \in 0..MaxDeploys
    /\ published \in Seq(Files \X BOOLEAN)
    /\ before \in Trees \cup {None}
    /\ tool \in {"none", "full", "delta"}
    /\ tool # "none" => number # 0 /\ pkg \in Packages
    /\ \A n \in 1..MaxDeploys : n > number => backup[n] = NoFiles

FullInv == tool = "full" =>
    /\ step \in {"upload", "verify", "backup", "publish", "readback"}
    /\ step \in {"upload", "verify"} => staging \in Trees
    /\ step \in {"upload", "verify", "backup"} => live = before /\ backup[number] = NoFiles
    /\ step \in {"backup", "publish"} => staging = Tree(pkg)
    /\ step = "publish" => /\ live = None
                           /\ backup[number] = IF before = None THEN NoFiles ELSE before
    /\ step = "readback" => live = Tree(pkg)

Forwards == {"moveOld", "moveNew", "legacy"}
DeltaInv == tool = "delta" =>
    /\ step \in {"stage", "undo", "undoRename"} \cup Forwards
    /\ live \in Trees /\ before \in Trees
    /\ order \in DeltaOrders /\ at \in 1..Len(order)
    /\ Len(published) <= Len(order)
    /\ \A j \in 1..Len(published) : published[j][1] = order[j]
    /\ step = "stage" => /\ live = before /\ backup[number] = NoFiles /\ published = <<>>
                         /\ \A j \in 1..Len(order) : j < at => order[j] \in DOMAIN uploads
    /\ step \in {"moveOld", "moveNew"} =>
          \A j \in 1..Len(order) : j >= at => order[j] \in DOMAIN uploads
    /\ step = "moveOld" => Len(published) = at - 1
    /\ step = "moveNew" => Len(published) = at /\ order[at] \notin DOMAIN live
    /\ step \in Forwards => DOMAIN backup[number] \subseteq Touched
    /\ step = "undoRename" => published # <<>> /\ LastPublished[1] \notin DOMAIN live

ShapeInv == DeployTypes /\ FullInv /\ DeltaInv

Names == Files \cup UserFiles

(* What the two ways of changing a tree do.                                *)
LEMMA TreeIs ==
    \A t : t \in Trees <=> t \in [DOMAIN t -> Copies] /\ DOMAIN t \subseteq Names
<1>1. \A t : t \in Trees <=> \E D \in SUBSET Names : t \in [D -> Copies]
  BY DEF Trees, Names
<1>2. QED
  BY <1>1

LEMMA NoTreeIsNone == None \notin Trees
BY DeployAssumption

LEMMA NoFilesIsTree == NoFiles \in Trees /\ DOMAIN NoFiles = {}
BY TreeIs DEF NoFiles

LEMMA PackageIsTree ==
    ASSUME NEW p \in Packages
    PROVE  /\ Tree(p) \in Trees /\ Tree(p) # None /\ DOMAIN Tree(p) = Files
           /\ \A f \in Files : Tree(p)[f] = p
BY TreeIs, NoTreeIsNone DEF Tree, Copies, Names

LEMMA WithIs ==
    ASSUME NEW t \in Trees, NEW f \in Names, NEW c \in Copies
    PROVE  /\ With(t, f, c) \in Trees /\ DOMAIN With(t, f, c) = DOMAIN t \cup {f}
           /\ With(t, f, c)[f] = c
           /\ \A g \in DOMAIN t : g # f => With(t, f, c)[g] = t[g]
<1>1. t \in [DOMAIN t -> Copies] /\ DOMAIN t \subseteq Names
  BY TreeIs
<1>2. With(t, f, c) = [g \in DOMAIN t \cup {f} |-> IF g = f THEN c ELSE t[g]]
  BY DEF With
<1>3. With(t, f, c) \in [DOMAIN t \cup {f} -> Copies]
  BY <1>1, <1>2
<1>4. QED
  BY <1>1, <1>2, <1>3, TreeIs

LEMMA WithoutIs ==
    ASSUME NEW t \in Trees, NEW f
    PROVE  /\ Without(t, f) \in Trees /\ DOMAIN Without(t, f) = DOMAIN t \ {f}
           /\ \A g \in DOMAIN t : g # f => Without(t, f)[g] = t[g]
<1>1. t \in [DOMAIN t -> Copies] /\ DOMAIN t \subseteq Names
  BY TreeIs
<1>2. Without(t, f) = [g \in DOMAIN t \ {f} |-> t[g]]
  BY DEF Without
<1>3. Without(t, f) \in [DOMAIN t \ {f} -> Copies]
  BY <1>1, <1>2
<1>4. QED
  BY <1>1, <1>2, <1>3, TreeIs

LEMMA TreesEqual ==
    ASSUME NEW t \in Trees, NEW u \in Trees, DOMAIN t = DOMAIN u,
           \A f \in DOMAIN t : t[f] = u[f]
    PROVE  t = u
<1>1. t \in [DOMAIN t -> Copies] /\ u \in [DOMAIN t -> Copies]
  BY TreeIs
<1>2. QED
  BY <1>1

LEMMA PairsAre ==
    /\ Pairs(None) = {}
    /\ \A t \in Trees : Pairs(t) = {<<f, t[f]>> : f \in DOMAIN t}
BY NoTreeIsNone DEF Pairs

(* A pair of one tree is a pair of another that has that file alike.       *)
LEMMA PairMoves ==
    ASSUME NEW t \in Trees, NEW u \in Trees, NEW x \in Pairs(t),
           x[1] \in DOMAIN u, u[x[1]] = t[x[1]]
    PROVE  x \in Pairs(u)
<1>1. PICK f \in DOMAIN t : x = <<f, t[f]>>
  BY PairsAre
<1>2. QED
  BY <1>1, PairsAre

LEMMA PairNames ==
    ASSUME NEW t \in Trees, NEW x \in Pairs(t)
    PROVE  x[1] \in DOMAIN t /\ x = <<x[1], t[x[1]]>>
<1>1. PICK f \in DOMAIN t : x = <<f, t[f]>>
  BY PairsAre
<1>2. QED
  BY <1>1

(* The delta's list of files.                                              *)
LEMMA OrderIs ==
    ASSUME NEW o \in DeltaOrders
    PROVE  /\ o \in Seq(Files) /\ Len(o) \in Nat /\ Len(o) >= 1
           /\ \A i, j \in 1..Len(o) : o[i] = o[j] => i = j
           /\ \A i \in 1..Len(o) : o[i] \in Files /\ o[i] \in Names
<1>1. o \in Seq(Files) /\ o # <<>> /\ \A i, j \in DOMAIN o : o[i] = o[j] => i = j
  BY DeployAssumption DEF IsInjective
<1>2. QED
  BY <1>1 DEF Names

LEMMA InitShape == DeployInit => ShapeInv
<1> SUFFICES ASSUME DeployInit PROVE ShapeInv
  OBVIOUS
<1>1. live \in Trees
  BY TreeIs DEF DeployInit, Copies, Names
<1>2. /\ staging = None /\ uploads = NoFiles /\ backup = [n \in 1..MaxDeploys |-> NoFiles]
      /\ number = 0 /\ published = <<>> /\ before = None /\ tool = "none"
  BY DEF DeployInit
<1>3. MaxDeploys \in Nat
  BY DeployAssumption
<1>4. DeployTypes
  BY <1>1, <1>2, <1>3, NoFilesIsTree DEF DeployTypes
<1>5. QED
  BY <1>2, <1>4 DEF ShapeInv, FullInv, DeltaInv

LEMMA FullShape ==
    ASSUME ShapeInv,
           \/ StartFull \/ VerifyStaged \/ BackUpTree \/ PublishTree \/ RefusePublish
           \/ ReportFull \/ \E f \in Files : UploadFile(f)
    PROVE  ShapeInv'
<1> USE DEF ShapeInv, Go, Fault, End
<1>0. number \in Nat /\ MaxDeploys \in Nat /\ number <= MaxDeploys
  BY DeployAssumption DEF DeployTypes
<1>1. CASE StartFull
  <2>1. /\ tool = "none" /\ number < MaxDeploys /\ number' = number + 1 /\ pkg' \in Packages
        /\ published' = <<>> /\ before' = live /\ staging' = NoFiles
        /\ UNCHANGED <<live, uploads, backup>> /\ tool' = "full" /\ step' = "upload"
    BY <1>1 DEF StartFull, Begin
  <2>2. number' \in 0..MaxDeploys /\ number' # 0 /\ number' > number /\ number' \in 1..MaxDeploys
    BY <1>0, <2>1
  <2>3. DeployTypes'
    BY <1>0, <2>1, <2>2, NoFilesIsTree DEF DeployTypes
  <2>4. FullInv'
    BY <1>0, <2>1, <2>2, NoFilesIsTree DEF DeployTypes, FullInv
  <2>5. QED
    BY <2>1, <2>3, <2>4 DEF DeltaInv
<1>2. ASSUME NEW f \in Files, UploadFile(f) PROVE ShapeInv'
  <2>1. /\ tool = "full" /\ step = "upload" /\ tool' = "full" /\ step' \in {"upload", "verify"}
        /\ UNCHANGED <<live, uploads, backup, number, pkg, published, before>>
    BY <1>2 DEF UploadFile, card
  <2>2. PICK c \in {pkg, Damaged} : staging' = With(staging, f, c)
    BY <1>2 DEF UploadFile
  <2>3. c \in Copies /\ staging \in Trees /\ pkg \in Copies /\ Damaged \in Copies /\ f \in Names
    BY <2>1 DEF FullInv, DeployTypes, Copies, Names
  <2>4. staging' \in Trees
    BY <2>2, <2>3, WithIs
  <2>5. DeployTypes'
    BY <2>1, <2>4 DEF DeployTypes
  <2>6. FullInv'
    BY <2>1, <2>4 DEF FullInv
  <2>7. QED
    BY <2>1, <2>5, <2>6 DEF DeltaInv
<1>3. CASE VerifyStaged
  BY <1>3 DEF VerifyStaged, card, DeployTypes, FullInv, DeltaInv
<1>4. CASE BackUpTree
  <2>1. /\ tool = "full" /\ step = "backup" /\ tool' = "full" /\ step' = "publish"
        /\ live' = None
        /\ backup' = [backup EXCEPT ![number] = IF live = None THEN NoFiles ELSE live]
        /\ UNCHANGED <<staging, uploads, number, pkg, published, before>>
    BY <1>4 DEF BackUpTree
  <2>2. /\ number \in 1..MaxDeploys /\ backup \in [1..MaxDeploys -> Trees]
        /\ (IF live = None THEN NoFiles ELSE live) \in Trees /\ live = before
    BY <1>0, <2>1, NoFilesIsTree DEF DeployTypes, FullInv
  <2>3. backup' \in [1..MaxDeploys -> Trees]
        /\ backup'[number] = (IF before = None THEN NoFiles ELSE before)
        /\ \A n \in 1..MaxDeploys : n # number => backup'[n] = backup[n]
    BY <2>1, <2>2
  <2>4. DeployTypes'
    BY <1>0, <2>1, <2>3 DEF DeployTypes
  <2>5. QED
    BY <2>1, <2>3, <2>4 DEF FullInv, DeltaInv
<1>5. CASE PublishTree
  <2>1. /\ tool = "full" /\ step = "publish" /\ tool' = "full" /\ step' = "readback"
        /\ live' = staging /\ staging' = None
        /\ UNCHANGED <<uploads, backup, number, pkg, published, before>>
    BY <1>5 DEF PublishTree
  <2>2. staging = Tree(pkg) /\ Tree(pkg) \in Trees
    BY <2>1, PackageIsTree DEF FullInv, DeployTypes
  <2>3. DeployTypes'
    BY <2>1, <2>2 DEF DeployTypes
  <2>4. QED
    BY <2>1, <2>2, <2>3 DEF FullInv, DeltaInv
<1>6. CASE RefusePublish
  <2>1. /\ tool' = "none" /\ live' = before /\ tool = "full"
        /\ backup' = [backup EXCEPT ![number] = NoFiles]
        /\ UNCHANGED <<staging, uploads, number, pkg, published, before>>
    BY <1>6 DEF RefusePublish
  <2>2. /\ backup' \in [1..MaxDeploys -> Trees]
        /\ \A n \in 1..MaxDeploys : n > number => backup'[n] = NoFiles
    BY <1>0, <2>1, NoFilesIsTree DEF DeployTypes
  <2>3. DeployTypes'
    BY <2>1, <2>2 DEF DeployTypes
  <2>4. QED
    BY <2>1, <2>3 DEF FullInv, DeltaInv
<1>7. CASE ReportFull
  BY <1>7 DEF ReportFull, card, DeployTypes, FullInv, DeltaInv
<1>8. QED
  BY <1>1, <1>2, <1>3, <1>4, <1>5, <1>6, <1>7

LEMMA TouchedIs ==
    ASSUME DeployTypes, DeltaInv, tool = "delta"
    PROVE  /\ Len(published) \in Nat /\ DOMAIN published = 1..Len(published)
           /\ Touched = {order[j] : j \in 1..Len(published)}
BY DEF DeployTypes, DeltaInv, Touched

(* A place in the delta's list and the file at it.                         *)
LEMMA PlaceIs ==
    ASSUME ShapeInv, tool = "delta"
    PROVE  /\ number \in 1..MaxDeploys /\ number \in Nat /\ MaxDeploys \in Nat
           /\ live \in Trees /\ backup[number] \in Trees /\ uploads \in Trees
           /\ at \in 1..Len(order) /\ Len(order) \in Nat
           /\ File = order[at] /\ File \in Files /\ File \in Names
           /\ order \in DeltaOrders
           /\ pkg \in Copies /\ Damaged \in Copies
BY DeployAssumption, OrderIs DEF ShapeInv, DeployTypes, DeltaInv, File, Copies

LEMMA LastIs ==
    ASSUME ShapeInv, tool = "delta", published # <<>>
    PROVE  /\ Len(published) \in 1..Len(order)
           /\ LastPublished = published[Len(published)]
           /\ LastPublished[1] = order[Len(published)] /\ LastPublished[1] \in Names
           /\ LastPublished[1] \in Touched
           /\ Front(published) \in Seq(Files \X BOOLEAN)
           /\ Len(Front(published)) = Len(published) - 1
           /\ \A j \in 1..(Len(published) - 1) : Front(published)[j] = published[j]
<1>1. published \in Seq(Files \X BOOLEAN) /\ Len(published) <= Len(order) /\ Len(order) \in Nat
  BY PlaceIs DEF ShapeInv, DeployTypes, DeltaInv
<1>2. Len(published) \in 1..Len(order)
  BY <1>1
<1>3. LastPublished = published[Len(published)]
  BY DEF LastPublished, Last
<1>4. LastPublished[1] = order[Len(published)]
  BY <1>2, <1>3 DEF ShapeInv, DeltaInv
<1>5. LastPublished[1] \in Names /\ LastPublished[1] \in Touched
  BY <1>1, <1>2, <1>3, <1>4, OrderIs, PlaceIs DEF Touched
<1>6. /\ Front(published) \in Seq(Files \X BOOLEAN)
      /\ Len(Front(published)) = Len(published) - 1
      /\ \A j \in 1..(Len(published) - 1) : Front(published)[j] = published[j]
  <2>1. Front(published) = [j \in 1..(Len(published) - 1) |-> published[j]]
    BY <1>1 DEF Front
  <2>2. Len(published) - 1 \in Nat /\ \A j \in 1..(Len(published) - 1) :
           published[j] \in Files \X BOOLEAN
    BY <1>1, <1>2
  <2>3. QED
    BY <2>1, <2>2
<1>7. QED
  BY <1>2, <1>3, <1>4, <1>5, <1>6

LEMMA StartDeltaShape == ASSUME ShapeInv, StartDeltaDeploy PROVE ShapeInv'
<1>0. number \in Nat /\ MaxDeploys \in Nat /\ number <= MaxDeploys
  BY DeployAssumption DEF ShapeInv, DeployTypes
<1>1. /\ tool = "none" /\ number < MaxDeploys /\ number' = number + 1 /\ pkg' \in Packages
      /\ published' = <<>> /\ before' = live /\ uploads' = NoFiles /\ at' = 1
      /\ order' \in DeltaOrders /\ live # None
      /\ UNCHANGED <<live, staging, backup>> /\ tool' = "delta" /\ step' = "stage"
  BY DEF StartDeltaDeploy, Begin
<1>2. number' \in 0..MaxDeploys /\ number' # 0 /\ number' > number /\ number' \in 1..MaxDeploys
  BY <1>0, <1>1
<1>3. DeployTypes'
  BY <1>0, <1>1, <1>2, NoFilesIsTree DEF ShapeInv, DeployTypes
<1>4. at' \in 1..Len(order') /\ \A j \in 1..Len(order') : ~(j < at')
  BY <1>1, OrderIs
<1>5. DeltaInv'
  BY <1>0, <1>1, <1>2, <1>4, OrderIs DEF ShapeInv, DeployTypes, DeltaInv, Forwards
<1>6. QED
  BY <1>1, <1>3, <1>5 DEF ShapeInv, FullInv

LEMMA StageShape == ASSUME ShapeInv, StageFile PROVE ShapeInv'
<1>1. /\ tool = "delta" /\ step = "stage" /\ Forward("moveOld")
      /\ UNCHANGED <<live, staging, backup, tool, number, pkg, order, published, before>>
  BY DEF StageFile
<1>2. PICK c \in {pkg, Damaged} : uploads' = With(uploads, File, c)
  BY DEF StageFile
<1>3. /\ uploads' \in Trees /\ DOMAIN uploads' = DOMAIN uploads \cup {order[at]}
  <2>1. c \in Copies /\ uploads \in Trees /\ File \in Names /\ File = order[at]
    BY <1>1, <1>2, PlaceIs
  <2>2. QED
    BY <1>2, <2>1, WithIs
<1>4. at \in 1..Len(order) /\ Len(order) \in Nat
  BY <1>1, PlaceIs
<1>5. /\ live = before /\ backup[number] = NoFiles /\ published = <<>>
      /\ \A j \in 1..Len(order) : j < at => order[j] \in DOMAIN uploads
  BY <1>1 DEF ShapeInv, DeltaInv
<1>6. DeployTypes'
  BY <1>1, <1>3 DEF ShapeInv, DeployTypes
<1>7. CASE at = Len(order)
  <2>1. at' = 1 /\ step' = "moveOld" /\ Len(published) = 0
    BY <1>1, <1>5, <1>7 DEF Forward
  <2>2. \A j \in 1..Len(order) : order[j] \in DOMAIN uploads'
    BY <1>3, <1>4, <1>5, <1>7
  <2>3. DeltaInv'
    BY <1>1, <1>4, <1>5, <2>1, <2>2, NoFilesIsTree DEF ShapeInv, DeltaInv, Forwards
  <2>4. QED
    BY <1>1, <1>6, <2>3 DEF ShapeInv, FullInv
<1>8. CASE at # Len(order)
  <2>1. at' = at + 1 /\ step' = "stage"
    BY <1>1, <1>8 DEF Forward
  <2>2. at' \in 1..Len(order)
        /\ \A j \in 1..Len(order) : j < at' => order[j] \in DOMAIN uploads'
    BY <1>3, <1>4, <1>5, <1>8, <2>1
  <2>3. DeltaInv'
    BY <1>1, <1>5, <2>1, <2>2 DEF ShapeInv, DeltaInv, Forwards
  <2>4. QED
    BY <1>1, <1>6, <2>3 DEF ShapeInv, FullInv
<1>9. QED
  BY <1>7, <1>8

LEMMA MoveOldShape == ASSUME ShapeInv, MoveOld PROVE ShapeInv'
<1>1. /\ tool = "delta" /\ step = "moveOld" /\ step' = "moveNew"
      /\ live' = Without(live, File)
      /\ backup' = IF File \in DOMAIN live
                   THEN [backup EXCEPT ![number] = With(@, File, live[File])] ELSE backup
      /\ published' = Append(published, <<File, File \in DOMAIN live>>)
      /\ UNCHANGED <<staging, uploads, tool, number, pkg, order, at, before>>
  BY DEF MoveOld, Go
<1>2. /\ live' \in Trees /\ File \notin DOMAIN live'
  BY <1>1, PlaceIs, WithoutIs
<1>3. /\ published \in Seq(Files \X BOOLEAN) /\ Len(published) = at - 1
      /\ <<File, File \in DOMAIN live>> \in Files \X BOOLEAN
  <2>1. published \in Seq(Files \X BOOLEAN) /\ Len(published) = at - 1
    BY <1>1 DEF ShapeInv, DeployTypes, DeltaInv
  <2>2. File \in Files /\ (File \in DOMAIN live) \in BOOLEAN
    BY <1>1, PlaceIs
  <2>3. QED
    BY <2>1, <2>2
<1>4. /\ published' \in Seq(Files \X BOOLEAN) /\ Len(published') = at
      /\ published'[at] = <<File, File \in DOMAIN live>>
      /\ \A j \in 1..(at - 1) : published'[j] = published[j]
  BY <1>1, <1>3, PlaceIs
<1>5. /\ backup' \in [1..MaxDeploys -> Trees]
      /\ \A n \in 1..MaxDeploys : n # number => backup'[n] = backup[n]
      /\ DOMAIN backup'[number] \subseteq DOMAIN backup[number] \cup {File}
  <2>1. CASE File \in DOMAIN live
    <3>1. live[File] \in Copies
      BY <2>1, PlaceIs, TreeIs, <1>1
    <3>2. /\ With(backup[number], File, live[File]) \in Trees
          /\ DOMAIN With(backup[number], File, live[File]) = DOMAIN backup[number] \cup {File}
      <4>1. backup[number] \in Trees /\ File \in Names
        BY <1>1, PlaceIs
      <4>2. QED
        BY <3>1, <4>1, WithIs
    <3>3. backup' = [backup EXCEPT ![number] = With(backup[number], File, live[File])]
          /\ backup \in [1..MaxDeploys -> Trees]
      BY <1>1, <2>1 DEF ShapeInv, DeployTypes
    <3>4. QED
      BY <3>2, <3>3, <1>1, PlaceIs
  <2>2. CASE File \notin DOMAIN live
    BY <1>1, <2>2 DEF ShapeInv, DeployTypes
  <2>3. QED
    BY <2>1, <2>2
<1>6. DeployTypes'
  BY <1>1, <1>2, <1>4, <1>5, PlaceIs DEF ShapeInv, DeployTypes
<1>7. \A j \in 1..Len(published') : published'[j][1] = order[j]
  BY <1>1, <1>3, <1>4, PlaceIs DEF ShapeInv, DeltaInv
<1>8. DOMAIN backup'[number] \subseteq Touched'
  <2>1. DOMAIN backup[number] \subseteq Touched
    BY <1>1 DEF ShapeInv, DeltaInv, Forwards
  <2>2. Touched \subseteq Touched' /\ File \in Touched'
    BY <1>1, <1>3, <1>4, PlaceIs DEF Touched
  <2>3. QED
    BY <1>5, <2>1, <2>2
<1>9. DeltaInv'
  BY <1>1, <1>2, <1>4, <1>7, <1>8, PlaceIs DEF ShapeInv, DeltaInv, Forwards
<1>10. QED
  BY <1>1, <1>6, <1>9 DEF ShapeInv, FullInv

LEMMA MoveNewShape == ASSUME ShapeInv, MoveNew PROVE ShapeInv'
<1>1. /\ tool = "delta" /\ step = "moveNew"
      /\ IF at = Len(order) THEN at' = 1 /\ step' = "legacy"
                            ELSE at' = at + 1 /\ step' = "moveOld"
      /\ live' = With(live, File, uploads[File])
      /\ uploads' = Without(uploads, File)
      /\ UNCHANGED <<staging, backup, tool, number, pkg, order, published, before>>
  BY DEF MoveNew
<1>2. File \in DOMAIN uploads /\ uploads[File] \in Copies
  <2>1. File \in DOMAIN uploads
    BY <1>1, PlaceIs DEF ShapeInv, DeltaInv
  <2>2. QED
    BY <2>1, <1>1, PlaceIs, TreeIs
<1>3. live' \in Trees /\ uploads' \in Trees /\ DOMAIN uploads' = DOMAIN uploads \ {order[at]}
  <2>1. live \in Trees /\ uploads \in Trees /\ File \in Names /\ File = order[at]
    BY <1>1, PlaceIs
  <2>2. live' \in Trees
    BY <1>1, <1>2, <2>1, WithIs
  <2>3. QED
    BY <1>1, <2>1, <2>2, WithoutIs
<1>4. DeployTypes'
  BY <1>1, <1>3 DEF ShapeInv, DeployTypes
<1>5. /\ Len(published) = at /\ DOMAIN backup[number] \subseteq Touched /\ Touched' = Touched
      /\ \A j \in 1..Len(order) : j >= at => order[j] \in DOMAIN uploads
  BY <1>1 DEF ShapeInv, DeltaInv, Forwards, Touched
<1>6. \A i, j \in 1..Len(order) : order[i] = order[j] => i = j
  BY <1>1, PlaceIs, OrderIs
<1>7. CASE at = Len(order)
  BY <1>1, <1>3, <1>4, <1>5, <1>7, PlaceIs DEF ShapeInv, DeltaInv, FullInv, Forwards
<1>8. CASE at # Len(order)
  <2>1. at' = at + 1 /\ step' = "moveOld" /\ at' \in 1..Len(order)
    BY <1>1, <1>8, PlaceIs
  <2>2. \A j \in 1..Len(order) : j >= at' => order[j] \in DOMAIN uploads'
    BY <1>1, <1>3, <1>5, <1>6, <2>1, PlaceIs
  <2>3. DeltaInv'
    BY <1>1, <1>3, <1>5, <2>1, <2>2, PlaceIs DEF ShapeInv, DeltaInv, Forwards
  <2>4. QED
    BY <1>1, <1>4, <2>3 DEF ShapeInv, FullInv
<1>9. QED
  BY <1>7, <1>8

(* A step that ends a deployment leaves the card as it is.                 *)
LEMMA EndShape ==
    ASSUME ShapeInv, EndDelta \/ EndUndo \/ LoseConnection \/ Fail
    PROVE  ShapeInv' /\ tool' = "none" /\ UNCHANGED <<card, number, published, before>>
<1>1. tool' = "none" /\ UNCHANGED <<card, number, published, before>>
  BY DEF EndDelta, EndUndo, LoseConnection, Fail, End
<1>2. DeployTypes'
  BY <1>1 DEF ShapeInv, DeployTypes, card
<1>3. QED
  BY <1>1, <1>2 DEF ShapeInv, FullInv, DeltaInv

LEMMA RestShape ==
    ASSUME ShapeInv, Boot \/ FetchLog \/ Assess \/ UNCHANGED deployVars
    PROVE  ShapeInv' /\ UNCHANGED <<card, run, kept>>
<1>1. UNCHANGED <<card, run, kept>>
  BY DEF Boot, FetchLog, Assess, deployVars
<1>2. UNCHANGED <<live, staging, uploads, backup, tool, step, number, pkg, order, at,
                  published, before>>
  BY <1>1 DEF card, run
<1>3. DeployTypes'
  BY <1>2 DEF ShapeInv, DeployTypes
<1>4. FullInv'
  BY <1>2 DEF ShapeInv, FullInv
<1>5. DeltaInv'
  BY <1>2 DEF ShapeInv, DeltaInv, Touched, LastPublished
<1>6. QED
  BY <1>1, <1>3, <1>4, <1>5 DEF ShapeInv

LEMMA RefuseDeltaShape == ASSUME ShapeInv, RefuseDelta PROVE ShapeInv'
<1>1. /\ tool = "delta" /\ step' = "undo"
      /\ UNCHANGED <<live, staging, uploads, backup, tool, number, pkg, order, at, published,
                     before>>
  BY DEF RefuseDelta, card
<1>2. DeployTypes'
  BY <1>1 DEF ShapeInv, DeployTypes
<1>3. DeltaInv'
  BY <1>1 DEF ShapeInv, DeltaInv, Forwards
<1>4. QED
  BY <1>1, <1>2, <1>3 DEF ShapeInv, FullInv

LEMMA UndoDeleteShape == ASSUME ShapeInv, UndoDelete PROVE ShapeInv'
<1>1. /\ tool = "delta" /\ step = "undo" /\ step' = "undoRename" /\ published # <<>>
      /\ live' = Without(live, LastPublished[1])
      /\ UNCHANGED <<staging, uploads, backup, tool, number, pkg, order, at, published, before>>
  BY DEF UndoDelete, Go
<1>2. live' \in Trees /\ LastPublished[1] \notin DOMAIN live'
  <2>1. live \in Trees
    BY <1>1, PlaceIs
  <2>2. QED
    BY <1>1, <2>1, WithoutIs
<1>3. LastPublished' = LastPublished
  BY <1>1 DEF LastPublished
<1>4. DeployTypes'
  BY <1>1, <1>2 DEF ShapeInv, DeployTypes
<1>5. DeltaInv'
  BY <1>1, <1>2, <1>3 DEF ShapeInv, DeltaInv, Forwards
<1>6. QED
  BY <1>1, <1>4, <1>5 DEF ShapeInv, FullInv

(* Either way out of the undoing of one file shortens the list by it.      *)
LEMMA ShorterList ==
    ASSUME ShapeInv, tool = "delta", published # <<>>, published' = Front(published),
           UNCHANGED <<tool, number, pkg, order, at, before, staging, uploads>>,
           step' = "undo", live' \in Trees, backup' \in [1..MaxDeploys -> Trees],
           \A n \in 1..MaxDeploys : n # number => backup'[n] = backup[n]
    PROVE  ShapeInv'
<1>1. /\ published' \in Seq(Files \X BOOLEAN) /\ Len(published') = Len(published) - 1
      /\ Len(published) \in 1..Len(order) /\ Len(order) \in Nat
      /\ \A j \in 1..(Len(published) - 1) : published'[j] = published[j]
  BY LastIs, PlaceIs
<1>2. DeployTypes'
  BY <1>1, PlaceIs DEF ShapeInv, DeployTypes
<1>3. /\ Len(published') <= Len(order)
      /\ \A j \in 1..Len(published') : published'[j][1] = order[j]
  BY <1>1 DEF ShapeInv, DeltaInv
<1>4. DeltaInv'
  BY <1>3 DEF ShapeInv, DeltaInv, Forwards
<1>5. QED
  BY <1>2, <1>4 DEF ShapeInv, FullInv

(* What taking a file back out of the backup does.                         *)
LEMMA UndoRenameIs ==
    ASSUME ShapeInv, UndoRename
    PROVE  /\ tool = "delta" /\ step = "undoRename" /\ step' = "undo" /\ published # <<>>
           /\ published' = Front(published) /\ LastPublished[1] \in Names
           /\ LastPublished[1] \notin DOMAIN live
           /\ live' \in Trees /\ backup' \in [1..MaxDeploys -> Trees]
           /\ \A n \in 1..MaxDeploys : n # number => backup'[n] = backup[n]
           /\ \A f \in DOMAIN live : f \in DOMAIN live' /\ live'[f] = live[f]
           /\ \A f \in DOMAIN live' : f \in DOMAIN live \/ f = LastPublished[1]
           /\ \A f \in DOMAIN backup[number] : f # LastPublished[1] =>
                 f \in DOMAIN backup'[number] /\ backup'[number][f] = backup[number][f]
           /\ LastPublished[1] \in DOMAIN backup[number] =>
                 IF LastPublished[2]
                 THEN /\ LastPublished[1] \in DOMAIN live'
                      /\ live'[LastPublished[1]] = backup[number][LastPublished[1]]
                 ELSE UNCHANGED <<live, backup>>
           /\ LastPublished[2] = FALSE => UNCHANGED live
           /\ UNCHANGED <<tool, number, pkg, order, at, before, staging, uploads, ended, kept,
                          proof>>
<1> DEFINE f == LastPublished[1]
<1>1. /\ tool = "delta" /\ step = "undoRename" /\ step' = "undo"
      /\ published' = Front(published)
      /\ UNCHANGED <<tool, number, pkg, order, at, before, staging, uploads, ended, kept, proof>>
  BY DEF UndoRename, Go
<1>2. published # <<>> /\ f \notin DOMAIN live
  BY <1>1 DEF ShapeInv, DeltaInv
<1>3. f \in Names /\ backup \in [1..MaxDeploys -> Trees] /\ number \in 1..MaxDeploys
      /\ live \in Trees /\ backup[number] \in Trees
  BY <1>1, <1>2, LastIs, PlaceIs DEF ShapeInv, DeployTypes
<1>4. CASE LastPublished[2] /\ f \in DOMAIN backup[number]
  <2>1. live' = With(live, f, backup[number][f])
        /\ backup' = [backup EXCEPT ![number] = Without(backup[number], f)]
    BY <1>4, <1>3 DEF UndoRename
  <2>2. backup[number][f] \in Copies
    BY <1>3, <1>4, TreeIs
  <2>3. /\ live' \in Trees /\ DOMAIN live' = DOMAIN live \cup {f}
        /\ live'[f] = backup[number][f]
        /\ \A g \in DOMAIN live : live'[g] = live[g]
    <3>1. \A c \in Copies :
             /\ With(live, f, c) \in Trees /\ DOMAIN With(live, f, c) = DOMAIN live \cup {f}
             /\ With(live, f, c)[f] = c
             /\ \A g \in DOMAIN live : g # f => With(live, f, c)[g] = live[g]
      BY <1>3, WithIs
    <3>2. QED
      BY <1>2, <2>1, <2>2, <3>1
  <2>4. /\ Without(backup[number], f) \in Trees
        /\ \A g \in DOMAIN backup[number] : g # f =>
              /\ g \in DOMAIN Without(backup[number], f)
              /\ Without(backup[number], f)[g] = backup[number][g]
    <3>1. backup[number] \in Trees
      BY <1>3
    <3> HIDE DEF f
    <3>2. QED
      BY <3>1, WithoutIs
  <2>5. /\ backup' \in [1..MaxDeploys -> Trees]
        /\ backup'[number] = Without(backup[number], f)
        /\ \A n \in 1..MaxDeploys : n # number => backup'[n] = backup[n]
    BY <1>3, <2>1, <2>4
  <2>6. QED
    BY <1>1, <1>2, <1>3, <1>4, <2>3, <2>4, <2>5
<1>5. CASE ~(LastPublished[2] /\ f \in DOMAIN backup[number])
  <2>1. UNCHANGED <<live, backup>>
    BY <1>5 DEF UndoRename
  <2>2. QED
    BY <1>1, <1>2, <1>3, <1>5, <2>1
<1>6. QED
  BY <1>4, <1>5

LEMMA UndoShape == ASSUME ShapeInv, UndoRename \/ RefuseUndo PROVE ShapeInv'
<1>1. CASE UndoRename
  BY <1>1, UndoRenameIs, ShorterList
<1>2. CASE RefuseUndo
  <2>1. /\ tool = "delta" /\ published # <<>> /\ published' = Front(published)
        /\ step' = "undo"
        /\ UNCHANGED <<live, staging, uploads, backup, tool, number, pkg, order, at, before>>
    BY <1>2 DEF RefuseUndo, card
  <2>2. live' \in Trees /\ backup' \in [1..MaxDeploys -> Trees]
    BY <2>1, PlaceIs DEF ShapeInv, DeployTypes
  <2>3. QED
    BY <2>1, <2>2, ShorterList
<1>3. QED
  BY <1>1, <1>2

LEMMA StepShape == ASSUME ShapeInv, [DeployNext]_deployVars PROVE ShapeInv'
BY FullShape, StartDeltaShape, StageShape, MoveOldShape, MoveNewShape, RefuseDeltaShape,
   UndoDeleteShape, UndoShape, EndShape, RestShape DEF DeployNext

-----------------------------------------------------------------------------
LEMMA MoveOldIs ==
    ASSUME ShapeInv, MoveOld
    PROVE  /\ tool = "delta" /\ step = "moveOld" /\ File \in Names
           /\ Len(published) = at - 1 /\ File \notin Touched
           /\ \A f \in DOMAIN live : f # File => f \in DOMAIN live' /\ live'[f] = live[f]
           /\ \A f \in DOMAIN live' : f \in DOMAIN live /\ f # File
           /\ \A n \in 1..MaxDeploys : n # number => backup'[n] = backup[n]
           /\ \A f \in DOMAIN backup[number] :
                 f \in DOMAIN backup'[number] /\ backup'[number][f] = backup[number][f]
           /\ File \in DOMAIN live =>
                 File \in DOMAIN backup'[number] /\ backup'[number][File] = live[File]
           /\ Len(published') = at /\ published'[at] = <<File, File \in DOMAIN live>>
           /\ \A j \in 1..(at - 1) : published'[j] = published[j]
           /\ Touched' = Touched \cup {File}
           /\ UNCHANGED <<tool, number, pkg, order, at, before, ended, kept, proof>>
<1>1. /\ tool = "delta" /\ step = "moveOld"
      /\ live' = Without(live, File)
      /\ backup' = IF File \in DOMAIN live
                   THEN [backup EXCEPT ![number] = With(backup[number], File, live[File])]
                   ELSE backup
      /\ published' = Append(published, <<File, File \in DOMAIN live>>)
      /\ UNCHANGED <<tool, number, pkg, order, at, before, ended, kept, proof>>
  BY DEF MoveOld, Go
<1>2. /\ File \in Files /\ File \in Names /\ live \in Trees /\ backup[number] \in Trees
      /\ File = order[at] /\ at \in 1..Len(order) /\ Len(order) \in Nat
      /\ number \in 1..MaxDeploys /\ order \in DeltaOrders
  BY <1>1, PlaceIs
<1>3. /\ Len(published) = at - 1 /\ DOMAIN backup[number] \subseteq Touched
      /\ Touched = {order[j] : j \in 1..Len(published)}
      /\ published \in Seq(Files \X BOOLEAN) /\ backup \in [1..MaxDeploys -> Trees]
  BY <1>1, TouchedIs DEF ShapeInv, DeployTypes, DeltaInv, Forwards
<1>4. File \notin Touched
  BY <1>2, <1>3, OrderIs
<1>5. /\ \A f \in DOMAIN live : f # File => f \in DOMAIN live' /\ live'[f] = live[f]
      /\ \A f \in DOMAIN live' : f \in DOMAIN live /\ f # File
  <2>1. live \in Trees /\ live' = Without(live, File)
    BY <1>1, <1>2
  <2>2. /\ DOMAIN live' = DOMAIN live \ {File}
        /\ \A f \in DOMAIN live : f # File => live'[f] = live[f]
    BY <2>1, WithoutIs
  <2>3. QED
    BY <2>2
<1>6. /\ Len(published') = at /\ published'[at] = <<File, File \in DOMAIN live>>
      /\ \A j \in 1..(at - 1) : published'[j] = published[j]
      /\ DOMAIN published' = 1..at /\ DOMAIN published = 1..(at - 1)
  <2>1. <<File, File \in DOMAIN live>> \in Files \X BOOLEAN
    <3>1. (File \in DOMAIN live) \in BOOLEAN /\ File \in Files
      BY <1>2
    <3>2. QED
      BY <3>1
  <2>2. QED
    BY <1>1, <1>2, <1>3, <2>1
<1>7. Touched' = Touched \cup {File}
  BY <1>2, <1>6 DEF Touched
<1>8. /\ \A n \in 1..MaxDeploys : n # number => backup'[n] = backup[n]
      /\ \A f \in DOMAIN backup[number] :
            f \in DOMAIN backup'[number] /\ backup'[number][f] = backup[number][f]
      /\ File \in DOMAIN live =>
            File \in DOMAIN backup'[number] /\ backup'[number][File] = live[File]
  <2>1. CASE File \in DOMAIN live
    <3>1. live[File] \in Copies /\ backup[number] \in Trees /\ File \in Names
      BY <2>1, <1>2, TreeIs
    <3> DEFINE t == With(backup[number], File, live[File])
    <3>2. /\ DOMAIN t = DOMAIN backup[number] \cup {File} /\ t[File] = live[File]
          /\ \A g \in DOMAIN backup[number] : g # File => t[g] = backup[number][g]
      BY <3>1, WithIs, Zenon
    <3>3. backup' = [backup EXCEPT ![number] = t]
      BY <1>1, <2>1, Zenon
    <3> HIDE DEF t
    <3>4. backup'[number] = t /\ \A n \in 1..MaxDeploys : n # number => backup'[n] = backup[n]
      BY <1>2, <1>3, <3>3
    <3>5. QED
      BY <1>3, <1>4, <3>2, <3>4
  <2>2. CASE File \notin DOMAIN live
    BY <1>1, <2>2
  <2>3. QED
    BY <2>1, <2>2
<1>9. QED
  BY <1>1, <1>2, <1>3, <1>4, <1>5, <1>6, <1>7, <1>8

LEMMA MoveNewIs ==
    ASSUME ShapeInv, MoveNew
    PROVE  /\ tool = "delta" /\ File \in Names /\ File \in Touched
           /\ File \notin DOMAIN live
           /\ \A f \in DOMAIN live : f \in DOMAIN live' /\ live'[f] = live[f]
           /\ \A f \in DOMAIN live' : f \in DOMAIN live \/ f = File
           /\ Touched' = Touched
           /\ UNCHANGED <<backup, tool, number, pkg, order, published, before, ended, kept,
                          proof>>
<1>1. /\ tool = "delta" /\ step = "moveNew"
      /\ live' = With(live, File, uploads[File])
      /\ UNCHANGED <<backup, tool, number, pkg, order, published, before, ended, kept, proof>>
  BY DEF MoveNew
<1>2. /\ File \in Names /\ File = order[at] /\ at \in 1..Len(order) /\ Len(order) \in Nat
      /\ live \in Trees /\ uploads \in Trees
  BY <1>1, PlaceIs
<1>3. /\ File \in DOMAIN uploads /\ File \notin DOMAIN live /\ Len(published) = at
      /\ Touched = {order[j] : j \in 1..Len(published)}
  BY <1>1, <1>2, TouchedIs DEF ShapeInv, DeltaInv
<1>4. uploads[File] \in Copies
  BY <1>2, <1>3, TreeIs
<1>5. /\ DOMAIN live' = DOMAIN live \cup {File}
      /\ \A g \in DOMAIN live : g # File => live'[g] = live[g]
  BY <1>1, <1>2, <1>4, WithIs
<1>6. Touched' = Touched
  BY <1>1 DEF Touched
<1>7. QED
  BY <1>1, <1>2, <1>3, <1>5, <1>6

LEMMA ShorterTouched ==
    ASSUME ShapeInv, tool = "delta", published # <<>>, published' = Front(published)
    PROVE  /\ Touched' = Touched \ {LastPublished[1]} /\ LastPublished[1] \in Touched
           /\ DOMAIN published' = 1..(Len(published) - 1)
           /\ DOMAIN published = 1..Len(published) /\ Len(published) \in Nat
           /\ \A j \in 1..(Len(published) - 1) : published'[j] = published[j]
           /\ \A j \in DOMAIN published' : j \in DOMAIN published /\
                 published'[j] = published[j] /\ published[j][1] # LastPublished[1]
<1>1. /\ Len(published) \in 1..Len(order) /\ LastPublished[1] = order[Len(published)]
      /\ LastPublished[1] \in Touched /\ LastPublished = published[Len(published)]
      /\ published' \in Seq(Files \X BOOLEAN) /\ Len(published') = Len(published) - 1
      /\ \A j \in 1..(Len(published) - 1) : published'[j] = published[j]
  BY LastIs
<1>2. /\ DOMAIN published = 1..Len(published) /\ Len(order) \in Nat
      /\ order \in DeltaOrders
      /\ \A j \in 1..Len(published) : published[j][1] = order[j]
  BY PlaceIs, TouchedIs DEF ShapeInv, DeltaInv
<1>3. DOMAIN published' = 1..(Len(published) - 1)
  BY <1>1
<1>4. \A j \in 1..(Len(published) - 1) : published[j][1] # LastPublished[1]
  BY <1>1, <1>2, OrderIs
<1>5. Touched' = Touched \ {LastPublished[1]}
  <2>1. Touched = {published[j][1] : j \in 1..Len(published)}
    BY <1>2 DEF Touched
  <2>2. Touched' = {published'[j][1] : j \in 1..(Len(published) - 1)}
    BY <1>3 DEF Touched
  <2>3. \A j \in 1..Len(published) : j # Len(published) => j \in 1..(Len(published) - 1)
    BY <1>1, <1>2
  <2>4. \A j \in 1..(Len(published) - 1) : j \in 1..Len(published)
    BY <1>1, <1>2
  <2>5. published[Len(published)][1] = LastPublished[1]
        /\ Len(published) \in 1..Len(published)
    BY <1>1
  <2>6. Touched' = {published[j][1] : j \in 1..(Len(published) - 1)}
    <3>1. \A j \in 1..(Len(published) - 1) : published'[j][1] = published[j][1]
      BY <1>1, Zenon
    <3>2. QED
      BY <2>2, <3>1, Zenon
  <2>7. \A f \in Touched' : f \in Touched /\ f # LastPublished[1]
    <3>1. SUFFICES ASSUME NEW f \in Touched'
                   PROVE  f \in Touched /\ f # LastPublished[1]
      OBVIOUS
    <3>2. PICK j \in 1..(Len(published) - 1) : f = published[j][1]
      BY <2>6, Zenon
    <3>3. QED
      BY <1>4, <2>1, <2>4, <3>2, Zenon
  <2>8. \A f \in Touched : f # LastPublished[1] => f \in Touched'
    BY <2>1, <2>3, <2>5, <2>6
  <2>9. \A f : f \in Touched' <=> f \in Touched \ {LastPublished[1]}
    BY <2>7, <2>8, <1>1, Zenon
  <2>10. QED
    BY <2>9, Zenon
<1>6. QED
  BY <1>1, <1>2, <1>3, <1>4, <1>5

-----------------------------------------------------------------------------
(* What is not on the list is as it was found; what is on it can be given  *)
(* back from the backup, as long as no command of the undoing was refused. *)
EndedInv ==
    /\ ended \in {"none", "ok", "restored", "cut", "failed", "patched"}
    /\ ended = "restored" => tool = "none" /\ live = before
    /\ tool = "full" => ended = "none"
    /\ tool = "delta" => ended \in {"none", "patched"}
Undoable ==
    /\ \A f \in Names : f \notin Touched =>
          /\ f \in DOMAIN live <=> f \in DOMAIN before
          /\ f \in DOMAIN live => live[f] = before[f]
    /\ \A j \in DOMAIN published :
          /\ published[j][2] <=> published[j][1] \in DOMAIN before
          /\ published[j][2] => /\ published[j][1] \in DOMAIN backup[number]
                                /\ backup[number][published[j][1]] = before[published[j][1]]
UndoInv == EndedInv /\ (tool = "delta" /\ ended = "none" => Undoable)

(* Whoever does not touch the installed tree, the list or the backup.      *)
LEMMA SameUndoable ==
    ASSUME Undoable, UNCHANGED <<live, published, before, backup, number>>
    PROVE  Undoable'
BY DEF Undoable, Touched

LEMMA MoveOldUndo == ASSUME ShapeInv, Undoable, MoveOld PROVE Undoable'
<1>1. \A f \in Names : f \notin Touched' =>
          /\ f \in DOMAIN live' <=> f \in DOMAIN before'
          /\ f \in DOMAIN live' => live'[f] = before'[f]
  BY MoveOldIs DEF Undoable
<1>2. /\ DOMAIN published' = 1..at /\ DOMAIN published = 1..(at - 1) /\ at \in Nat
      /\ at >= 1
  <2>1. published \in Seq(Files \X BOOLEAN) /\ published' \in Seq(Files \X BOOLEAN)
    BY MoveOldShape DEF ShapeInv, DeployTypes
  <2>2. QED
    BY <2>1, MoveOldIs, PlaceIs
<1>3. ASSUME NEW j \in 1..at
      PROVE  /\ published'[j][2] <=> published'[j][1] \in DOMAIN before
             /\ published'[j][2] =>
                   /\ published'[j][1] \in DOMAIN backup'[number]
                   /\ backup'[number][published'[j][1]] = before[published'[j][1]]
  <2>1. CASE j = at
    <3>1. published'[j] = <<File, File \in DOMAIN live>> /\ File \in Names
          /\ File \notin Touched
          /\ (File \in DOMAIN live =>
                 File \in DOMAIN backup'[number] /\ backup'[number][File] = live[File])
      BY <2>1, MoveOldIs
    <3>2. /\ File \in DOMAIN live <=> File \in DOMAIN before
          /\ File \in DOMAIN live => live[File] = before[File]
      BY <3>1 DEF Undoable
    <3>3. published'[j][1] = File /\ published'[j][2] = (File \in DOMAIN live)
      BY <3>1
    <3>4. QED
      BY <3>1, <3>2, <3>3
  <2>2. CASE j # at
    <3>1. j \in DOMAIN published /\ j \in 1..(at - 1)
      BY <1>2, <2>2
    <3>2. published'[j] = published[j]
          /\ \A f \in DOMAIN backup[number] :
                f \in DOMAIN backup'[number] /\ backup'[number][f] = backup[number][f]
      BY <3>1, MoveOldIs
    <3>3. QED
      BY <3>1, <3>2 DEF Undoable
  <2>3. QED
    BY <2>1, <2>2
<1>4. UNCHANGED <<before, number>>
  BY MoveOldIs
<1>5. QED
  BY <1>1, <1>2, <1>3, <1>4 DEF Undoable

LEMMA MoveNewUndo == ASSUME ShapeInv, Undoable, MoveNew PROVE Undoable'
<1>1. \A f \in Names : f \notin Touched' =>
          /\ f \in DOMAIN live' <=> f \in DOMAIN before'
          /\ f \in DOMAIN live' => live'[f] = before'[f]
  BY MoveNewIs DEF Undoable
<1>2. UNCHANGED <<published, before, backup, number>>
  BY MoveNewIs
<1>3. QED
  BY <1>1, <1>2 DEF Undoable

LEMMA UndoDeleteUndo == ASSUME ShapeInv, Undoable, UndoDelete PROVE Undoable'
<1> DEFINE f == LastPublished[1]
<1>1. /\ tool = "delta" /\ published # <<>> /\ live' = Without(live, f)
      /\ UNCHANGED <<published, before, backup, number>>
  BY DEF UndoDelete, Go
<1>2. f \in Touched /\ live \in Trees
  BY <1>1, LastIs, PlaceIs
<1> HIDE DEF f
<1>3. /\ DOMAIN live' = DOMAIN live \ {f}
      /\ \A g \in DOMAIN live : g # f => live'[g] = live[g]
  BY <1>1, <1>2, WithoutIs
<1>4. Touched' = Touched
  BY <1>1 DEF Touched
<1>5. \A g \in Names : g \notin Touched' =>
          /\ g \in DOMAIN live' <=> g \in DOMAIN before'
          /\ g \in DOMAIN live' => live'[g] = before'[g]
  BY <1>1, <1>2, <1>3, <1>4 DEF Undoable
<1>6. QED
  BY <1>1, <1>5 DEF Undoable

LEMMA UndoRenameUndo == ASSUME ShapeInv, Undoable, UndoRename PROVE Undoable'
<1> DEFINE f == LastPublished[1]
<1>1. /\ tool = "delta" /\ published # <<>> /\ published' = Front(published)
      /\ UNCHANGED <<before, number>>
  BY UndoRenameIs
<1>2. /\ Touched' = Touched \ {f}
      /\ \A j \in DOMAIN published' : j \in DOMAIN published /\
            published'[j] = published[j] /\ published[j][1] # f
      /\ f \notin DOMAIN live
      /\ \A g \in DOMAIN backup[number] : g # f =>
            g \in DOMAIN backup'[number] /\ backup'[number][g] = backup[number][g]
      /\ \A g \in DOMAIN live : g \in DOMAIN live' /\ live'[g] = live[g]
      /\ \A g \in DOMAIN live' : g \in DOMAIN live \/ g = f
  BY <1>1, ShorterTouched, UndoRenameIs
<1>3. /\ f \in DOMAIN live' <=> f \in DOMAIN before
      /\ f \in DOMAIN live' => live'[f] = before[f]
  <2>1. /\ Len(published) \in DOMAIN published /\ LastPublished = published[Len(published)]
        /\ LastPublished \in Files \X BOOLEAN
    <3>1. Len(published) \in 1..Len(order) /\ LastPublished = published[Len(published)]
      BY <1>1, LastIs
    <3>2. published \in Seq(Files \X BOOLEAN)
      BY DEF ShapeInv, DeployTypes
    <3>3. QED
      BY <3>1, <3>2
  <2>2. /\ LastPublished[2] <=> f \in DOMAIN before
        /\ LastPublished[2] => f \in DOMAIN backup[number] /\ backup[number][f] = before[f]
    BY <2>1 DEF Undoable
  <2>3. CASE LastPublished[2]
    BY <2>2, <2>3, UndoRenameIs
  <2>4. CASE ~LastPublished[2]
    <3>1. LastPublished[2] = FALSE
      BY <2>1, <2>4
    <3>2. live' = live
      BY <3>1, UndoRenameIs
    <3>3. QED
      BY <1>2, <2>2, <2>4, <3>2
  <2>5. QED
    BY <2>3, <2>4
<1> HIDE DEF f
<1>4. \A g \in Names : g \notin Touched' =>
          /\ g \in DOMAIN live' <=> g \in DOMAIN before
          /\ g \in DOMAIN live' => live'[g] = before[g]
  BY <1>2, <1>3 DEF Undoable
<1>5. \A j \in DOMAIN published' :
          /\ published'[j][2] <=> published'[j][1] \in DOMAIN before
          /\ published'[j][2] => /\ published'[j][1] \in DOMAIN backup'[number]
                                 /\ backup'[number][published'[j][1]] = before[published'[j][1]]
  BY <1>2 DEF Undoable
<1>6. QED
  BY <1>1, <1>4, <1>5 DEF Undoable

(* An empty list and an undoing none of whose commands was refused.        *)
LEMMA AllUndone ==
    ASSUME ShapeInv, Undoable, tool = "delta", published = <<>>
    PROVE  live = before
<1>1. live \in Trees /\ before \in Trees
  BY DEF ShapeInv, DeltaInv
<1>2. DOMAIN live \subseteq Names /\ DOMAIN before \subseteq Names
  BY <1>1, TreeIs
<1>3. Touched = {}
  BY DEF Touched
<1>4. DOMAIN live = DOMAIN before /\ \A f \in DOMAIN live : live[f] = before[f]
  BY <1>2, <1>3 DEF Undoable
<1>5. QED
  BY <1>1, <1>4, TreesEqual

LEMMA InitUndo == DeployInit => UndoInv
BY DEF DeployInit, UndoInv, EndedInv

LEMMA StepUndo == ASSUME ShapeInv, UndoInv, [DeployNext]_deployVars PROVE UndoInv'
<1> USE DEF UndoInv, EndedInv
<1>1. CASE StartFull
  BY <1>1 DEF StartFull, Begin
<1>2. CASE VerifyStaged \/ \E f \in Files : UploadFile(f)
  BY <1>2 DEF VerifyStaged, UploadFile, Go, card
<1>3. CASE BackUpTree \/ PublishTree
  BY <1>3 DEF BackUpTree, PublishTree, Go
<1>4. CASE RefusePublish
  BY <1>4 DEF RefusePublish, End
<1>5. CASE ReportFull
  BY <1>5 DEF ReportFull, End
<1>6. CASE StartDeltaDeploy
  BY <1>6 DEF StartDeltaDeploy, Begin, Undoable, Touched
<1>7. CASE StageFile
  BY <1>7, SameUndoable DEF StageFile
<1>8. CASE MoveOld
  BY <1>8, MoveOldUndo, MoveOldIs
<1>9. CASE MoveNew
  BY <1>9, MoveNewUndo, MoveNewIs
<1>10. CASE EndDelta
  BY <1>10 DEF EndDelta, End
<1>11. CASE RefuseDelta
  BY <1>11, SameUndoable DEF RefuseDelta, card
<1>12. CASE UndoDelete
  BY <1>12, UndoDeleteUndo DEF UndoDelete, Go
<1>13. CASE UndoRename
  BY <1>13, UndoRenameUndo, UndoRenameIs
<1>14. CASE RefuseUndo
  BY <1>14 DEF RefuseUndo
<1>15. CASE EndUndo
  BY <1>15, AllUndone DEF EndUndo, End, card
<1>16. CASE LoseConnection \/ Fail
  BY <1>16 DEF LoseConnection, Fail, End
<1>17. CASE Boot \/ FetchLog \/ Assess \/ UNCHANGED deployVars
  <2>1. UNCHANGED <<live, backup, tool, number, published, before, ended>>
    BY <1>17, RestShape DEF card, run
  <2>2. QED
    BY <2>1, SameUndoable
<1>18. QED
  BY <1>1, <1>2, <1>3, <1>4, <1>5, <1>6, <1>7, <1>8, <1>9, <1>10, <1>11, <1>12, <1>13,
     <1>14, <1>15, <1>16, <1>17 DEF DeployNext

-----------------------------------------------------------------------------
(* What was ever found installed is in a backup, or is installed and not   *)
(* among the files a delta is replacing.                                   *)
Kept(x) == \/ x \in Pairs(live) /\ (tool = "delta" => x[1] \notin Touched)
           \/ \E n \in 1..number : x \in Pairs(backup[n])
KeptInv == \A x \in kept : Kept(x)

(* A step that moves no file, and lengthens no list.                       *)
LEMMA SameKept ==
    ASSUME KeptInv, UNCHANGED <<live, backup, number, kept>>,
           tool' = "delta" => tool = "delta" /\ Touched' \subseteq Touched
    PROVE  KeptInv'
BY DEF KeptInv, Kept

(* A step that moves files of the installed tree, and adds to one backup.  *)
LEMMA MovedKept ==
    ASSUME KeptInv, UNCHANGED <<number, kept>>,
           \A x \in Pairs(live) : (tool = "delta" => x[1] \notin Touched) => Kept(x)',
           \A n \in 1..number : \A x \in Pairs(backup[n]) : Kept(x)'
    PROVE  KeptInv'
BY DEF KeptInv, Kept

LEMMA BeginKept ==
    ASSUME ShapeInv, KeptInv, StartFull \/ StartDeltaDeploy
    PROVE  KeptInv'
<1>1. /\ tool = "none" /\ number' = number + 1 /\ published' = <<>>
      /\ kept' = kept \cup Pairs(live) /\ UNCHANGED <<live, backup>>
  BY DEF StartFull, StartDeltaDeploy, Begin
<1>2. number \in Nat
  BY DeployAssumption DEF ShapeInv, DeployTypes
<1>3. Touched' = {} /\ \A n \in 1..number : n \in 1..number'
  BY <1>1, <1>2 DEF Touched
<1>4. QED
  BY <1>1, <1>3 DEF KeptInv, Kept

LEMMA FullKept ==
    ASSUME ShapeInv, KeptInv, BackUpTree \/ PublishTree \/ RefusePublish
    PROVE  KeptInv'
<1>1. /\ tool = "full" /\ tool' \in {"full", "none"} /\ UNCHANGED <<number, kept, before>>
      /\ number \in 1..MaxDeploys /\ number \in Nat /\ backup \in [1..MaxDeploys -> Trees]
      /\ \A n \in 1..number : n \in 1..MaxDeploys
  <2>1. /\ tool = "full" /\ tool' \in {"full", "none"} /\ UNCHANGED <<number, kept, before>>
    BY DEF BackUpTree, PublishTree, RefusePublish, Go, End
  <2>2. /\ number \in 0..MaxDeploys /\ number # 0 /\ backup \in [1..MaxDeploys -> Trees]
    BY <2>1 DEF ShapeInv, DeployTypes
  <2>3. QED
    BY <2>1, <2>2, DeployAssumption
<1>2. tool' # "delta" /\ number \in 1..number
  BY <1>1
<1>3. Pairs(NoFiles) = {} /\ Pairs(None) = {}
  BY PairsAre, NoFilesIsTree
<1>4. CASE BackUpTree
  <2>1. /\ backup' = [backup EXCEPT ![number] = IF live = None THEN NoFiles ELSE live]
        /\ backup[number] = NoFiles
    BY <1>1, <1>4 DEF BackUpTree, Go, ShapeInv, FullInv
  <2>2. /\ backup'[number] = IF live = None THEN NoFiles ELSE live
        /\ \A n \in 1..number : n # number => backup'[n] = backup[n]
    BY <1>1, <2>1
  <2>3. ASSUME NEW x \in Pairs(live) PROVE Kept(x)'
    <3>1. live # None
      BY <1>3
    <3>2. x \in Pairs(backup'[number])
      BY <2>2, <3>1
    <3>3. QED
      BY <1>1, <1>2, <3>2 DEF Kept
  <2>4. ASSUME NEW n \in 1..number, NEW x \in Pairs(backup[n]) PROVE Kept(x)'
    <3>1. n # number
      BY <1>3, <2>1
    <3>2. QED
      BY <1>1, <2>2, <3>1 DEF Kept
  <2>5. QED
    BY <1>1, <2>3, <2>4, MovedKept
<1>5. CASE PublishTree
  <2>1. UNCHANGED backup /\ live = None
    BY <1>1, <1>5 DEF PublishTree, Go, ShapeInv, FullInv
  <2>2. Pairs(live) = {}
    BY <1>3, <2>1
  <2>3. ASSUME NEW n \in 1..number, NEW x \in Pairs(backup[n]) PROVE Kept(x)'
    BY <1>1, <2>1 DEF Kept
  <2>4. QED
    BY <1>1, <2>2, <2>3, MovedKept
<1>6. CASE RefusePublish
  <2>1. /\ backup' = [backup EXCEPT ![number] = NoFiles] /\ live' = before
        /\ live = None /\ backup[number] = IF before = None THEN NoFiles ELSE before
    BY <1>1, <1>6 DEF RefusePublish, ShapeInv, FullInv
  <2>2. Pairs(live) = {} /\ \A n \in 1..number : n # number => backup'[n] = backup[n]
    BY <1>1, <1>3, <2>1
  <2>3. ASSUME NEW n \in 1..number, NEW x \in Pairs(backup[n]) PROVE Kept(x)'
    <3>1. CASE n = number
      <4>1. before # None
        BY <1>3, <2>1, <3>1
      <4>2. x \in Pairs(live')
        BY <2>1, <3>1, <4>1
      <4>3. QED
        BY <1>2, <4>2 DEF Kept
    <3>2. CASE n # number
      BY <1>1, <2>2, <3>2 DEF Kept
    <3>3. QED
      BY <3>1, <3>2
  <2>4. QED
    BY <1>1, <2>2, <2>3, MovedKept
<1>7. QED
  BY <1>4, <1>5, <1>6

LEMMA DeltaNumber ==
    ASSUME ShapeInv, tool = "delta"
    PROVE  /\ number \in 1..number /\ live \in Trees
           /\ \A n \in 1..number : n \in 1..MaxDeploys /\ backup[n] \in Trees
<1>1. number \in 1..MaxDeploys /\ number \in Nat /\ MaxDeploys \in Nat /\ live \in Trees
  BY PlaceIs
<1>2. backup \in [1..MaxDeploys -> Trees]
  BY DEF ShapeInv, DeployTypes
<1>3. QED
  BY <1>1, <1>2

LEMMA MoveOldKept == ASSUME ShapeInv, KeptInv, MoveOld PROVE KeptInv'
<1>1. /\ tool = "delta" /\ UNCHANGED <<number, kept, tool>> /\ ShapeInv'
  BY MoveOldIs, MoveOldShape
<1>2. /\ number \in 1..number /\ live \in Trees /\ live' \in Trees
      /\ \A n \in 1..number : n \in 1..MaxDeploys /\ backup[n] \in Trees
                              /\ backup'[n] \in Trees
  BY <1>1, DeltaNumber DEF ShapeInv, DeltaInv, DeployTypes
<1>3. ASSUME NEW x \in Pairs(live), x[1] \notin Touched PROVE Kept(x)'
  <2>1. x[1] \in DOMAIN live /\ x = <<x[1], live[x[1]]>>
    BY <1>2, PairNames
  <2>2. CASE x[1] = File
    <3>1. x[1] \in DOMAIN backup'[number] /\ backup'[number][x[1]] = live[x[1]]
      BY <2>1, <2>2, MoveOldIs
    <3>2. x \in Pairs(backup'[number])
      BY <1>2, <3>1, PairMoves
    <3>3. QED
      BY <1>1, <1>2, <3>2 DEF Kept
  <2>3. CASE x[1] # File
    <3>1. /\ x[1] \in DOMAIN live' /\ live'[x[1]] = live[x[1]]
          /\ Touched' = Touched \cup {File}
      BY <2>1, <2>3, MoveOldIs
    <3>2. x \in Pairs(live')
      BY <1>2, <3>1, PairMoves
    <3>3. x[1] \notin Touched'
      BY <1>3, <2>3, <3>1
    <3>4. QED
      BY <3>2, <3>3 DEF Kept
  <2>4. QED
    BY <2>2, <2>3
<1>4. ASSUME NEW n \in 1..number, NEW x \in Pairs(backup[n]) PROVE Kept(x)'
  <2>1. x[1] \in DOMAIN backup[n]
    BY <1>2, PairNames
  <2>2. x[1] \in DOMAIN backup'[n] /\ backup'[n][x[1]] = backup[n][x[1]]
    <3>1. CASE n = number
      BY <2>1, <3>1, MoveOldIs
    <3>2. CASE n # number
      BY <1>2, <2>1, <3>2, MoveOldIs
    <3>3. QED
      BY <3>1, <3>2
  <2>3. x \in Pairs(backup'[n])
    BY <1>2, <2>2, PairMoves
  <2>4. QED
    BY <1>1, <2>3 DEF Kept
<1>5. QED
  BY <1>1, <1>3, <1>4, MovedKept

(* Files on the list may come and go, the others and the backup stay.      *)
LEMMA ListedKept ==
    ASSUME ShapeInv, KeptInv, tool = "delta", live' \in Trees,
           UNCHANGED <<number, kept, tool, backup>>, Touched' = Touched,
           \A f \in DOMAIN live : f \notin Touched => f \in DOMAIN live' /\ live'[f] = live[f]
    PROVE  KeptInv'
<1>1. live \in Trees
  BY DeltaNumber
<1>2. ASSUME NEW x \in Pairs(live), x[1] \notin Touched PROVE Kept(x)'
  <2>1. x[1] \in DOMAIN live
    BY <1>1, PairNames
  <2>2. x \in Pairs(live')
    BY <1>1, <1>2, <2>1, PairMoves
  <2>3. QED
    BY <1>2, <2>2 DEF Kept
<1>3. ASSUME NEW n \in 1..number, NEW x \in Pairs(backup[n]) PROVE Kept(x)'
  BY <1>3 DEF Kept
<1>4. QED
  BY <1>2, <1>3, MovedKept

LEMMA MoveNewKept == ASSUME ShapeInv, KeptInv, MoveNew PROVE KeptInv'
<1>1. live' \in Trees
  BY MoveNewIs, MoveNewShape DEF ShapeInv, DeltaInv
<1>2. QED
  BY <1>1, MoveNewIs, ListedKept

LEMMA UndoDeleteKept == ASSUME ShapeInv, KeptInv, UndoDelete PROVE KeptInv'
<1> DEFINE f == LastPublished[1]
<1>1. /\ tool = "delta" /\ published # <<>> /\ live' = Without(live, f)
      /\ UNCHANGED <<published, backup, number, tool, kept>>
  BY DEF UndoDelete, Go
<1>2. f \in Touched /\ live \in Trees /\ Touched' = Touched
  BY <1>1, LastIs, PlaceIs DEF Touched
<1> HIDE DEF f
<1>3. /\ live' \in Trees /\ DOMAIN live' = DOMAIN live \ {f}
      /\ \A g \in DOMAIN live : g # f => live'[g] = live[g]
  BY <1>1, <1>2, WithoutIs
<1>4. \A g \in DOMAIN live : g \notin Touched => g \in DOMAIN live' /\ live'[g] = live[g]
  BY <1>2, <1>3
<1>5. QED
  BY <1>1, <1>2, <1>3, <1>4, ListedKept

LEMMA UndoRenameKept == ASSUME ShapeInv, KeptInv, UndoRename PROVE KeptInv'
<1> DEFINE f == LastPublished[1]
<1>1. /\ tool = "delta" /\ published # <<>> /\ published' = Front(published)
      /\ UNCHANGED <<number, kept, tool>>
      /\ live' \in Trees /\ backup' \in [1..MaxDeploys -> Trees]
      /\ \A n \in 1..MaxDeploys : n # number => backup'[n] = backup[n]
      /\ \A g \in DOMAIN live : g \in DOMAIN live' /\ live'[g] = live[g]
      /\ \A g \in DOMAIN backup[number] : g # f =>
            g \in DOMAIN backup'[number] /\ backup'[number][g] = backup[number][g]
      /\ f \in DOMAIN backup[number] =>
            IF LastPublished[2]
            THEN f \in DOMAIN live' /\ live'[f] = backup[number][f]
            ELSE UNCHANGED <<live, backup>>
  BY UndoRenameIs
<1>2. Touched' = Touched \ {f}
  BY <1>1, ShorterTouched
<1>3. /\ number \in 1..number /\ live \in Trees
      /\ \A n \in 1..number : n \in 1..MaxDeploys /\ backup[n] \in Trees
                              /\ backup'[n] \in Trees
  BY <1>1, DeltaNumber
<1> HIDE DEF f
<1>4. ASSUME NEW x \in Pairs(live), x[1] \notin Touched PROVE Kept(x)'
  <2>1. x[1] \in DOMAIN live
    BY <1>3, PairNames
  <2>2. x \in Pairs(live')
    BY <1>1, <1>3, <2>1, PairMoves
  <2>3. QED
    BY <1>2, <1>4, <2>2 DEF Kept
<1>5. ASSUME NEW n \in 1..number, NEW x \in Pairs(backup[n]) PROVE Kept(x)'
  <2>1. x[1] \in DOMAIN backup[n]
    BY <1>3, PairNames
  <2>2. CASE n # number \/ x[1] # f \/ UNCHANGED backup
    <3>1. x[1] \in DOMAIN backup'[n] /\ backup'[n][x[1]] = backup[n][x[1]]
      BY <1>1, <1>3, <2>1, <2>2
    <3>2. x \in Pairs(backup'[n])
      BY <1>3, <3>1, PairMoves
    <3>3. QED
      BY <1>1, <3>2 DEF Kept
  <2>3. CASE n = number /\ x[1] = f /\ ~UNCHANGED backup
    <3>1. x[1] \in DOMAIN live' /\ live'[x[1]] = backup[n][x[1]]
      BY <1>1, <2>1, <2>3
    <3>2. x \in Pairs(live')
      BY <1>1, <1>3, <3>1, PairMoves
    <3>3. x[1] \notin Touched'
      BY <1>2, <2>3
    <3>4. QED
      BY <3>2, <3>3 DEF Kept
  <2>4. QED
    BY <2>2, <2>3
<1>6. QED
  BY <1>1, <1>4, <1>5, MovedKept

LEMMA InitKept == DeployInit => KeptInv
BY DEF DeployInit, KeptInv

LEMMA StepKept == ASSUME ShapeInv, KeptInv, [DeployNext]_deployVars PROVE KeptInv'
<1>1. CASE StartFull \/ StartDeltaDeploy
  BY <1>1, BeginKept
<1>2. CASE BackUpTree \/ PublishTree \/ RefusePublish
  BY <1>2, FullKept
<1>3. CASE VerifyStaged \/ ReportFull \/ \E f \in Files : UploadFile(f)
  BY <1>3, SameKept DEF VerifyStaged, ReportFull, UploadFile, Go, End, card
<1>4. CASE StageFile \/ RefuseDelta
  BY <1>4, SameKept DEF StageFile, RefuseDelta, card, Touched
<1>5. CASE EndDelta \/ EndUndo \/ LoseConnection \/ Fail
  <2>1. UNCHANGED kept
    BY <1>5 DEF EndDelta, EndUndo, LoseConnection, Fail
  <2>2. QED
    BY <1>5, <2>1, EndShape, SameKept DEF card
<1>6. CASE RefuseUndo
  <2>1. /\ tool = "delta" /\ published # <<>> /\ published' = Front(published)
        /\ UNCHANGED <<live, backup, number, kept, tool>>
    BY <1>6 DEF RefuseUndo, card
  <2>2. QED
    BY <2>1, ShorterTouched, SameKept
<1>7. CASE Boot \/ FetchLog \/ Assess \/ UNCHANGED deployVars
  <2>1. UNCHANGED <<live, backup, number, kept, tool, published>>
    BY <1>7, RestShape DEF card, run
  <2>2. Touched' = Touched
    BY <2>1 DEF Touched
  <2>3. QED
    BY <2>1, <2>2, SameKept
<1>8. CASE MoveOld \/ MoveNew \/ UndoDelete \/ UndoRename
  BY <1>8, MoveOldKept, MoveNewKept, UndoDeleteKept, UndoRenameKept
<1>9. QED
  BY <1>1, <1>2, <1>3, <1>4, <1>5, <1>6, <1>7, <1>8 DEF DeployNext

-----------------------------------------------------------------------------
(* A report vouches for the installed tree until the next deployment; a    *)
(* log is dated by the deployments begun before its boot.                  *)
LogHolds(l) == l # None =>
    /\ l.id \in Nat /\ l.time \in Nat /\ l.id <= l.time
    /\ l.time <= number /\ (tool # "none" => l.time < number)
    /\ \A r \in reports : l.id = r.id /\ l.time = r.id => l.tree = Tree(r.binary)
ReportsHold ==
    \A r \in reports : /\ r.id \in 1..number /\ r.binary = r.manifest
                       /\ r.id = number => tool = "none" /\ live = Tree(r.binary)
ReportInv == ReportsHold /\ LogHolds(log) /\ LogHolds(fetched) /\ AcceptedBootIsCurrent

LEMMA InitReport == DeployInit => ReportInv
BY DEF DeployInit, ReportInv, ReportsHold, LogHolds, AcceptedBootIsCurrent

(* No deployment is begun and none reported; the tree changes only while a *)
(* tool runs, and then no report is of this deployment.                    *)
LEMMA SameReport ==
    ASSUME ShapeInv, ReportInv, UNCHANGED <<number, reports, fetched, verdict>>,
           log' \in {log, None}, tool # "none" \/ UNCHANGED <<tool, live>>
    PROVE  ReportInv'
<1>1. ReportsHold'
  BY DEF ReportInv, ReportsHold
<1>2. LogHolds(log)' /\ LogHolds(fetched)'
  BY DEF ReportInv, LogHolds
<1>3. AcceptedBootIsCurrent'
  BY DEF ReportInv, AcceptedBootIsCurrent
<1>4. QED
  BY <1>1, <1>2, <1>3 DEF ReportInv

LEMMA BeginReport ==
    ASSUME ShapeInv, ReportInv, StartFull \/ StartDeltaDeploy
    PROVE  ReportInv'
<1>1. number' = number + 1 /\ UNCHANGED <<reports, log, fetched, verdict>>
  BY DEF StartFull, StartDeltaDeploy, Begin, proof
<1>2. number \in Nat
  BY DeployAssumption DEF ShapeInv, DeployTypes
<1>3. ReportsHold'
  <2>1. \A r \in reports : r.id \in 1..number'
    BY <1>1, <1>2 DEF ReportInv, ReportsHold
  <2>2. \A r \in reports : r.id # number'
    BY <1>1, <1>2 DEF ReportInv, ReportsHold
  <2>3. QED
    BY <1>1, <2>1, <2>2 DEF ReportInv, ReportsHold
<1>4. LogHolds(log)' /\ LogHolds(fetched)'
  BY <1>1, <1>2 DEF ReportInv, LogHolds
<1>5. AcceptedBootIsCurrent'
  BY <1>1 DEF ReportInv, AcceptedBootIsCurrent
<1>6. QED
  BY <1>3, <1>4, <1>5 DEF ReportInv

LEMMA ReportFullReport == ASSUME ShapeInv, ReportInv, ReportFull PROVE ReportInv'
<1> DEFINE new == [id |-> number, binary |-> pkg, manifest |-> pkg]
<1>1. /\ tool = "full" /\ step = "readback" /\ tool' = "none"
      /\ reports' = reports \cup {new} /\ UNCHANGED <<live, number, log, fetched, verdict>>
  BY DEF ReportFull, End, card
<1>2. live = Tree(pkg)
  BY <1>1 DEF ShapeInv, FullInv
<1>3. number \in 1..number /\ number \in Nat
  BY <1>1, DeployAssumption DEF ShapeInv, DeployTypes
<1>4. new.id = number /\ new.binary = pkg /\ new.manifest = pkg
  OBVIOUS
<1> HIDE DEF new
<1>5. ReportsHold'
  BY <1>1, <1>2, <1>3, <1>4 DEF ReportInv, ReportsHold
<1>6. ASSUME NEW l, LogHolds(l), l # None
      PROVE  /\ l.id \in Nat /\ l.time \in Nat /\ l.id <= l.time /\ l.time <= number
             /\ \A r \in reports' : l.id = r.id /\ l.time = r.id => l.tree = Tree(r.binary)
  <2>1. l.time < number /\ l.time \in Nat
    BY <1>1, <1>6 DEF LogHolds
  <2>2. l.time # new.id
    BY <1>3, <1>4, <2>1
  <2>3. QED
    BY <1>1, <1>6, <2>2 DEF LogHolds
<1>7. LogHolds(log)' /\ LogHolds(fetched)'
  BY <1>1, <1>6 DEF ReportInv, LogHolds
<1>8. AcceptedBootIsCurrent'
  BY <1>1 DEF ReportInv, AcceptedBootIsCurrent
<1>9. QED
  BY <1>5, <1>7, <1>8 DEF ReportInv

LEMMA BootReport == ASSUME ShapeInv, ReportInv, Boot PROVE ReportInv'
<1>1. /\ tool = "none"
      /\ UNCHANGED <<live, tool, number, reports, fetched, verdict>>
  BY DEF Boot, card, run
<1>2. PICK r \in reports, marks \in BootMarks :
         log' = [tree |-> live, id |-> r.id, time |-> number, marks |-> marks]
  BY DEF Boot
<1>3. /\ log'.tree = live /\ log'.id = r.id /\ log'.time = number
  BY <1>2
<1>4. number \in Nat /\ r.id \in 1..number
  BY DeployAssumption DEF ShapeInv, DeployTypes, ReportInv, ReportsHold
<1>5. LogHolds(log)'
  BY <1>1, <1>3, <1>4 DEF ReportInv, ReportsHold, LogHolds
<1>6. ReportsHold' /\ LogHolds(fetched)' /\ AcceptedBootIsCurrent'
  BY <1>1 DEF ReportInv, ReportsHold, LogHolds, AcceptedBootIsCurrent
<1>7. QED
  BY <1>5, <1>6 DEF ReportInv

(* The rows that need a boot pass only for one that holds.                 *)
LEMMA PassIsBoot ==
    ASSUME NEW r, NEW b, NEW p,
           "PASS" \in {DeviceRows(r, b, p).D02, DeviceRows(r, b, p).D10,
                       DeviceRows(r, b, p).D11}
    PROVE  b # None /\ DeployHolds(r, p) /\ BootHolds(b, r, p)
<1> DEFINE bound == b # None /\ DeployHolds(r, p)
           boots == bound /\ BootHolds(b, r, p)
<1>1. /\ DeviceRows(r, b, p).D02 = IF b = None THEN "NOT_PROVEN" ELSE Row(boots)
      /\ DeviceRows(r, b, p).D10 =
            IF bound THEN Row(boots /\ "probes" \in b.marks) ELSE "NOT_PROVEN"
      /\ DeviceRows(r, b, p).D11 =
            IF bound THEN Row(boots /\ "injected" \in b.marks) ELSE "NOT_PROVEN"
  BY DEF DeviceRows
<1>2. \A holds : Row(holds) = "PASS" => holds
  BY DEF Row
<1>3. CASE DeviceRows(r, b, p).D02 = "PASS"
  <2>1. Row(boots) = "PASS"
    BY <1>1, <1>3
  <2>2. QED
    BY <2>1 DEF Row
<1>4. CASE DeviceRows(r, b, p).D10 = "PASS"
  <2>1. Row(boots /\ "probes" \in b.marks) = "PASS"
    BY <1>1, <1>4
  <2>2. QED
    BY <2>1 DEF Row
<1>5. CASE DeviceRows(r, b, p).D11 = "PASS"
  <2>1. Row(boots /\ "injected" \in b.marks) = "PASS"
    BY <1>1, <1>5
  <2>2. QED
    BY <2>1 DEF Row
<1>6. QED
  BY <1>3, <1>4, <1>5

LEMMA AssessReport == ASSUME ShapeInv, ReportInv, Assess PROVE ReportInv'
<1>1. UNCHANGED <<live, tool, number, reports, log, fetched>>
  BY DEF Assess, card, run
<1>2. PICK r \in reports \cup {None}, b \in {None, fetched}, p \in Packages :
         /\ verdict'.report = r /\ verdict'.package = p /\ verdict'.boot = b
         /\ verdict'.rows = DeviceRows(r, b, p)
  BY DEF Assess
<1>3. ReportsHold' /\ LogHolds(log)' /\ LogHolds(fetched)'
  BY <1>1 DEF ReportInv, ReportsHold, LogHolds
<1>4. ASSUME "PASS" \in {verdict'.rows.D02, verdict'.rows.D10, verdict'.rows.D11}
      PROVE  /\ r \in reports
             /\ b.tree[Binary] = p /\ b.tree[Manifest] = p
             /\ b.time = r.id => b.tree = Tree(p)
  <2>1. b # None /\ DeployHolds(r, p) /\ BootHolds(b, r, p)
    BY <1>2, <1>4, PassIsBoot
  <2>2. r \in reports /\ r.binary = p /\ b = fetched
    BY <2>1 DEF DeployHolds
  <2>3. b.time = r.id => b.tree = Tree(p)
    BY <2>1, <2>2 DEF BootHolds, ReportInv, LogHolds
  <2>4. QED
    BY <2>1, <2>2, <2>3 DEF BootHolds
<1>5. AcceptedBootIsCurrent'
  BY <1>1, <1>2, <1>4 DEF AcceptedBootIsCurrent
<1>6. QED
  BY <1>3, <1>5 DEF ReportInv

LEMMA StepReport == ASSUME ShapeInv, ReportInv, [DeployNext]_deployVars PROVE ReportInv'
<1>1. CASE StartFull \/ StartDeltaDeploy
  BY <1>1, BeginReport
<1>2. CASE \/ VerifyStaged \/ BackUpTree \/ PublishTree \/ RefusePublish
           \/ \E f \in Files : UploadFile(f)
  BY <1>2, SameReport
     DEF VerifyStaged, BackUpTree, PublishTree, RefusePublish, UploadFile, Go, card, proof
<1>3. CASE \/ StageFile \/ MoveOld \/ MoveNew \/ EndDelta \/ RefuseDelta \/ UndoDelete
           \/ UndoRename \/ RefuseUndo \/ EndUndo \/ LoseConnection \/ Fail
  <2>1. tool # "none" /\ UNCHANGED <<number, reports, log, fetched, verdict>>
    BY <1>3 DEF StageFile, MoveOld, MoveNew, EndDelta, RefuseDelta, UndoDelete, UndoRename,
                RefuseUndo, EndUndo, LoseConnection, Fail, Go, proof
  <2>2. QED
    BY <2>1, SameReport
<1>4. CASE ReportFull
  BY <1>4, ReportFullReport
<1>5. CASE Boot \/ Assess
  BY <1>5, BootReport, AssessReport
<1>6. CASE FetchLog
  BY <1>6 DEF FetchLog, card, run, ReportInv, ReportsHold, LogHolds, AcceptedBootIsCurrent
<1>7. CASE UNCHANGED deployVars
  BY <1>7, SameReport DEF deployVars, card, run, proof
<1>8. QED
  BY <1>1, <1>2, <1>3, <1>4, <1>5, <1>6, <1>7 DEF DeployNext


-----------------------------------------------------------------------------
(* Both parts together.                                                    *)
ReleaseInv ==
    /\ ScratchInv /\ SelectionInv
    /\ ShapeInv /\ UndoInv /\ KeptInv /\ ReportInv

LEMMA ReleaseInvHolds == ReleaseSpec => []ReleaseInv
<1>1. ReleaseInit => ReleaseInv
  BY InitScratch, InitSelection, InitShape, InitUndo, InitKept, InitReport
     DEF ReleaseInit, ReleaseInv
<1>2. ReleaseInv /\ [ReleaseNext]_<<deltaVars, deployVars>> => ReleaseInv'
  <2> SUFFICES ASSUME ReleaseInv, [ReleaseNext]_<<deltaVars, deployVars>>
               PROVE  ReleaseInv'
    OBVIOUS
  <2>1. [DeltaNext]_deltaVars /\ [DeployNext]_deployVars
    BY DEF ReleaseNext
  <2>2. QED
    BY <2>1, StepScratch, StepSelection, StepShape, StepUndo, StepKept, StepReport
       DEF ReleaseInv
<1>3. QED
  BY <1>1, <1>2, PTL DEF ReleaseSpec

(* A published delta over its baseline is the tree that was validated,     *)
(* although the files were chosen, copied and checked at different moments *)
(* while others edited sources, outputs and baseline (make_delta).         *)
THEOREM DeltaIsComplete == ReleaseSpec => []DeltaReconstructs
<1>1. ReleaseInv => DeltaReconstructs
  BY Reconstructs DEF ReleaseInv
<1>2. QED
  BY <1>1, ReleaseInvHolds, PTL

(* Making a delta never writes a byte of the baseline, with which its      *)
(* scratch tree shares the inodes of all it did not replace (make_delta).  *)
THEOREM BaselineIsNeverEdited == ReleaseSpec => BaselineKept
<1>1. ReleaseInv /\ [ReleaseNext]_<<deltaVars, deployVars>>
         => [changes' = changes => Contents(base)' = Contents(base)]_deltaVars
  <2>1. [ReleaseNext]_<<deltaVars, deployVars>> => [DeltaNext]_deltaVars
    BY DEF ReleaseNext
  <2>2. QED
    BY <2>1, StepKeepsBaseline DEF ReleaseInv
<1>2. QED
  BY <1>1, ReleaseInvHolds, PTL DEF ReleaseSpec, BaselineKept

(* No file ever found installed is lost from installed tree and backups,   *)
(* whatever is refused and wherever a connection is cut (both deploys).    *)
THEOREM InstalledFilesAreKept == ReleaseSpec => []NothingLost
<1>1. ReleaseInv => NothingLost
  BY DEF ReleaseInv, KeptInv, Kept, NothingLost
<1>2. QED
  BY <1>1, ReleaseInvHolds, PTL

(* A full deployment shows the old tree, none, or the verified package     *)
(* (old3ds_ftp.deploy).                                                    *)
THEOREM FullDeployIsAtomic == ReleaseSpec => []FullPublishesVerified
<1>1. ReleaseInv => FullPublishesVerified
  <2> SUFFICES ASSUME ReleaseInv, tool = "full" PROVE live \in {before, None, Tree(pkg)}
    BY DEF FullPublishesVerified
  <2>1. FullInv
    BY DEF ReleaseInv, ShapeInv
  <2>2. QED
    BY <2>1 DEF FullInv
<1>2. QED
  BY <1>1, ReleaseInvHolds, PTL

(* A refused delta that says it restored the tree did                      *)
(* (old3ds_delta.deploy).                                                  *)
THEOREM RefusalIsUndone == ReleaseSpec => []RefusedDeltaUndone
<1>1. ReleaseInv => RefusedDeltaUndone
  BY DEF ReleaseInv, UndoInv, EndedInv, RefusedDeltaUndone
<1>2. QED
  BY <1>1, ReleaseInvHolds, PTL

(* A device row passes for a boot of this package after this deployment    *)
(* only (validate_deploy, validate_boot).                                  *)
THEOREM AcceptedBoots == ReleaseSpec => []AcceptedBootIsCurrent
<1>1. ReleaseInv => AcceptedBootIsCurrent
  BY DEF ReleaseInv, ReportInv
<1>2. QED
  BY <1>1, ReleaseInvHolds, PTL
=============================================================================
