----------------------------- MODULE InputBundle -----------------------------
(***************************************************************************)
(* The verifier's input bundle: scripts/build_verifier_input_bundle.py     *)
(* copies the candidate, the frozen authority files, dependencies, Python  *)
(* runtimes, wheels and the toolchain into a staged directory, records a   *)
(* digest of every copy, renames the directory into place and only then    *)
(* verifies it; verifier_driver.py opens it with a guard of its own.       *)
(* Builders may share an output path, the sources may be edited between    *)
(* any two steps, and a builder may raise or die anywhere.                 *)
(*                                                                         *)
(* A file is its version; Spoiled bytes match no digest.  Of the five      *)
(* authority files the matrix stands for the four that are only copied,    *)
(* and of two runtimes and two wheelhouses one each is kept.               *)
(***************************************************************************)
EXTENDS Naturals, Sequences, SequencesExt

CONSTANTS
    Builders,       \* builders that were given the same output path
    MaxEdits,       \* bound: edits of sources in a behaviour
    Malformed,      \* DAG versions whose authority object is not valid
    Authorized,     \* <<dag, commit>>: that DAG authorises that commit's diff
    SameBaseline,   \* <<dag, commit>>: its baseline is the commit's parent
    Needs,          \* load commands a runtime may have: functions on Libraries
                    \* that show the same whenever otool is asked
    None, Spoiled

ASSUME AuthorityAssumption ==
    /\ MaxEdits \in Nat
    /\ Authorized \subseteq SameBaseline
    /\ SameBaseline \subseteq (0..MaxEdits) \X (0..MaxEdits)

(* The inputs in the order in which create_bundle adds them.               *)
RoleOrder == <<"candidate_transport", "frozen_matrix", "execution_dag",
               "cross_dependencies", "python_runtime", "python_wheelhouse",
               "old3ds_toolchain", "public_ci_environment">>
Roles == {RoleOrder[i] : i \in DOMAIN RoleOrder}

(* A published directory, and the values that stand for none and for one   *)
(* whose manifest or sums cannot be read.                                  *)
Directories == [by : Builders, head : Nat, binding : Nat, digest : [Roles -> Nat],
                bytes : [Roles -> Nat \cup {Spoiled}], sums : [Roles -> Nat],
                readonly : BOOLEAN]
ASSUME MarkersAssumption == None # Spoiled /\ None \notin Directories

(* Binaries of a Python runtime: its interpreter and a library inside its  *)
(* tree, a library under the site-packages that are not copied, Homebrew   *)
(* libraries and a library of neither, or one that is named by a path that *)
(* is not absolute.                                                        *)
Libraries == {"python", "inside", "stripped", "brew1", "brew2", "foreign"}
Brew == {"brew1", "brew2"}

(* Besides libraries a binary may have load commands that are left alone,  *)
(* those with "@" and those of the system; otool may fail to list any.     *)
Commands == Libraries \cup {"left alone", "unlisted"}
ASSUME NeedsAssumption == Needs \subseteq [Libraries -> SUBSET Commands]

VARIABLES
    source,     \* version of each role's source; public_ci_environment's is
                \* the number of uncommitted edits in the candidate checkout
    pc,         \* per builder: the role it adds next, or its stage
    head,       \* per builder: the commit it identified
    binding,    \* per builder: the DAG version its authority was taken from
    copied,     \* per builder: the bytes in its staged directory, by role
    needs,      \* per builder: load commands of the runtime it is patching
    pending, visited, vendored, \* per builder: patch_macos_runtime's worklist
    output,     \* the directory at the output path
    opened      \* the bundle a driver holds open after its guard passed

bundleVars == <<source, pc, head, binding, copied, needs, pending, visited, vendored,
                output, opened>>
patching == <<needs, pending, visited, vendored>>

NoNeeds == [l \in Libraries |-> {}]
Nothing == [x \in {} |-> None]
Put(f, x, v) == [y \in DOMAIN f \cup {x} |-> IF y = x THEN v ELSE f[y]]

BundleInit ==
    /\ source = [r \in Roles |-> 0]
    /\ pc = [b \in Builders |-> "new"]
    /\ head = [b \in Builders |-> None] /\ binding = [b \in Builders |-> None]
    /\ copied = [b \in Builders |-> Nothing]
    /\ needs = [b \in Builders |-> NoNeeds]
    /\ pending = [b \in Builders |-> <<>>]
    /\ visited = [b \in Builders |-> {}] /\ vendored = [b \in Builders |-> {}]
    /\ output = None /\ opened = None

Goto(b, from, to) == pc[b] = from /\ pc' = [pc EXCEPT ![b] = to]
After(role) == LET i == CHOOSE j \in DOMAIN RoleOrder : RoleOrder[j] = role
               IN IF i = Len(RoleOrder) THEN "manifest" ELSE RoleOrder[i + 1]
Clean == source["public_ci_environment"] = 0

-----------------------------------------------------------------------------
(* create_bundle.                                                          *)

(* The output is free and the candidate clean; its commit is noted.        *)
IdentifyCandidate(b) ==
    /\ Goto(b, "new", "authority")
    /\ output = None
    /\ Clean
    /\ head' = [head EXCEPT ![b] = source["candidate_transport"]]
    /\ UNCHANGED <<source, binding, copied, patching, output, opened>>

(* authority_binding_from_dag_bytes: the binding holds the digest of the   *)
(* DAG it is projected from, so it names the version.                      *)
BindingOf(dag) == IF dag \in Malformed THEN None ELSE dag

(* validate_candidate_authority: the commit's parent and diff.             *)
CandidateAuthorized(dag, commit) == dag # None /\ <<dag, commit>> \in Authorized

(* The DAG as it is now authorises the noted commit.                       *)
BindAuthority(b) ==
    /\ Goto(b, "authority", RoleOrder[1])
    /\ CandidateAuthorized(BindingOf(source["execution_dag"]), head[b])
    /\ binding' = [binding EXCEPT ![b] = BindingOf(source["execution_dag"])]
    /\ UNCHANGED <<source, head, copied, patching, output, opened>>

(* verify_candidate_transport: the Git bundle holds the noted commit.      *)
TransportHolds(bytes, commit) == bytes = commit

AddCandidate(b) ==
    /\ Goto(b, "candidate_transport", After("candidate_transport"))
    /\ TransportHolds(source["candidate_transport"], head[b])
    /\ copied' = [copied EXCEPT ![b] = Put(@, "candidate_transport",
                                           source["candidate_transport"])]
    /\ UNCHANGED <<source, head, binding, patching, output, opened>>

(* Files, trees and archives that are copied as they are now.              *)
CopiedRoles == Roles \ {"candidate_transport", "python_runtime"}
AddInput(b, r) ==
    /\ r \in CopiedRoles
    /\ Goto(b, r, After(r))
    /\ copied' = [copied EXCEPT ![b] = Put(@, r, source[r])]
    /\ UNCHANGED <<source, head, binding, patching, output, opened>>

-----------------------------------------------------------------------------
(* A Python runtime: copied without site-packages, patched, archived.      *)

InRoot(b) == {"python", "inside"} \cup vendored[b]

(* On another system than macOS nothing is patched.                        *)
CopyRuntime(b) ==
    /\ pc[b] = "python_runtime" /\ "python_runtime" \notin DOMAIN copied[b]
    /\ copied' = [copied EXCEPT ![b] = Put(@, "python_runtime", source["python_runtime"])]
    /\ \/ /\ pc' = [pc EXCEPT ![b] = "archive"]
          /\ UNCHANGED patching
       \/ \E n \in Needs :
          /\ pc' = [pc EXCEPT ![b] = "patch"]
          /\ needs' = [needs EXCEPT ![b] = n]
          /\ pending' = [pending EXCEPT ![b] = <<"inside", "python">>]
          /\ UNCHANGED <<visited, vendored>>
    /\ UNCHANGED <<source, head, binding, output, opened>>

(* The load commands of a binary that are looked at.                       *)
Listed(b, l) == IF "unlisted" \in needs[b][l] THEN {} ELSE needs[b][l] \ {"left alone"}

\* MUTANT: a vendored library is copied but not put on the worklist.
PatchOneForgets(b) ==
    LET l == Head(pending[b])
        fresh == IF l \in visited[b] THEN {} ELSE (Listed(b, l) \cap Brew) \ vendored[b]
    IN
    /\ pc[b] = "patch" /\ pending[b] # <<>>
    /\ l \notin visited[b] => Listed(b, l) \cap {"stripped", "foreign"} = {}
    /\ visited' = [visited EXCEPT ![b] = @ \cup {l}]
    /\ vendored' = [vendored EXCEPT ![b] = @ \cup fresh]
    /\ pending' = [pending EXCEPT ![b] = Tail(@)]
    /\ UNCHANGED <<source, pc, head, binding, copied, needs, output, opened>>

(* One binary of the worklist: its Homebrew libraries are vendored and     *)
(* queued; a library that was left out or comes from elsewhere is an error *)
(* (StopBuilder).  The name a library has for itself is rewritten too, and *)
(* queues nothing.                                                         *)
PatchOne(b) ==
    LET l == Head(pending[b])
        fresh == IF l \in visited[b] THEN {} ELSE (Listed(b, l) \cap Brew) \ vendored[b]
    IN
    /\ pc[b] = "patch" /\ pending[b] # <<>>
    /\ l \notin visited[b] => Listed(b, l) \cap {"stripped", "foreign"} = {}
    /\ visited' = [visited EXCEPT ![b] = @ \cup {l}]
    /\ vendored' = [vendored EXCEPT ![b] = @ \cup fresh]
    /\ pending' = [pending EXCEPT ![b] = Tail(@) \o SetToSeq(fresh)]
    /\ UNCHANGED <<source, pc, head, binding, copied, needs, output, opened>>

(* What a binary loads is loaded by a path relative to itself.             *)
LoaderRelative(b, l) == l \in visited[b] /\ Listed(b, l) \subseteq InRoot(b)

(* The scan after patching: no binary in the tree names one outside it.    *)
ClosureHolds(b) == \A l \in InRoot(b) : LoaderRelative(b, l)

Rescan(b) ==
    /\ Goto(b, "patch", "archive")
    /\ pending[b] = <<>> /\ ClosureHolds(b)
    /\ UNCHANGED <<source, head, binding, copied, patching, output, opened>>

(* The interpreter runs from the copy; the tree becomes one archive.       *)
ArchiveRuntime(b) ==
    /\ Goto(b, "archive", After("python_runtime"))
    /\ needs' = [needs EXCEPT ![b] = NoNeeds]
    /\ visited' = [visited EXCEPT ![b] = {}] /\ vendored' = [vendored EXCEPT ![b] = {}]
    /\ UNCHANGED <<source, head, binding, copied, pending, output, opened>>

-----------------------------------------------------------------------------
(* Manifest, sums and publication.                                         *)

Staged(b) == [by |-> b, head |-> head[b], binding |-> binding[b], digest |-> copied[b],
              bytes |-> copied[b], sums |-> copied[b], readonly |-> TRUE]

WriteManifest(b) ==
    /\ Goto(b, "manifest", "publish")
    /\ DOMAIN copied[b] = Roles
    /\ UNCHANGED <<source, head, binding, copied, patching, output, opened>>

\* MUTANT: whatever is at the output path is replaced.
PublishReplaces(b) ==
    /\ Goto(b, "publish", "verify")
    /\ output' = Staged(b)
    /\ UNCHANGED <<source, head, binding, copied, patching, opened>>

(* os.replace does not replace a directory that is not empty.              *)
Publish(b) ==
    /\ Goto(b, "publish", "verify")
    /\ output = None
    /\ output' = Staged(b)
    /\ UNCHANGED <<source, head, binding, copied, patching, opened>>

(* A file or a tree has the digest of its manifest row and of its sum.     *)
InputRecorded(o, r) == o.bytes[r] = o.digest[r] /\ o.bytes[r] = o.sums[r]

(* All inputs are as recorded and nothing can be written.                  *)
BytesRecorded(o) == o # Spoiled /\ o.readonly /\ \A r \in Roles : InputRecorded(o, r)

\* MUTANT: the authority is not compared with the DAG in the bundle.
AuthorityUnboundFromDag(o) == <<o.binding, o.head>> \in SameBaseline

(* The authority is the one of the DAG in the bundle, and its baseline is  *)
(* the parent of the candidate.                                            *)
AuthorityBound(o) ==
    /\ o.binding = BindingOf(o.bytes["execution_dag"])
    /\ <<o.binding, o.head>> \in SameBaseline

(* What a builder that ends held and staged is gone with it.               *)
Forget(b) ==
    /\ head' = [head EXCEPT ![b] = None] /\ binding' = [binding EXCEPT ![b] = None]
    /\ copied' = [copied EXCEPT ![b] = Nothing]
    /\ needs' = [needs EXCEPT ![b] = NoNeeds]
    /\ pending' = [pending EXCEPT ![b] = <<>>]
    /\ visited' = [visited EXCEPT ![b] = {}] /\ vendored' = [vendored EXCEPT ![b] = {}]

(* verify_completed_bundle, after the rename: a bundle it rejects stays at *)
(* the output path.                                                        *)
CompletedBundle(o) ==
    BytesRecorded(o) /\ AuthorityBound(o) /\ TransportHolds(o.bytes["candidate_transport"], o.head)

VerifyCompleted(b) ==
    /\ pc[b] = "verify"
    /\ pc' = [pc EXCEPT ![b] = IF CompletedBundle(output) THEN "done" ELSE "failed"]
    /\ Forget(b)
    /\ UNCHANGED <<source, output, opened>>

(* A check that fails, an exception or a kill: the staged directory goes   *)
(* or is never looked at again; its name is unique to the builder.         *)
StopBuilder(b) ==
    /\ pc[b] \notin {"new", "done", "failed"}
    /\ pc' = [pc EXCEPT ![b] = "failed"]
    /\ Forget(b)
    /\ UNCHANGED <<source, output, opened>>

-----------------------------------------------------------------------------
(* The driver projects the DAG in the bundle with its own copy of the      *)
(* builder's functions.                                                    *)
GuardAuthority(o) == AuthorityBound(o)

(* The driver's guard: modes, every role, the sums and the authority; the  *)
(* bundle may have come straight from the rename.                          *)
GuardAccepts(o) ==
    /\ BytesRecorded(o)
    /\ GuardAuthority(o)
    /\ TransportHolds(o.bytes["candidate_transport"], o.head)

OpenBundle ==
    /\ opened = None /\ output # None
    /\ GuardAccepts(output)
    /\ opened' = output
    /\ UNCHANGED <<source, pc, head, binding, copied, patching, output>>

(* A source is edited, the checkout moves to another commit or is edited.  *)
EditsSoFar == FoldLeft(LAMBDA n, r : n + source[r], 0, RoleOrder)
EditSource(r) ==
    /\ EditsSoFar < MaxEdits
    /\ source' = [source EXCEPT ![r] = @ + 1]
    /\ UNCHANGED <<pc, head, binding, copied, patching, output, opened>>

(* An input of the published bundle is changed, or a mode is.              *)
DamageOutput ==
    /\ output \notin {None, Spoiled} /\ BytesRecorded(output)
    /\ \/ \E r \in Roles : output' = [output EXCEPT !.bytes[r] = Spoiled]
       \/ output' = [output EXCEPT !.readonly = FALSE]
       \/ output' = Spoiled
    /\ UNCHANGED <<source, pc, head, binding, copied, patching, opened>>

BundleNext ==
    \/ \E b \in Builders :
          \/ IdentifyCandidate(b) \/ BindAuthority(b) \/ AddCandidate(b)
          \/ \E r \in Roles : AddInput(b, r)
          \/ CopyRuntime(b) \/ PatchOne(b) \/ Rescan(b) \/ ArchiveRuntime(b)
          \/ WriteManifest(b) \/ Publish(b) \/ VerifyCompleted(b) \/ StopBuilder(b)
    \/ OpenBundle
    \/ \E r \in Roles : EditSource(r)
    \/ DamageOutput

BundleSpec == BundleInit /\ [][BundleNext]_bundleVars

-----------------------------------------------------------------------------
(* A bundle the driver opens holds the commit that the DAG in that same    *)
(* bundle authorises, whatever became of DAG, checkout and output path     *)
(* between the checks and the copies, and even before or without the       *)
(* builder's own verification (create_bundle, BundleGuard).                *)
OpenedBundleBound ==
    opened # None =>
        <<opened.bytes["execution_dag"], opened.bytes["candidate_transport"]>> \in Authorized

(* A published bundle is never replaced by that of another builder that    *)
(* also found the path free (create_bundle, os.replace).                   *)
PublishedStays == [][
    output # None => output' # None /\ (output = Spoiled => output' = Spoiled)
                     /\ (output' # Spoiled => output'.by = output.by)]_bundleVars

(* When the worklist of patch_macos_runtime is empty, every binary that    *)
(* was copied has been rewritten and everything it loads is in the tree:   *)
(* the scan that follows finds nothing.  Nothing is said of load commands  *)
(* with "@" (they may point anywhere), of those of the system, and of      *)
(* binaries otool does not read: the code passes over them both times.     *)
WorklistCloses == \A b \in Builders :
    pc[b] = "patch" /\ pending[b] = <<>> => ClosureHolds(b)
=============================================================================
