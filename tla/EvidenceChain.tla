---------------------------- MODULE EvidenceChain ----------------------------
(***************************************************************************)
(* The fresh evidence chain of scripts/: the driver audits the executing   *)
(* checkout and the input bundle, the producer writes a policy and runs    *)
(* the build and test commands, the consumer derives facts from what they  *)
(* left, a reviewer fixture and a matrix of cases are run against those    *)
(* facts, the finalizer copies everything into a seal and the verifier     *)
(* replays it.  Several sessions run on one machine, each in directories   *)
(* of its own; tools and SDK are shared and may be upgraded between any    *)
(* two steps, files may be damaged, and any stage may be cut off.          *)
(*                                                                         *)
(* A digest is modelled by the value it is the digest of.  A damaged       *)
(* document becomes Spoiled, a file damaged inside a seal Marred, and      *)
(* nothing gives a file its old bytes back: an upgrade is a new version,   *)
(* damage stays (bytes that are damaged again count as the same).  What a  *)
(* check reads of a damaged file, short of its digest, may have survived.  *)
(***************************************************************************)
EXTENDS Naturals, Sequences

CONSTANTS
    Sessions,       \* review sessions: each a fresh, empty session root
    Cases,          \* the cases of the frozen matrix (E01 to E60)
    MaxUpgrades,    \* bound: upgrades of the host tools and of the SDK
    MaxDamage,      \* bound: files damaged in a behaviour
    None,           \* a document that does not exist
    Spoiled,        \* bytes that match no digest taken before the damage
    Marred          \* the same, of a file damaged in a seal

ASSUME BoundsAssumption == MaxUpgrades \in Nat /\ MaxDamage \in Nat
ASSUME MarkersAssumption == /\ None # Spoiled /\ Marred \notin {None, Spoiled}
                            /\ {None, Spoiled, Marred} \cap Sessions = {}
                            /\ Spoiled \notin {"candidate", "edited"}

VARIABLES
    tool,       \* version of the host tools on disk
    sdk,        \* version of the cross-build SDK on disk
    repo,       \* the executing checkout is at its audited bytes
    bundle,     \* roles of the input bundle whose bytes have changed
    damages,    \* files damaged and outputs that prove nothing so far (bound)
    pc,         \* per session: the stage it is in
    clone,      \* per session: its detached candidate, whole or damaged
    policy,     \* per session: what the policy pins
    policyKept, \* per session: the policy file still has those bytes
    disk,       \* per session: the artifact files by role
    toolBefore, \* per session: produce's first hash of the tools
    manifest,   \* per session: producer-manifest.json
    seen,       \* per session: what derive has read so far
    run,        \* per session: run-manifest.json
    facts,      \* per session: derived-facts.json
    fixture,    \* per session: the closure-test fixture
    consumed,   \* per session: the fixture's consumption state exists
    receipt,    \* per session: the matrix receipt with its case outputs
    seal,       \* per session: files of the final seal, by name
    loaded,     \* per session: what finalize holds in memory
    accepted    \* sessions whose seal verify_final accepted

machine == <<tool, sdk, repo, bundle, damages>>
produced == <<clone, policy, policyKept, disk, toolBefore, manifest>>
derived == <<seen, run, facts>>
reviewed == <<fixture, consumed, receipt>>
sealed == <<seal, loaded, accepted>>
vars == <<machine, pc, produced, derived, reviewed, sealed>>

(* The commands of the policy, in order, and the artifact each one writes. *)
(* The last stands for the three readers of the ELF: they leave its        *)
(* symbols, headers and disassembly as text.  The integrated tree stands   *)
(* for the tree and its manifest file.                                     *)
CommandOrder == <<"python", "prepare-xbuild-source", "build-xbuild", "xbuild-disassembler">>
Commands == {CommandOrder[i] : i \in DOMAIN CommandOrder}
OutputOf == [c \in Commands |-> CASE c = "python" -> "python-stdout"
                                  [] c = "prepare-xbuild-source" -> "integrated-tree"
                                  [] c = "build-xbuild" -> "final-elf"
                                  [] c = "xbuild-disassembler" -> "elf-text"]
Roles == {OutputOf[c] : c \in Commands}
OwnerFor(r) == CHOOSE c \in Commands : OutputOf[c] = r

BundleRoles == {"candidate_transport", "source_archive", "cross_dependencies",
                "frozen_matrix"}

(* The inputs of the run manifest in the order of their seal ids: a-..., of *)
(* the candidate ci-... (runner, consumer and result schema, which the     *)
(* policy pins by digest, then the others as one), the policy, and so on.  *)
InputOrder == <<"python-stdout", "elf-text", "final-elf", "integrated-tree",
                "acceptance", "closure", "policy", "producer-manifest", "tool">>
Inputs == {InputOrder[i] : i \in DOMAIN InputOrder}
SealFiles == Inputs \cup {"reviewer", "run-manifest", "facts", "result", "SHA256SUMS"}

Empty == [x \in {} |-> None]
Extend(f, x, v) == [y \in DOMAIN f \cup {x} |-> IF y = x THEN v ELSE f[y]]

(* The candidate's files: all of them whole, "edited" in others than those *)
(* the policy pins as acceptance inputs, Spoiled in one of those.          *)
Sources == {"candidate", "edited", Spoiled}
Content == [by : Commands, tool : 0..MaxUpgrades, sdk : 0..MaxUpgrades,
            source : Sources, proves : BOOLEAN]
Pins == [tool : 0..MaxUpgrades, sdk : 0..MaxUpgrades, source : Sources, session : Sessions]

Init ==
    /\ tool = 0 /\ sdk = 0 /\ repo = TRUE /\ bundle = {} /\ damages = 0
    /\ pc = [s \in Sessions |-> "new"]
    /\ clone = [s \in Sessions |-> None]
    /\ policy = [s \in Sessions |-> None]
    /\ policyKept = [s \in Sessions |-> TRUE]
    /\ disk = [s \in Sessions |-> Empty]
    /\ toolBefore = [s \in Sessions |-> None]
    /\ manifest = [s \in Sessions |-> None]
    /\ seen = [s \in Sessions |-> None]
    /\ run = [s \in Sessions |-> None]
    /\ facts = [s \in Sessions |-> None]
    /\ fixture = [s \in Sessions |-> None]
    /\ consumed = [s \in Sessions |-> FALSE]
    /\ receipt = [s \in Sessions |-> None]
    /\ seal = [s \in Sessions |-> Empty]
    /\ loaded = [s \in Sessions |-> None]
    /\ accepted = {}

Step(s, from, to) == pc[s] = from /\ pc' = [pc EXCEPT ![s] = to]

-----------------------------------------------------------------------------
(* Preflight: the driver's audit, the bundle and the detached candidate.   *)

(* Every role that is asked for still has the bytes its manifest row names. *)
Rehash(roles) == roles \cap bundle = {}

(* audit_invocation: interpreter, marker, lock and a clean checkout.       *)
AuditPasses == repo

StartSession(s) ==
    /\ Step(s, "new", "policy")
    /\ AuditPasses
    /\ Rehash(BundleRoles)
    /\ clone' = [clone EXCEPT ![s] = "candidate"]
    /\ UNCHANGED <<machine, policy, policyKept, disk, toolBefore, manifest, derived, reviewed,
                   sealed>>

-----------------------------------------------------------------------------
(* Producer.                                                               *)

(* What the integration writes when it runs on the clone as it is now.     *)
SourceNow(s) == clone[s]

(* build_policy pins the tools, the SDK and the integrated tree.           *)
BuildPolicy(s) ==
    /\ Step(s, "policy", "produce")
    /\ Rehash({"candidate_transport", "source_archive", "cross_dependencies"})
    /\ policy' = [policy EXCEPT ![s] = [tool |-> tool, sdk |-> sdk,
                                        source |-> SourceNow(s), session |-> s]]
    /\ UNCHANGED <<machine, clone, policyKept, disk, toolBefore, manifest, derived, reviewed,
                   sealed>>

\* MUTANT: the cross-build closures are not compared again.
ToolchainPinnedToolsOnly(s) == tool = policy[s].tool

(* The live tools and SDK closures are those of the policy.                *)
ToolchainPinned(s) == tool = policy[s].tool /\ sdk = policy[s].sdk

(* Every stage compares the policy with the digest it was given before it  *)
(* uses it, and holds the bytes it compared.                               *)
PolicyBound(s) == policy[s] # None /\ policyKept[s]

(* produce: the producer's roots are empty, the tools are hashed.          *)
BeginProduce(s) ==
    /\ Step(s, "produce", CommandOrder[1])
    /\ PolicyBound(s)
    /\ disk[s] = Empty /\ seal[s] = Empty
    /\ toolBefore' = [toolBefore EXCEPT ![s] = tool]
    /\ UNCHANGED <<machine, clone, policy, policyKept, disk, manifest, derived, reviewed,
                   sealed>>

(* A command works on the candidate, the cross build on the integrated     *)
(* tree, the readers on the ELF.                                           *)
InputOf == [c \in {"build-xbuild", "xbuild-disassembler"} |->
               IF c = "build-xbuild" THEN "integrated-tree" ELSE "final-elf"]
SourceOf(s, c) ==
    IF c \notin DOMAIN InputOf THEN SourceNow(s)
    ELSE IF disk[s][InputOf[c]] = Spoiled THEN Spoiled
    ELSE disk[s][InputOf[c]].source

(* The readers show no runtime core in an undamaged ELF that has none.     *)
CanShow(s, c) ==
    c = "xbuild-disassembler" /\ disk[s]["final-elf"] # Spoiled => disk[s]["final-elf"].proves

(* execute: one command of the policy runs to a clean exit and leaves its  *)
(* output, which may still not show what it is run for: tests left out, an *)
(* ELF without the runtime core.                                           *)
RunCommand(s, i) ==
    LET c == CommandOrder[i] IN
    /\ pc[s] = c
    /\ pc' = [pc EXCEPT ![s] = IF i = Len(CommandOrder) THEN "recheck"
                                                        ELSE CommandOrder[i + 1]]
    /\ \E proves \in BOOLEAN :
          /\ proves => CanShow(s, c)
          /\ damages' = (IF proves = CanShow(s, c) THEN damages ELSE damages + 1)
          /\ damages' <= MaxDamage
          /\ disk' = [disk EXCEPT ![s] = Extend(@, OutputOf[c],
                 [by |-> c, tool |-> tool, sdk |-> sdk, source |-> SourceOf(s, c),
                  proves |-> proves])]
    /\ UNCHANGED <<tool, sdk, repo, bundle, clone, policy, policyKept, toolBefore,
                   manifest, derived, reviewed, sealed>>

RecheckToolchain(s) ==
    /\ Step(s, "recheck", "manifest")
    /\ ToolchainPinned(s)
    /\ UNCHANGED <<machine, produced, derived, reviewed, sealed>>

(* The manifest records the tools before and after, what every artifact    *)
(* hashes to and which invocation owns it; then the roots are frozen.      *)
WriteManifest(s) ==
    /\ Step(s, "manifest", "derive")
    /\ manifest' = [manifest EXCEPT ![s] =
           [session |-> s, before |-> toolBefore[s], after |-> tool,
            artifact |-> disk[s], owner |-> [r \in Roles |-> OwnerFor(r)]]]
    /\ UNCHANGED <<machine, clone, policy, policyKept, disk, toolBefore, derived, reviewed,
                   sealed>>

-----------------------------------------------------------------------------
(* Consumer: derive reads everything once, in this order, and between two  *)
(* reads anything may change.                                              *)

ClosureIntact(s) == clone[s] = "candidate"

DeriveInputs(s) ==
    /\ Step(s, "derive", "derive-artifacts")
    /\ PolicyBound(s) /\ repo
    /\ seal[s] = Empty
    /\ ClosureIntact(s)
    /\ manifest[s] # None /\ manifest[s].session = policy[s].session
    /\ seen' = [seen EXCEPT ![s] = manifest[s]]
    /\ UNCHANGED <<machine, produced, run, facts, reviewed, sealed>>

(* The Git identity of the candidate, then each artifact and each tool     *)
(* against the manifest.                                                   *)
ArtifactsMatch(s) == \A r \in Roles : disk[s][r] = seen[s].artifact[r]
ToolsMatch(s) == tool = seen[s].before /\ tool = seen[s].after

DeriveArtifacts(s) ==
    /\ Step(s, "derive-artifacts", "derive-identity")
    /\ ClosureIntact(s)
    /\ ArtifactsMatch(s)
    /\ ToolsMatch(s)
    /\ UNCHANGED <<machine, produced, derived, reviewed, sealed>>

(* Every artifact has the one owner whose command names it as an output.   *)
OwnersBound(m) == \A r \in Roles : m.owner[r] \in Commands /\ OutputOf[m.owner[r]] = r

(* The integrated tree is read again and is the one the policy expects.    *)
TreesExpected(s) ==
    /\ disk[s]["integrated-tree"] # Spoiled
    /\ disk[s]["integrated-tree"].source = policy[s].source

(* An output that is read shows what its command is run for; if it was     *)
(* damaged, that part may have survived.                                   *)
Proves(a) == a # Spoiled => a.proves

(* The host regression, simulator and sanitizer outputs show every         *)
(* required test with its required outcome.                                *)
RegressionsPassed(m) == Proves(m.artifact["python-stdout"])

(* The readers' text shows the runtime core linked and its start called.   *)
(* Of the ELF itself only the word of the heap size is looked at, where    *)
(* the text says it is: that says nothing of the rest of the file.         *)
RuntimeCoreLinked(m) == Proves(m.artifact["elf-text"])

DeriveIdentity(s) ==
    /\ Step(s, "derive-identity", "derive-record")
    /\ ToolchainPinned(s)
    /\ OwnersBound(seen[s])
    /\ RegressionsPassed(seen[s])
    /\ TreesExpected(s)
    /\ RuntimeCoreLinked(seen[s])
    /\ UNCHANGED <<machine, produced, derived, reviewed, sealed>>

(* The run manifest lists what was read; the tool is read once more.       *)
WriteRunManifest(s) ==
    /\ Step(s, "derive-record", "derive-facts")
    /\ facts[s] = None /\ run[s] = None
    /\ run' = [run EXCEPT ![s] = [session |-> s, policy |-> policy[s],
                                  manifest |-> seen[s], tool |-> tool]]
    /\ UNCHANGED <<machine, produced, seen, facts, reviewed, sealed>>

WriteFacts(s) ==
    /\ Step(s, "derive-facts", "fixture")
    /\ facts' = [facts EXCEPT ![s] = [session |-> s, policy |-> run[s].policy,
                                      manifest |-> run[s].manifest, run |-> run[s]]]
    /\ UNCHANGED <<machine, produced, seen, run, reviewed, sealed>>

-----------------------------------------------------------------------------
(* The reviewer's runner: a closure-test fixture of the facts, verified,   *)
(* consumed once, and a receipt of the matrix.                             *)

Written(x) == x \notin {None, Spoiled}

(* source_input_bytes: the input as it is on disk now.                     *)
SourceInput(s, n) ==
    CASE n \in Roles -> disk[s][n]
      [] n = "acceptance" -> IF clone[s] = Spoiled THEN Spoiled ELSE "candidate"
      [] n = "closure" -> IF clone[s] = "candidate" THEN "candidate" ELSE Spoiled
      [] n = "policy" -> IF policyKept[s] THEN policy[s] ELSE Spoiled
      [] n = "producer-manifest" -> manifest[s]
      [] n = "tool" -> tool

Recorded(r, n) ==
    CASE n \in Roles -> r.manifest.artifact[n]
      [] n \in {"acceptance", "closure"} -> "candidate"
      [] n = "policy" -> r.policy
      [] n = "producer-manifest" -> r.manifest
      [] n = "tool" -> r.tool

\* MUTANT: the tools are taken to be those that derive read.
InputUnchangedButTools(s, r, n) == n = "tool" \/ SourceInput(s, n) = Recorded(r, n)

(* An input a run manifest lists is still what it was when it was listed.  *)
InputUnchanged(s, r, n) == SourceInput(s, n) = Recorded(r, n)

(* The reviewer of a session has its policy and is given the facts of some *)
(* session; every input of their run is read again.                        *)
PrepareFixture(s) == \E f \in Sessions :
    /\ Step(s, "fixture", "matrix")
    /\ PolicyBound(s) /\ policy[s].session = s
    /\ Rehash({"frozen_matrix"})
    /\ Written(facts[f]) /\ facts[f].run = run[f]
    /\ \A n \in Inputs : InputUnchanged(s, run[f], n)
    /\ fixture' = [fixture EXCEPT ![s] =
           [session |-> s, run |-> facts[f].run, facts |-> facts[f],
            policy |-> facts[f].policy]]
    /\ UNCHANGED <<machine, produced, derived, consumed, receipt, sealed>>

(* verify_closure_fixture against the digests its caller expects.          *)
FixtureVerifies(x, session, r, f) ==
    /\ Written(x)
    /\ x.session = session
    /\ x.run = r /\ x.facts = f /\ x.policy = f.policy

(* validate_policy_acceptance: matrix, runner, consumer and result schema. *)
AcceptanceInputsPinned(s) == Rehash({"frozen_matrix"}) /\ clone[s] # Spoiled

ConsumeFixture(s) ==
    /\ Step(s, "matrix", "cases")
    /\ Rehash({"candidate_transport"})
    /\ PolicyBound(s) /\ policy[s].session = s
    /\ AcceptanceInputsPinned(s)
    /\ \E f \in Sessions : /\ Written(facts[f]) /\ facts[f].run = run[f]
                          /\ FixtureVerifies(fixture[s], s, run[f], facts[f])
    /\ ~consumed[s]
    /\ consumed' = [consumed EXCEPT ![s] = TRUE]
    /\ UNCHANGED <<machine, produced, derived, fixture, receipt, sealed>>

(* The runner reports the cases it ran and those that passed.              *)
WriteReceipt(s) ==
    /\ Step(s, "cases", "finalize")
    /\ Written(fixture[s])
    /\ \E ran \in SUBSET Cases : \E passed \in SUBSET ran :
          receipt' = [receipt EXCEPT ![s] =
              [session |-> s, facts |-> fixture[s].facts, fixture |-> fixture[s],
               consumedOnce |-> consumed[s], ran |-> ran, passed |-> passed]]
    /\ UNCHANGED <<machine, produced, derived, fixture, consumed, sealed>>

-----------------------------------------------------------------------------
(* Finalizer and verifier.                                                 *)

(* load_facts_bundle and the bindings finalize checks after it.            *)
FactsBound(s, f) ==
    /\ Written(facts[f]) /\ facts[f].run = run[f]
    /\ manifest[s] # None /\ manifest[s].session = policy[s].session
    /\ facts[f].policy = policy[s] /\ run[f].policy = policy[s]
    /\ facts[f].manifest = manifest[s] /\ run[f].manifest = manifest[s]

(* validate_receipt: the receipt is of these facts, of the review session  *)
(* the policy names, and of every case.                                    *)
ReceiptBinds(rc, f) == Written(rc) /\ rc.facts = f
ReceiptOfSession(rc, p) == rc.session = p.session

\* MUTANT: failed cases count as executed ones.
MatrixCompleteByCount(rc) == rc.ran = Cases /\ rc.consumedOnce

MatrixComplete(rc) == rc.ran = Cases /\ rc.passed = Cases /\ rc.consumedOnce

\* MUTANT: finalize takes the policy the facts name for the one it was given.
FinalizeTrustsFacts(s) == \E f, r, x \in Sessions :
    /\ Step(s, "finalize", "copy")
    /\ AcceptanceInputsPinned(s)
    /\ Written(facts[f]) /\ facts[f].run = run[f]
    /\ ReceiptBinds(receipt[r], facts[f]) /\ ReceiptOfSession(receipt[r], facts[f].policy)
    /\ MatrixComplete(receipt[r])
    /\ receipt[r].fixture = fixture[x]
    /\ seal[s] = Empty
    /\ loaded' = [loaded EXCEPT ![s] = [run |-> run[f], facts |-> facts[f],
                     receipt |-> receipt[r], matrixOf |-> r, fixtureOf |-> x]]
    /\ UNCHANGED <<machine, produced, derived, reviewed, seal, accepted>>

(* The facts, the receipt and the fixture are command line arguments: any  *)
(* session's may be given.                                                 *)
FinalizeChecks(s) == \E f, r, x \in Sessions :
    /\ Step(s, "finalize", "copy")
    /\ PolicyBound(s) /\ Rehash({"frozen_matrix", "candidate_transport"})
    /\ AcceptanceInputsPinned(s)
    /\ FactsBound(s, f)
    /\ ReceiptBinds(receipt[r], facts[f]) /\ ReceiptOfSession(receipt[r], policy[s])
    /\ MatrixComplete(receipt[r])
    /\ receipt[r].fixture = fixture[x]
    /\ FixtureVerifies(fixture[x], receipt[r].session, run[f], facts[f])
    /\ seal[s] = Empty
    /\ loaded' = [loaded EXCEPT ![s] = [run |-> run[f], facts |-> facts[f],
                     receipt |-> receipt[r], matrixOf |-> r, fixtureOf |-> x]]
    /\ UNCHANGED <<machine, produced, derived, reviewed, seal, accepted>>

CopyInput(s, i) ==
    LET n == InputOrder[i] IN
    /\ pc[s] = "copy"
    /\ DOMAIN seal[s] = {InputOrder[j] : j \in 1..(i - 1)}
    /\ InputUnchanged(s, loaded[s].run, n)
    /\ seal' = [seal EXCEPT ![s] = Extend(@, n, SourceInput(s, n))]
    /\ UNCHANGED <<machine, pc, produced, derived, reviewed, loaded, accepted>>

(* Receipt from memory; fixture and case outputs as they are on disk now.  *)
CopyReviewerFiles(s) ==
    /\ Step(s, "copy", "result")
    /\ DOMAIN seal[s] = Inputs
    /\ seal' = [seal EXCEPT ![s] = Extend(@, "reviewer",
                    [receipt |-> loaded[s].receipt,
                     outputs |-> receipt[loaded[s].matrixOf],
                     fixture |-> fixture[loaded[s].fixtureOf]])]
    /\ UNCHANGED <<machine, produced, derived, reviewed, loaded, accepted>>

DeterministicResult(r, f, rc) == [run |-> r, facts |-> f, receipt |-> rc,
                                  session |-> rc.session]

WriteResult(s) ==
    /\ Step(s, "result", "sums")
    /\ LET l == loaded[s] IN
       seal' = [seal EXCEPT ![s] =
           Extend(Extend(Extend(@, "run-manifest", l.run), "facts", l.facts),
                  "result", DeterministicResult(l.run, l.facts, l.receipt))]
    /\ UNCHANGED <<machine, produced, derived, reviewed, loaded, accepted>>

(* The sums are of the files as they are in the seal now.                  *)
WriteSums(s) ==
    /\ Step(s, "sums", "verify")
    /\ seal' = [seal EXCEPT ![s] = Extend(@, "SHA256SUMS", seal[s])]
    /\ UNCHANGED <<machine, produced, derived, reviewed, loaded, accepted>>

(* verify_final_file_closure: exactly the listed files with their bytes.   *)
FileClosure(f) ==
    /\ "SHA256SUMS" \in DOMAIN f /\ f["SHA256SUMS"] # Marred
    /\ LET sums == f["SHA256SUMS"] IN
       /\ DOMAIN f = DOMAIN sums \cup {"SHA256SUMS"}
       /\ \A n \in DOMAIN sums : f[n] = sums[n]

(* The sealed policy and producer manifest are not hashed again: what they *)
(* name of each other and of the facts is compared.                        *)
ManifestFits(f) ==
    LET m == f["producer-manifest"] IN
    m # Marred => /\ m.session = f["facts"].policy.session
                  /\ f["policy"] # Marred => m.session = f["policy"].session

(* verify_final replays the derivation of the result from the sealed       *)
(* bytes.  Of the sealed inputs it looks at those of the acceptance, the   *)
(* policy and the manifest; none is compared with the run manifest.        *)
SealReplays(f) ==
    /\ FileClosure(f) /\ DOMAIN f = SealFiles
    /\ f["acceptance"] = "candidate"
    /\ f["facts"] # Marred /\ f["reviewer"] # Marred
    /\ ManifestFits(f)
    /\ LET rv == f["reviewer"] IN
       /\ rv.outputs = rv.receipt
       /\ ReceiptBinds(rv.receipt, f["facts"])
       /\ f["policy"] # Marred => ReceiptOfSession(rv.receipt, f["policy"])
       /\ MatrixComplete(rv.receipt)
       /\ rv.fixture = rv.receipt.fixture
       /\ FixtureVerifies(rv.fixture, rv.receipt.session, f["run-manifest"], f["facts"])
       /\ f["result"] = DeterministicResult(f["run-manifest"], f["facts"], rv.receipt)

VerifyFinal(s) ==
    /\ Step(s, "verify", "done")
    /\ SealReplays(seal[s])
    /\ accepted' = accepted \cup {s}
    /\ UNCHANGED <<machine, produced, derived, reviewed, seal, loaded>>

-----------------------------------------------------------------------------
(* A stage that rejects, is killed or loses power ends its session: the    *)
(* session root is no longer empty and no stage is run again.              *)
Running(s) == pc[s] \notin {"new", "failed", "done"}
Stop(s) ==
    /\ Running(s)
    /\ pc' = [pc EXCEPT ![s] = "failed"]
    /\ UNCHANGED <<machine, produced, derived, reviewed, sealed>>

Upgrade ==
    /\ tool + sdk < MaxUpgrades
    /\ \/ tool' = tool + 1 /\ sdk' = sdk
       \/ sdk' = sdk + 1 /\ tool' = tool
    /\ UNCHANGED <<repo, bundle, damages, pc, produced, derived, reviewed, sealed>>

(* Damage to one file that exists, those of a seal included from the time  *)
(* they are written; the manifest may instead be rewritten with another    *)
(* owner.                                                                  *)
DamageShared ==
    /\ \/ repo' = FALSE /\ bundle' = bundle
       \/ repo' = repo /\ \E b \in BundleRoles : bundle' = bundle \cup {b}
    /\ UNCHANGED <<produced, derived, reviewed, sealed>>

DamageProduced(s) ==
    /\ \/ /\ Written(clone[s])
          /\ \E damaged \in {"edited", Spoiled} : clone' = [clone EXCEPT ![s] = damaged]
          /\ UNCHANGED <<policyKept, disk, manifest>>
       \/ /\ PolicyBound(s) /\ policyKept' = [policyKept EXCEPT ![s] = FALSE]
          /\ UNCHANGED <<clone, disk, manifest>>
       \/ /\ \E r \in DOMAIN disk[s] : disk' = [disk EXCEPT ![s][r] = Spoiled]
          /\ UNCHANGED <<clone, policyKept, manifest>>
       \/ /\ Written(manifest[s])
          /\ \E r \in Roles : \E c \in Commands \ {manifest[s].owner[r]} :
                manifest' = [manifest EXCEPT ![s].owner[r] = c]
          /\ UNCHANGED <<clone, policyKept, disk>>
    /\ UNCHANGED <<repo, bundle, policy, toolBefore, derived, reviewed, sealed>>

DamageReviewed(s) ==
    /\ \/ /\ Written(facts[s]) /\ facts' = [facts EXCEPT ![s] = Spoiled]
          /\ UNCHANGED <<fixture, receipt, seal>>
       \/ /\ Written(fixture[s]) /\ fixture' = [fixture EXCEPT ![s] = Spoiled]
          /\ UNCHANGED <<facts, receipt, seal>>
       \/ /\ Written(receipt[s]) /\ receipt' = [receipt EXCEPT ![s] = Spoiled]
          /\ UNCHANGED <<facts, fixture, seal>>
       \/ /\ \E n \in DOMAIN seal[s] : seal' = [seal EXCEPT ![s][n] = Marred]
          /\ UNCHANGED <<facts, fixture, receipt>>
    /\ UNCHANGED <<repo, bundle, produced, seen, run, consumed, loaded, accepted>>

Damage ==
    /\ damages < MaxDamage /\ damages' = damages + 1
    /\ UNCHANGED <<tool, sdk, pc>>
    /\ \/ DamageShared
       \/ \E s \in Sessions : DamageProduced(s) \/ DamageReviewed(s)

Produce(s) ==
    \/ BeginProduce(s) \/ RecheckToolchain(s) \/ WriteManifest(s)
    \/ \E i \in DOMAIN CommandOrder : RunCommand(s, i)
Derive(s) ==
    \/ DeriveInputs(s) \/ DeriveArtifacts(s) \/ DeriveIdentity(s)
    \/ WriteRunManifest(s) \/ WriteFacts(s)
Review(s) == PrepareFixture(s) \/ ConsumeFixture(s) \/ WriteReceipt(s)
Finalize(s) ==
    \/ FinalizeChecks(s) \/ CopyReviewerFiles(s) \/ WriteResult(s) \/ WriteSums(s)
    \/ \E i \in DOMAIN InputOrder : CopyInput(s, i)

Next ==
    \/ \E s \in Sessions : StartSession(s) \/ BuildPolicy(s) \/ Produce(s) \/ Derive(s)
                          \/ Review(s) \/ Finalize(s) \/ VerifyFinal(s) \/ Stop(s)
    \/ Upgrade
    \/ Damage

Spec == Init /\ [][Next]_vars

-----------------------------------------------------------------------------

(* What finalize seals is one session's chain: its policy, facts, receipt  *)
(* and fixture are of that session and of each other from the first file   *)
(* of the seal on, although finalize takes each of them from the command   *)
(* line (load_facts_bundle, validate_receipt, finalize).                   *)
OneChain == \A s \in Sessions : seal[s] # Empty =>
    LET l == loaded[s] IN
    /\ l.run.session = s /\ l.facts.session = s /\ l.facts.run = l.run
    /\ l.receipt.session = s /\ l.receipt.facts = l.facts
    /\ l.receipt.fixture.session = s /\ l.receipt.fixture.facts = l.facts

(* The artifacts an accepted run recorded were built by the commands their *)
(* manifest names, with the tools and the SDK the policy pins, from the    *)
(* whole candidate, and show what those commands are run for, although     *)
(* tools, SDK and sources may change between any two commands and checks   *)
(* (produce, consume, finalize).  This is claimed of the files that were   *)
(* not damaged before the manifest hashed them (those in Kept): the chain  *)
(* does not see such damage, except in the integrated tree.  In particular *)
(* the ELF is judged by the readers' text, which is not read again: only   *)
(* if both are kept does the text speak for the ELF that is recorded.      *)
BuiltAsPinned == \A s \in accepted :
    LET l == loaded[s].run
        a == l.manifest.artifact
        Kept == {r \in Roles : a[r] # Spoiled} IN
    /\ \A r \in Kept : /\ a[r].by = l.manifest.owner[r]
                       /\ a[r].tool = l.policy.tool /\ a[r].sdk = l.policy.sdk
    /\ \A r \in Kept \ {"elf-text"} : a[r].source = "candidate"
    /\ "integrated-tree" \in Kept
    /\ "python-stdout" \in Kept => a["python-stdout"].proves
    /\ {"final-elf", "elf-text"} \subseteq Kept =>
          a["final-elf"].proves /\ a["elf-text"].source = "candidate"

(* The first file of a final seal appears after a complete matrix of the   *)
(* very facts that are sealed: every case ran and passed, with a fixture   *)
(* consumed once, whatever was damaged or cut off in the meantime          *)
(* (validate_receipt, finalize, write_once).                               *)
SealAfterMatrix == \A s \in Sessions : seal[s] # Empty =>
    /\ consumed[s] /\ loaded[s].receipt.consumedOnce
    /\ loaded[s].receipt.facts = loaded[s].facts
    /\ loaded[s].receipt.ran = Cases /\ loaded[s].receipt.passed = Cases

(* When a seal is accepted, each input in it is what the run manifest      *)
(* recorded, whatever tools, artifacts, candidate or policy became between *)
(* derive and its copy; or it was damaged in the seal, after it was copied *)
(* and before the sums were taken of what lies there: that damage is       *)
(* listed and accepted, any later one is refused (finalize,                *)
(* verify_final_file_closure).                                             *)
AcceptedAsRecorded == [][\A s \in accepted' \ accepted : \A n \in Inputs :
    \/ seal[s][n] = Recorded(loaded[s].run, n)
    \/ seal[s][n] = Marred /\ seal[s]["SHA256SUMS"][n] = Marred]_vars
=============================================================================
