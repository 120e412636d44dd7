------------------------ MODULE EvidenceChainProofs ------------------------
(***************************************************************************)
(* Proofs about the evidence chain, for every set of sessions and cases    *)
(* and every number of upgrades and of damages.  The steps of a session    *)
(* touch its own documents only, and the live tools only move forward, so  *)
(* the invariant is a conjunction over sessions: each step keeps that of   *)
(* its session (SessionStepKeeps) and, by SameKeeps, those of the others.  *)
(* The pins rest on Made: an artifact's versions lie between those of the  *)
(* policy and the live ones, so once derive has seen the two equal the     *)
(* artifact was made with them (IdentityPins).                             *)
(***************************************************************************)
EXTENDS EvidenceChain, TLAPS

-----------------------------------------------------------------------------
(* The invariant.                                                          *)

Stages == {"new", "policy", "produce", "recheck", "manifest", "derive", "derive-artifacts",
           "derive-identity", "derive-record", "derive-facts", "fixture", "matrix", "cases",
           "finalize", "copy", "result", "sums", "verify", "done", "failed"} \cup Commands
Unbound == {"new", "policy", "produce", "failed"}
Sealing == {"copy", "result", "sums", "verify", "done"}

(* Every document is one per session.                                      *)
PerSession ==
    /\ DOMAIN pc = Sessions /\ DOMAIN clone = Sessions /\ DOMAIN policy = Sessions
    /\ DOMAIN policyKept = Sessions /\ DOMAIN disk = Sessions /\ DOMAIN toolBefore = Sessions
    /\ DOMAIN manifest = Sessions /\ DOMAIN seen = Sessions /\ DOMAIN run = Sessions
    /\ DOMAIN facts = Sessions /\ DOMAIN fixture = Sessions /\ DOMAIN consumed = Sessions
    /\ DOMAIN receipt = Sessions /\ DOMAIN seal = Sessions /\ DOMAIN loaded = Sessions
    /\ tool \in Nat /\ sdk \in Nat /\ accepted \subseteq Sessions

(* The policy of a session is its own and pins versions that were live.    *)
StageInv(s) ==
    /\ pc[s] \in Stages
    /\ clone[s] \in {None} \cup Sources
    /\ policy[s] # None => /\ policy[s].session = s
                           /\ policy[s].tool \in Nat /\ policy[s].tool <= tool
                           /\ policy[s].sdk \in Nat /\ policy[s].sdk <= sdk
    /\ pc[s] \notin Unbound => policy[s] # None
    /\ pc[s] \in {"new", "policy"} => /\ disk[s] = Empty /\ manifest[s] = None
                                      /\ facts[s] = None

(* What may be said of artifacts before they are judged: versions lie      *)
(* between those of the policy and the live ones, a candidate that is      *)
(* whole now was whole when they were made, the ELF was made from the      *)
(* integrated tree that is there and the text from the ELF, unless those   *)
(* were damaged.                                                           *)
Made(art, p, source, t, k) ==
    /\ \A r \in DOMAIN art : art[r] # Spoiled =>
          /\ art[r].by \in Commands /\ OutputOf[art[r].by] = r
          /\ art[r].tool \in Nat /\ p.tool <= art[r].tool /\ art[r].tool <= t
          /\ art[r].sdk \in Nat /\ p.sdk <= art[r].sdk /\ art[r].sdk <= k
          /\ r \notin {"final-elf", "elf-text"} /\ source = "candidate"
             => art[r].source = "candidate"
    /\ /\ {"final-elf", "integrated-tree"} \subseteq DOMAIN art
       /\ art["final-elf"] # Spoiled /\ art["integrated-tree"] # Spoiled
       => art["final-elf"].source = art["integrated-tree"].source
    /\ /\ {"elf-text", "final-elf"} \subseteq DOMAIN art
       /\ art["elf-text"] # Spoiled /\ art["final-elf"] # Spoiled
       => /\ art["elf-text"].source = art["final-elf"].source
          /\ art["elf-text"].proves => art["final-elf"].proves
MadeBy(s, art) == Made(art, policy[s], clone[s], tool, sdk)

(* Each command leaves one artifact more.                                  *)
ArtifactInv(s) ==
    /\ MadeBy(s, disk[s])
    /\ pc[s] = "python" => DOMAIN disk[s] = {}
    /\ pc[s] = "prepare-xbuild-source" => DOMAIN disk[s] = {"python-stdout"}
    /\ pc[s] = "build-xbuild" => DOMAIN disk[s] = {"python-stdout", "integrated-tree"}
    /\ pc[s] = "xbuild-disassembler" => DOMAIN disk[s] = Roles \ {"elf-text"}
    /\ pc[s] \in {"recheck", "manifest"} => Roles \subseteq DOMAIN disk[s]
    /\ manifest[s] # None =>
          /\ {"artifact", "session"} \subseteq DOMAIN manifest[s]
          /\ Roles \subseteq DOMAIN manifest[s].artifact /\ MadeBy(s, manifest[s].artifact)

(* What a judged manifest says (BuiltAsPinned).                            *)
Pinned(m, p) ==
    /\ \A r \in Roles : m.artifact[r] # Spoiled =>
          /\ m.artifact[r].by = m.owner[r]
          /\ m.artifact[r].tool = p.tool /\ m.artifact[r].sdk = p.sdk
          /\ r # "elf-text" => m.artifact[r].source = "candidate"
    /\ m.artifact["integrated-tree"] # Spoiled
    /\ m.artifact["python-stdout"] # Spoiled => m.artifact["python-stdout"].proves
    /\ m.artifact["final-elf"] # Spoiled /\ m.artifact["elf-text"] # Spoiled =>
          m.artifact["final-elf"].proves /\ m.artifact["elf-text"].source = "candidate"

RunHolds(s) ==
    /\ run[s].session = s /\ run[s].policy = policy[s] /\ policy[s].session = s
    /\ Pinned(run[s].manifest, run[s].policy)

DeriveInv(s) ==
    /\ pc[s] \in {"derive-artifacts", "derive-identity"} =>
          Roles \subseteq DOMAIN seen[s].artifact /\ MadeBy(s, seen[s].artifact)
    /\ pc[s] = "derive-identity" =>
          /\ \A r \in Roles : disk[s][r] \in {seen[s].artifact[r], Spoiled}
          /\ \A r \in Roles \ {"final-elf", "elf-text"} : seen[s].artifact[r] # Spoiled =>
                seen[s].artifact[r].source = "candidate"
    /\ pc[s] = "derive-record" => Pinned(seen[s], policy[s])
    /\ pc[s] = "derive-facts" \/ Written(facts[s]) => RunHolds(s)
    /\ Written(facts[s]) => facts[s].session = s /\ facts[s].policy = policy[s]

(* What finalize holds in memory is one chain with a complete matrix.      *)
OneChainIn(l, s) ==
    /\ l.receipt.ran = Cases /\ l.receipt.passed = Cases /\ l.receipt.consumedOnce
    /\ l.run.session = s /\ l.facts.session = s /\ l.facts.run = l.run
    /\ l.receipt.session = s /\ l.receipt.facts = l.facts
    /\ l.receipt.fixture.session = s /\ l.receipt.fixture.facts = l.facts
    /\ Pinned(l.run.manifest, l.run.policy)

SealInv(s) ==
    /\ Written(receipt[s]) =>
          receipt[s].session = s /\ (receipt[s].consumedOnce => consumed[s])
    /\ pc[s] \in Sealing \/ seal[s] # Empty => consumed[s] /\ OneChainIn(loaded[s], s)
    /\ s \in accepted => pc[s] = "done"
    /\ \A n \in Inputs : n \in DOMAIN seal[s] =>
          seal[s][n] \in {Recorded(loaded[s].run, n), Marred}

SessionInv(s) == StageInv(s) /\ ArtifactInv(s) /\ DeriveInv(s) /\ SealInv(s)
ChainInv == PerSession /\ \A s \in Sessions : SessionInv(s)

-----------------------------------------------------------------------------
(* Names, records and artifacts.                                           *)

(* The commands of the policy, in order, and what each makes (produce).    *)
LEMMA CommandsAre ==
    /\ DOMAIN CommandOrder = {1, 2, 3, 4} /\ Len(CommandOrder) = 4
    /\ CommandOrder[1] = "python" /\ CommandOrder[2] = "prepare-xbuild-source"
    /\ CommandOrder[3] = "build-xbuild" /\ CommandOrder[4] = "xbuild-disassembler"
    /\ Commands = {"python", "prepare-xbuild-source", "build-xbuild", "xbuild-disassembler"}
    /\ OutputOf["python"] = "python-stdout"
    /\ OutputOf["prepare-xbuild-source"] = "integrated-tree"
    /\ OutputOf["build-xbuild"] = "final-elf"
    /\ OutputOf["xbuild-disassembler"] = "elf-text"
    /\ Roles = {"python-stdout", "integrated-tree", "final-elf", "elf-text"}
<1>1. /\ DOMAIN CommandOrder = 1..4 /\ Len(CommandOrder) = 4
      /\ CommandOrder[1] = "python" /\ CommandOrder[2] = "prepare-xbuild-source"
      /\ CommandOrder[3] = "build-xbuild" /\ CommandOrder[4] = "xbuild-disassembler"
  BY DEF CommandOrder
<1>2. DOMAIN CommandOrder = {1, 2, 3, 4}
  BY <1>1
<1>3. Commands = {"python", "prepare-xbuild-source", "build-xbuild", "xbuild-disassembler"}
  BY <1>1, <1>2 DEF Commands
<1>4. /\ OutputOf["python"] = "python-stdout"
      /\ OutputOf["prepare-xbuild-source"] = "integrated-tree"
      /\ OutputOf["build-xbuild"] = "final-elf"
      /\ OutputOf["xbuild-disassembler"] = "elf-text"
  BY <1>3 DEF OutputOf
<1>5. Roles = {"python-stdout", "integrated-tree", "final-elf", "elf-text"}
  BY <1>3, <1>4 DEF Roles
<1>6. QED
  BY <1>1, <1>2, <1>3, <1>4, <1>5

(* No two commands make the same artifact.                                 *)
LEMMA OneOwner == \A c, d \in Commands : OutputOf[c] = OutputOf[d] => c = d
BY CommandsAre

(* The files of the review are none of those of the run, nor the sums.     *)
LEMMA SealNames ==
    /\ "reviewer" \notin Inputs /\ "run-manifest" \notin Inputs /\ "facts" \notin Inputs
    /\ "result" \notin Inputs /\ "SHA256SUMS" \notin Inputs
    /\ \A i \in DOMAIN InputOrder : InputOrder[i] \in Inputs
<1>1. DOMAIN InputOrder = 1..9
  BY DEF InputOrder
<1>2. \A i \in DOMAIN InputOrder : InputOrder[i] \in
         {"python-stdout", "elf-text", "final-elf", "integrated-tree", "acceptance",
          "closure", "policy", "producer-manifest", "tool"}
  <2>1. \A i \in 1..9 : \/ i = 1 \/ i = 2 \/ i = 3 \/ i = 4 \/ i = 5
                       \/ i = 6 \/ i = 7 \/ i = 8 \/ i = 9
    OBVIOUS
  <2>2. QED
    BY <1>1, <2>1 DEF InputOrder
<1>3. QED
  BY <1>2 DEF Inputs

(* A record that gains a file.                                             *)
LEMMA ExtendIs ==
    ASSUME NEW f, NEW x, NEW v
    PROVE  /\ DOMAIN Extend(f, x, v) = DOMAIN f \cup {x} /\ Extend(f, x, v)[x] = v
           /\ \A y \in DOMAIN f : y # x => Extend(f, x, v)[y] = f[y]
BY DEF Extend

(* Nothing is claimed of artifacts that do not exist.                      *)
LEMMA EmptyIs == DOMAIN Empty = {} /\ \A p, c, t, k : Made(Empty, p, c, t, k)
BY DEF Empty, Made

(* Tools are only upgraded, and a damaged candidate stays damaged.         *)
LEMMA MadeStays ==
    ASSUME NEW art, NEW p, NEW c, NEW d, NEW t \in Nat, NEW u \in Nat,
           NEW k \in Nat, NEW l \in Nat, t <= u, k <= l,
           d = "candidate" => c = "candidate", Made(art, p, c, t, k)
    PROVE  Made(art, p, d, u, l)
<1>1. ASSUME NEW r \in DOMAIN art, art[r] # Spoiled
      PROVE  /\ art[r].by \in Commands /\ OutputOf[art[r].by] = r
             /\ art[r].tool \in Nat /\ p.tool <= art[r].tool /\ art[r].tool <= u
             /\ art[r].sdk \in Nat /\ p.sdk <= art[r].sdk /\ art[r].sdk <= l
             /\ r \notin {"final-elf", "elf-text"} /\ d = "candidate"
                => art[r].source = "candidate"
  BY <1>1 DEF Made
<1>2. QED
  BY <1>1 DEF Made

(* The documents of a session, and the machine's tools, from one state to  *)
(* the next.                                                               *)
Same(x) ==
    /\ pc'[x] = pc[x] /\ clone'[x] = clone[x] /\ policy'[x] = policy[x]
    /\ disk'[x] = disk[x] /\ manifest'[x] = manifest[x] /\ seen'[x] = seen[x]
    /\ run'[x] = run[x] /\ facts'[x] = facts[x] /\ consumed'[x] = consumed[x]
    /\ receipt'[x] = receipt[x] /\ seal'[x] = seal[x] /\ loaded'[x] = loaded[x]
    /\ x \in accepted' <=> x \in accepted

Later == /\ tool \in Nat /\ sdk \in Nat /\ tool' \in Nat /\ sdk' \in Nat
         /\ tool <= tool' /\ sdk <= sdk'

(* A session whose documents stay is not disturbed by a later machine.     *)
LEMMA SameKeeps ==
    ASSUME NEW x \in Sessions, SessionInv(x), Same(x), Later
    PROVE  SessionInv(x)'
<1>0. \A art, p, c : Made(art, p, c, tool, sdk) => Made(art, p, c, tool', sdk')
  BY MadeStays DEF Later
<1>1. StageInv(x)'
  BY DEF SessionInv, StageInv, Same, Later
<1>2. ArtifactInv(x)'
  BY <1>0 DEF SessionInv, ArtifactInv, MadeBy, Same
<1>3. DeriveInv(x)'
  BY <1>0 DEF SessionInv, DeriveInv, MadeBy, Same, RunHolds
<1>4. SealInv(x)'
  BY DEF SessionInv, SealInv, Same
<1>5. QED
  BY <1>1, <1>2, <1>3, <1>4 DEF SessionInv

(* No session has begun.                                                   *)
LEMMA InitChain == Init => ChainInv
<1> SUFFICES ASSUME Init PROVE ChainInv
  OBVIOUS
<1>1. PerSession
  BY DEF Init, PerSession
<1>2. ASSUME NEW s \in Sessions PROVE SessionInv(s)
  <2>1. StageInv(s)
    BY DEF Init, StageInv, Stages, Unbound
  <2>2. ArtifactInv(s)
    BY EmptyIs DEF Init, ArtifactInv, MadeBy
  <2>3. DeriveInv(s)
    BY DEF Init, DeriveInv, Written
  <2>4. SealInv(s)
    BY EmptyIs DEF Init, SealInv, Sealing, Written
  <2>5. QED
    BY <2>1, <2>2, <2>3, <2>4 DEF SessionInv
<1>3. QED
  BY <1>1, <1>2 DEF ChainInv

-----------------------------------------------------------------------------
(* Steps of one session.                                                   *)

SessionStep(s) == StartSession(s) \/ BuildPolicy(s) \/ Produce(s) \/ Derive(s) \/ Review(s)
                  \/ Finalize(s) \/ VerifyFinal(s) \/ Stop(s)

(* A step of one session leaves the documents of the others alone.         *)
LEMMA OthersAlone ==
    ASSUME PerSession, NEW s \in Sessions, SessionStep(s)
    PROVE  PerSession' /\ Later /\ \A x \in Sessions : x # s => Same(x)
<1> USE DEF PerSession, Later, Same, Step, machine, produced, derived, reviewed, sealed
<1>1. CASE StartSession(s)
  BY <1>1 DEF StartSession
<1>2. CASE BuildPolicy(s)
  BY <1>2 DEF BuildPolicy
<1>3. CASE BeginProduce(s)
  BY <1>3 DEF BeginProduce
<1>4. ASSUME NEW i \in DOMAIN CommandOrder, RunCommand(s, i)
      PROVE  PerSession' /\ Later /\ \A x \in Sessions : x # s => Same(x)
  BY <1>4 DEF RunCommand
<1>5. CASE RecheckToolchain(s) \/ DeriveArtifacts(s) \/ DeriveIdentity(s)
  BY <1>5 DEF RecheckToolchain, DeriveArtifacts, DeriveIdentity
<1>6. CASE WriteManifest(s)
  BY <1>6 DEF WriteManifest
<1>7. CASE DeriveInputs(s)
  BY <1>7 DEF DeriveInputs
<1>8. CASE WriteRunManifest(s) \/ WriteFacts(s)
  BY <1>8 DEF WriteRunManifest, WriteFacts
<1>9. CASE PrepareFixture(s)
  BY <1>9 DEF PrepareFixture
<1>10. CASE ConsumeFixture(s)
  BY <1>10 DEF ConsumeFixture
<1>11. CASE WriteReceipt(s)
  BY <1>11 DEF WriteReceipt
<1>12. CASE FinalizeChecks(s)
  BY <1>12 DEF FinalizeChecks
<1>13. CASE CopyReviewerFiles(s)
  BY <1>13 DEF CopyReviewerFiles
<1>14. CASE WriteResult(s)
  BY <1>14 DEF WriteResult
<1>15. CASE WriteSums(s)
  BY <1>15 DEF WriteSums
<1>16. ASSUME NEW i \in DOMAIN InputOrder, CopyInput(s, i)
       PROVE  PerSession' /\ Later /\ \A x \in Sessions : x # s => Same(x)
  BY <1>16 DEF CopyInput
<1>17. CASE VerifyFinal(s)
  BY <1>17 DEF VerifyFinal
<1>18. CASE Stop(s)
  BY <1>18 DEF Stop
<1>19. QED
  BY <1>1, <1>2, <1>3, <1>4, <1>5, <1>6, <1>7, <1>8, <1>9, <1>10, <1>11, <1>12, <1>13, <1>14,
     <1>15, <1>16, <1>17, <1>18 DEF SessionStep, Produce, Derive, Review, Finalize

(* What a session's own step leaves alone, for the parts it does not touch.*)
SameArtifacts(s) ==
    /\ disk'[s] = disk[s] /\ manifest'[s] = manifest[s] /\ clone'[s] = clone[s]
    /\ policy'[s] = policy[s] /\ UNCHANGED <<tool, sdk>>
SameDerived(s) ==
    SameArtifacts(s) /\ seen'[s] = seen[s] /\ run'[s] = run[s] /\ facts'[s] = facts[s]
SameSeal(s) ==
    /\ consumed'[s] = consumed[s] /\ receipt'[s] = receipt[s] /\ seal'[s] = seal[s]
    /\ loaded'[s] = loaded[s] /\ accepted' = accepted

Early == {"new", "policy", "produce", "recheck", "manifest", "derive", "failed"} \cup Commands
Late == {"fixture", "matrix", "cases", "finalize", "failed"} \cup Sealing
Deriving == {"derive-artifacts", "derive-identity", "derive-record", "derive-facts"}

(* Moves of a session that stay clear of a part of its invariant.          *)
LEMMA StageKeeps ==
    ASSUME NEW s \in Sessions, SessionInv(s), SameArtifacts(s), pc'[s] \in Stages,
           pc'[s] \notin {"new", "policy"}, pc[s] \in Unbound => pc'[s] \in Unbound
    PROVE  StageInv(s)'
BY DEF SessionInv, StageInv, SameArtifacts

(* The artifacts and the manifest stay, and the step leaves the producer.  *)
LEMMA ArtifactsKeep ==
    ASSUME NEW s \in Sessions, SessionInv(s), SameArtifacts(s),
           pc'[s] \notin Commands \cup {"recheck", "manifest"}
    PROVE  ArtifactInv(s)'
BY CommandsAre DEF SessionInv, ArtifactInv, SameArtifacts, MadeBy

(* The run record and the facts stay, and the step is not one of derive's. *)
LEMMA DerivedKeeps ==
    ASSUME NEW s \in Sessions, SessionInv(s), pc'[s] \notin Deriving,
           policy'[s] = policy[s], run'[s] = run[s], facts'[s] = facts[s]
    PROVE  DeriveInv(s)'
BY DEF SessionInv, DeriveInv, Deriving, RunHolds

(* The seal stays, and the step is not one of finalize's.                  *)
LEMMA SealKeeps ==
    ASSUME NEW s \in Sessions, SessionInv(s), SameSeal(s), pc[s] # "done",
           pc'[s] \notin Sealing
    PROVE  SealInv(s)'
BY DEF SessionInv, SealInv, SameSeal, Sealing

-----------------------------------------------------------------------------
(* Producing (scripts/verifier_driver.py).                                 *)

(* A command is a stage of the producer.                                   *)
LEMMA StageNames ==
    /\ Commands \subseteq Stages /\ Commands \cap Deriving = {} /\ Commands \cap Sealing = {}
    /\ Commands \cap Unbound = {} /\ "done" \notin Commands /\ "manifest" \notin Commands
    /\ "recheck" \notin Commands
BY CommandsAre DEF Stages, Deriving, Sealing, Unbound

(* new_session and build_policy.                                           *)
LEMMA StartKeeps ==
    ASSUME PerSession, NEW s \in Sessions, SessionInv(s), StartSession(s) \/ BuildPolicy(s)
    PROVE  SessionInv(s)'
<1> USE DEF PerSession, Step, machine, produced, derived, reviewed, sealed
<1>1. CASE StartSession(s)
  <2>1. /\ pc[s] = "new" /\ pc'[s] = "policy" /\ clone'[s] = "candidate"
        /\ UNCHANGED <<policy, disk, manifest, seen, run, facts, consumed, receipt, seal,
                       loaded, accepted, tool, sdk>>
    BY <1>1 DEF StartSession
  <2>2. disk[s] = Empty /\ manifest[s] = None /\ facts[s] = None
    BY <2>1 DEF SessionInv, StageInv
  <2>3. StageInv(s)'
    BY <2>1, <2>2 DEF SessionInv, StageInv, Stages, Unbound, Sources
  <2>4. ArtifactInv(s)'
    BY <2>1, <2>2, EmptyIs DEF ArtifactInv, MadeBy
  <2>5. DeriveInv(s)'
    BY <2>1, DerivedKeeps DEF Deriving
  <2>6. SealInv(s)'
    BY <2>1, SealKeeps DEF SameSeal, Sealing
  <2>7. QED
    BY <2>3, <2>4, <2>5, <2>6 DEF SessionInv
<1>2. CASE BuildPolicy(s)
  <2>1. /\ pc[s] = "policy" /\ pc'[s] = "produce"
        /\ policy'[s] = [tool |-> tool, sdk |-> sdk, source |-> SourceNow(s), session |-> s]
        /\ UNCHANGED <<clone, disk, manifest, seen, run, facts, consumed, receipt, seal,
                       loaded, accepted, tool, sdk>>
    BY <1>2 DEF BuildPolicy
  <2>2. disk[s] = Empty /\ manifest[s] = None /\ facts[s] = None
    BY <2>1 DEF SessionInv, StageInv
  <2>3. StageInv(s)'
    BY <2>1, <2>2 DEF SessionInv, StageInv, Stages, Unbound
  <2>4. ArtifactInv(s)'
    BY <2>1, <2>2, EmptyIs DEF ArtifactInv, MadeBy
  <2>5. DeriveInv(s)'
    BY <2>1, <2>2 DEF DeriveInv, Written
  <2>6. SealInv(s)'
    BY <2>1, SealKeeps DEF SameSeal, Sealing
  <2>7. QED
    BY <2>3, <2>4, <2>5, <2>6 DEF SessionInv
<1>3. QED
  BY <1>1, <1>2

(* One command of the policy.                                              *)
LEMMA RunCommandKeeps ==
    ASSUME PerSession, NEW s \in Sessions, SessionInv(s), NEW i \in DOMAIN CommandOrder,
           RunCommand(s, i)
    PROVE  SessionInv(s)'
<1> DEFINE c == CommandOrder[i]
<1>1. PICK proves \in BOOLEAN :
         /\ proves => CanShow(s, c)
         /\ disk' = [disk EXCEPT ![s] = Extend(@, OutputOf[c],
                 [by |-> c, tool |-> tool, sdk |-> sdk, source |-> SourceOf(s, c),
                  proves |-> proves])]
  BY DEF RunCommand
<1> DEFINE new == [by |-> c, tool |-> tool, sdk |-> sdk, source |-> SourceOf(s, c),
                   proves |-> proves]
<1>2. /\ pc[s] = c /\ UNCHANGED <<clone, policy, manifest, seen, run, facts, consumed, receipt,
                                  seal, loaded, accepted, tool, sdk>>
      /\ pc' = [pc EXCEPT ![s] = IF i = Len(CommandOrder) THEN "recheck"
                                 ELSE CommandOrder[i + 1]]
  BY DEF RunCommand, derived, reviewed, sealed
<1>3. c \in Commands /\ i \in {1, 2, 3, 4}
  BY CommandsAre DEF Commands
<1>4. /\ c = "python" => pc'[s] = "prepare-xbuild-source"
      /\ c = "prepare-xbuild-source" => pc'[s] = "build-xbuild"
      /\ c = "build-xbuild" => pc'[s] = "xbuild-disassembler"
      /\ c = "xbuild-disassembler" => pc'[s] = "recheck"
  BY <1>2, <1>3, CommandsAre DEF PerSession
<1>5. /\ DOMAIN disk'[s] = DOMAIN disk[s] \cup {OutputOf[c]}
      /\ disk'[s][OutputOf[c]] = new
      /\ \A r \in DOMAIN disk[s] : r # OutputOf[c] => disk'[s][r] = disk[s][r]
  <2>1. disk'[s] = Extend(disk[s], OutputOf[c], new)
    BY <1>1 DEF PerSession
  <2> DEFINE r == OutputOf[c]
             old == disk[s]
  <2> HIDE DEF new, c, r, old
  <2>2. /\ DOMAIN Extend(old, r, new) = DOMAIN old \cup {r} /\ Extend(old, r, new)[r] = new
        /\ \A y \in DOMAIN old : y # r => Extend(old, r, new)[y] = old[y]
    BY DEF Extend
  <2>3. disk'[s] = Extend(old, r, new)
    BY <2>1 DEF r, old
  <2>4. QED
    BY <2>2, <2>3 DEF r, old
<1>6. /\ new.by = c /\ new.tool = tool /\ new.sdk = sdk /\ new.source = SourceOf(s, c)
      /\ new.proves => CanShow(s, c)
  BY <1>1
<1>7. /\ policy[s].tool \in Nat /\ policy[s].tool <= tool /\ tool \in Nat
      /\ policy[s].sdk \in Nat /\ policy[s].sdk <= sdk /\ sdk \in Nat
  BY <1>2, <1>3, StageNames DEF SessionInv, StageInv, PerSession
<1>8. /\ c \notin {"build-xbuild", "xbuild-disassembler"} => new.source = clone[s]
      /\ c = "build-xbuild" /\ disk[s]["integrated-tree"] # Spoiled =>
            new.source = disk[s]["integrated-tree"].source
      /\ c = "xbuild-disassembler" /\ disk[s]["final-elf"] # Spoiled =>
            /\ new.source = disk[s]["final-elf"].source
            /\ new.proves => disk[s]["final-elf"].proves
  <2>1. /\ DOMAIN InputOf = {"build-xbuild", "xbuild-disassembler"}
        /\ InputOf["build-xbuild"] = "integrated-tree"
        /\ InputOf["xbuild-disassembler"] = "final-elf"
    BY DEF InputOf
  <2> HIDE DEF c, new
  <2>2. QED
    BY <1>6, <2>1 DEF SourceOf, SourceNow, CanShow
<1>9. /\ c = "python" => DOMAIN disk[s] = {}
      /\ c = "prepare-xbuild-source" => DOMAIN disk[s] = {"python-stdout"}
      /\ c = "build-xbuild" => DOMAIN disk[s] = {"python-stdout", "integrated-tree"}
      /\ c = "xbuild-disassembler" => DOMAIN disk[s] = Roles \ {"elf-text"}
      /\ MadeBy(s, disk[s])
  BY <1>2 DEF SessionInv, ArtifactInv
<1> HIDE DEF new
<1>10. MadeBy(s, disk[s])'
  <2>1. ASSUME NEW r \in DOMAIN disk'[s], disk'[s][r] # Spoiled
        PROVE  LET a == disk'[s][r] IN
               /\ a.by \in Commands /\ OutputOf[a.by] = r
               /\ a.tool \in Nat /\ policy[s].tool <= a.tool /\ a.tool <= tool
               /\ a.sdk \in Nat /\ policy[s].sdk <= a.sdk /\ a.sdk <= sdk
               /\ r \notin {"final-elf", "elf-text"} /\ clone[s] = "candidate"
                  => a.source = "candidate"
    <3>1. CASE r = OutputOf[c]
      <4>1. r \notin {"final-elf", "elf-text"} =>
               c \notin {"build-xbuild", "xbuild-disassembler"}
        BY <3>1, CommandsAre
      <4>2. QED
        BY <1>3, <1>5, <1>6, <1>7, <1>8, <3>1, <4>1
    <3>2. CASE r # OutputOf[c]
      BY <1>5, <1>9, <2>1, <3>2 DEF MadeBy, Made
    <3>3. QED
      BY <3>1, <3>2
  <2>2. ASSUME {"final-elf", "integrated-tree"} \subseteq DOMAIN disk'[s],
               disk'[s]["final-elf"] # Spoiled, disk'[s]["integrated-tree"] # Spoiled
        PROVE  disk'[s]["final-elf"].source = disk'[s]["integrated-tree"].source
    <3>1. CASE c \in {"python", "prepare-xbuild-source"}
      BY <1>5, <1>9, <2>2, <3>1, CommandsAre
    <3>2. CASE c = "build-xbuild"
      <4>1. /\ disk'[s]["final-elf"] = new
            /\ disk'[s]["integrated-tree"] = disk[s]["integrated-tree"]
        BY <1>5, <1>9, <3>2, CommandsAre
      <4>2. QED
        BY <1>8, <2>2, <3>2, <4>1
    <3>3. CASE c = "xbuild-disassembler"
      <4>1. /\ disk'[s]["final-elf"] = disk[s]["final-elf"]
            /\ disk'[s]["integrated-tree"] = disk[s]["integrated-tree"]
            /\ {"integrated-tree", "final-elf"} \subseteq DOMAIN disk[s]
        BY <1>5, <1>9, <3>3, CommandsAre
      <4>2. QED
        BY <1>9, <2>2, <4>1 DEF MadeBy, Made
    <3>4. QED
      BY <1>3, <3>1, <3>2, <3>3, CommandsAre
  <2>3. ASSUME {"elf-text", "final-elf"} \subseteq DOMAIN disk'[s],
               disk'[s]["elf-text"] # Spoiled, disk'[s]["final-elf"] # Spoiled
        PROVE  /\ disk'[s]["elf-text"].source = disk'[s]["final-elf"].source
               /\ disk'[s]["elf-text"].proves => disk'[s]["final-elf"].proves
    <3>1. c = "xbuild-disassembler"
      BY <1>3, <1>5, <1>9, <2>3, CommandsAre
    <3>2. /\ disk'[s]["elf-text"] = new
          /\ disk'[s]["final-elf"] = disk[s]["final-elf"]
      BY <1>5, <1>9, <3>1, CommandsAre
    <3>3. QED
      BY <1>8, <2>3, <3>1, <3>2
  <2>4. QED
    BY <1>2, <2>1, <2>2, <2>3 DEF MadeBy, Made
<1>11. ArtifactInv(s)'
  <2>1. /\ pc'[s] # "python" /\ pc'[s] # "manifest"
        /\ pc'[s] = "prepare-xbuild-source" => DOMAIN disk'[s] = {"python-stdout"}
        /\ pc'[s] = "build-xbuild" => DOMAIN disk'[s] = {"python-stdout", "integrated-tree"}
        /\ pc'[s] = "xbuild-disassembler" => DOMAIN disk'[s] = Roles \ {"elf-text"}
        /\ pc'[s] = "recheck" => Roles \subseteq DOMAIN disk'[s]
    BY <1>3, <1>4, <1>5, <1>9, CommandsAre
  <2>2. manifest[s] # None => MadeBy(s, manifest[s].artifact)'
    BY <1>2 DEF SessionInv, ArtifactInv, MadeBy
  <2>3. QED
    BY <1>2, <1>10, <2>1, <2>2 DEF SessionInv, ArtifactInv
<1>12. pc'[s] \in {"prepare-xbuild-source", "build-xbuild", "xbuild-disassembler", "recheck"}
  BY <1>3, <1>4, CommandsAre
<1>13. StageInv(s)'
  BY <1>2, <1>3, <1>12, StageNames, CommandsAre DEF SessionInv, StageInv, Stages
<1>14. DeriveInv(s)'
  BY <1>2, <1>12, DerivedKeeps DEF Deriving
<1>15. SealInv(s)'
  <2>1. pc[s] # "done" /\ pc'[s] \notin Sealing
    BY <1>2, <1>3, <1>12, StageNames DEF Sealing
  <2>2. QED
    BY <1>2, <2>1, SealKeeps DEF SameSeal
<1>16. QED
  BY <1>11, <1>13, <1>14, <1>15 DEF SessionInv

(* produce: the toolchain looked at before, the commands, the toolchain    *)
(* looked at again, the manifest.                                          *)
LEMMA ProduceKeeps ==
    ASSUME PerSession, NEW s \in Sessions, SessionInv(s), Produce(s)
    PROVE  SessionInv(s)'
<1>1. CASE BeginProduce(s)
  <2>1. /\ pc[s] = "produce" /\ pc'[s] = "python"
        /\ policy[s] # None /\ disk[s] = Empty
        /\ SameDerived(s) /\ SameSeal(s)
    BY <1>1, CommandsAre
       DEF BeginProduce, PerSession, Step, PolicyBound, machine, derived, reviewed, sealed,
           SameDerived, SameArtifacts, SameSeal
  <2>2. StageInv(s)'
    BY <2>1, StageNames, CommandsAre
       DEF SessionInv, StageInv, Stages, Unbound, SameDerived, SameArtifacts
  <2>3. ArtifactInv(s)'
    BY <2>1, EmptyIs DEF SessionInv, ArtifactInv, SameDerived, SameArtifacts, MadeBy
  <2>4. DeriveInv(s)'
    BY <2>1, DerivedKeeps DEF SameDerived, SameArtifacts, Deriving
  <2>5. SealInv(s)'
    BY <2>1, SealKeeps DEF Sealing
  <2>6. QED
    BY <2>2, <2>3, <2>4, <2>5 DEF SessionInv
<1>2. CASE RecheckToolchain(s)
  <2>1. /\ pc[s] = "recheck" /\ pc'[s] = "manifest" /\ SameDerived(s) /\ SameSeal(s)
    BY <1>2 DEF RecheckToolchain, PerSession, Step, machine, produced, derived, reviewed,
                sealed, SameDerived, SameArtifacts, SameSeal
  <2>2. StageInv(s)'
    BY <2>1, StageKeeps DEF SameDerived, Stages, Unbound
  <2>3. ArtifactInv(s)'
    BY <2>1 DEF SessionInv, ArtifactInv, SameDerived, SameArtifacts, MadeBy
  <2>4. DeriveInv(s)'
    BY <2>1, DerivedKeeps DEF SameDerived, SameArtifacts, Deriving
  <2>5. SealInv(s)'
    BY <2>1, SealKeeps DEF Sealing
  <2>6. QED
    BY <2>2, <2>3, <2>4, <2>5 DEF SessionInv
<1>3. CASE WriteManifest(s)
  <2>1. /\ pc[s] = "manifest" /\ pc'[s] = "derive"
        /\ manifest'[s] = [session |-> s, before |-> toolBefore[s], after |-> tool,
                           artifact |-> disk[s], owner |-> [r \in Roles |-> OwnerFor(r)]]
        /\ disk'[s] = disk[s] /\ clone'[s] = clone[s] /\ policy'[s] = policy[s]
        /\ seen'[s] = seen[s] /\ run'[s] = run[s] /\ facts'[s] = facts[s]
        /\ UNCHANGED <<tool, sdk>> /\ SameSeal(s)
    BY <1>3 DEF WriteManifest, PerSession, Step, machine, derived, reviewed, sealed, SameSeal
  <2>2. StageInv(s)'
    BY <2>1 DEF SessionInv, StageInv, Stages, Unbound
  <2>3. ArtifactInv(s)'
    <3>1. manifest'[s].artifact = disk[s]
          /\ {"artifact", "session"} \subseteq DOMAIN manifest'[s]
      BY <2>1
    <3>2. Roles \subseteq DOMAIN disk[s] /\ MadeBy(s, disk[s])
      BY <2>1 DEF SessionInv, ArtifactInv
    <3>3. QED
      BY <2>1, <3>1, <3>2 DEF ArtifactInv, MadeBy
  <2>4. DeriveInv(s)'
    BY <2>1, DerivedKeeps DEF Deriving
  <2>5. SealInv(s)'
    BY <2>1, SealKeeps DEF Sealing
  <2>6. QED
    BY <2>2, <2>3, <2>4, <2>5 DEF SessionInv
<1>4. QED
  BY <1>1, <1>2, <1>3, RunCommandKeeps DEF Produce

-----------------------------------------------------------------------------
(* Deriving the run record and reviewing it.                               *)

(* derive reads the manifest, then compares the artifacts with it.         *)
LEMMA DeriveInputsKeeps ==
    ASSUME PerSession, NEW s \in Sessions, SessionInv(s), DeriveInputs(s)
    PROVE  SessionInv(s)'
<1>1. /\ pc[s] = "derive" /\ pc'[s] = "derive-artifacts" /\ manifest[s] # None
      /\ seen'[s] = manifest[s] /\ SameArtifacts(s) /\ SameSeal(s)
      /\ run'[s] = run[s] /\ facts'[s] = facts[s]
  BY DEF DeriveInputs, PerSession, Step, machine, produced, reviewed, sealed, SameArtifacts,
         SameSeal
<1>2. StageInv(s)'
  BY <1>1, StageKeeps DEF Stages, Unbound
<1>3. ArtifactInv(s)'
  BY <1>1, ArtifactsKeep, CommandsAre
<1>4. DeriveInv(s)'
  <2>1. Roles \subseteq DOMAIN manifest[s].artifact /\ MadeBy(s, manifest[s].artifact)
    BY <1>1 DEF SessionInv, ArtifactInv
  <2>2. QED
    BY <1>1, <2>1 DEF SessionInv, DeriveInv, MadeBy, SameArtifacts, RunHolds
<1>5. SealInv(s)'
  BY <1>1, SealKeeps DEF Sealing
<1>6. QED
  BY <1>2, <1>3, <1>4, <1>5 DEF SessionInv

(* derive has seen the artifacts it will name, from an intact clone.       *)
LEMMA DeriveArtifactsKeeps ==
    ASSUME PerSession, NEW s \in Sessions, SessionInv(s), DeriveArtifacts(s)
    PROVE  SessionInv(s)'
<1>1. /\ pc[s] = "derive-artifacts" /\ pc'[s] = "derive-identity"
      /\ clone[s] = "candidate" /\ \A r \in Roles : disk[s][r] = seen[s].artifact[r]
      /\ SameDerived(s) /\ SameSeal(s)
  BY DEF DeriveArtifacts, ClosureIntact, ArtifactsMatch, PerSession, Step, machine, produced,
         derived, reviewed, sealed, SameDerived, SameArtifacts, SameSeal
<1>2. StageInv(s)'
  BY <1>1, StageKeeps DEF Stages, Unbound, SameDerived
<1>3. ArtifactInv(s)'
  BY <1>1, ArtifactsKeep, CommandsAre DEF SameDerived
<1>4. Roles \subseteq DOMAIN seen[s].artifact /\ MadeBy(s, seen[s].artifact)
  BY <1>1 DEF SessionInv, DeriveInv
<1>5. \A r \in Roles \ {"final-elf", "elf-text"} : seen[s].artifact[r] # Spoiled =>
          seen[s].artifact[r].source = "candidate"
  BY <1>1, <1>4 DEF MadeBy, Made
<1>6. DeriveInv(s)'
  BY <1>1, <1>4, <1>5 DEF SessionInv, DeriveInv, MadeBy, SameDerived, SameArtifacts, RunHolds
<1>7. SealInv(s)'
  BY <1>1, SealKeeps DEF Sealing
<1>8. QED
  BY <1>2, <1>3, <1>6, <1>7 DEF SessionInv

(* The versions are squeezed between the policy's and the live ones, which *)
(* are the same here; the rest has been seen since.                        *)
LEMMA IdentityPins ==
    ASSUME PerSession, NEW s \in Sessions, SessionInv(s), DeriveIdentity(s)
    PROVE  Pinned(seen[s], policy[s])
<1> DEFINE a(r) == seen[s].artifact[r]
<1>1. /\ pc[s] = "derive-identity"
      /\ tool = policy[s].tool /\ sdk = policy[s].sdk
      /\ \A r \in Roles : /\ seen[s].owner[r] \in Commands
                          /\ OutputOf[seen[s].owner[r]] = r
      /\ a("python-stdout") # Spoiled => a("python-stdout").proves
      /\ a("elf-text") # Spoiled => a("elf-text").proves
      /\ disk[s]["integrated-tree"] # Spoiled
  BY DEF DeriveIdentity, Step, ToolchainPinned, OwnersBound, RegressionsPassed, Proves,
         TreesExpected, RuntimeCoreLinked
<1>2. /\ Roles \subseteq DOMAIN seen[s].artifact /\ MadeBy(s, seen[s].artifact)
      /\ \A r \in Roles : disk[s][r] \in {a(r), Spoiled}
      /\ \A r \in Roles \ {"final-elf", "elf-text"} :
            a(r) # Spoiled => a(r).source = "candidate"
  BY <1>1 DEF SessionInv, DeriveInv
<1>3. a("integrated-tree") # Spoiled
  BY <1>1, <1>2, CommandsAre
<1>4. \A r \in Roles : a(r) # Spoiled => a(r).by = seen[s].owner[r]
  BY <1>1, <1>2, OneOwner DEF MadeBy, Made
<1>5. \A r \in Roles : a(r) # Spoiled =>
         a(r).tool = policy[s].tool /\ a(r).sdk = policy[s].sdk
  <2>1. /\ tool \in Nat /\ sdk \in Nat /\ policy[s].tool \in Nat /\ policy[s].sdk \in Nat
    BY <1>1 DEF PerSession
  <2>2. \A r \in Roles : a(r) # Spoiled =>
           /\ a(r).tool \in Nat /\ policy[s].tool <= a(r).tool /\ a(r).tool <= tool
           /\ a(r).sdk \in Nat /\ policy[s].sdk <= a(r).sdk /\ a(r).sdk <= sdk
    BY <1>2 DEF MadeBy, Made
  <2> HIDE DEF a
  <2>3. QED
    BY <1>1, <2>1, <2>2
<1>6. \A r \in Roles \ {"elf-text"} : a(r) # Spoiled => a(r).source = "candidate"
  <2>1. a("final-elf") # Spoiled => a("final-elf").source = a("integrated-tree").source
    BY <1>2, <1>3, CommandsAre DEF MadeBy, Made
  <2>2. QED
    BY <1>2, <1>3, <2>1, CommandsAre
<1>7. a("final-elf") # Spoiled /\ a("elf-text") # Spoiled =>
         a("final-elf").proves /\ a("elf-text").source = "candidate"
  <2>1. a("final-elf") # Spoiled /\ a("elf-text") # Spoiled =>
           /\ a("elf-text").source = a("final-elf").source
           /\ a("elf-text").proves => a("final-elf").proves
    BY <1>2, CommandsAre DEF MadeBy, Made
  <2>2. QED
    BY <1>1, <1>6, <2>1, CommandsAre
<1>8. QED
  BY <1>1, <1>3, <1>4, <1>5, <1>6, <1>7 DEF Pinned

(* derive's own look at the toolchain, the last before the run record.     *)
LEMMA DeriveIdentityKeeps ==
    ASSUME PerSession, NEW s \in Sessions, SessionInv(s), DeriveIdentity(s)
    PROVE  SessionInv(s)'
<1>1. /\ pc[s] = "derive-identity" /\ pc'[s] = "derive-record"
      /\ SameDerived(s) /\ SameSeal(s)
  BY DEF DeriveIdentity, PerSession, Step, machine, produced, derived, reviewed, sealed,
         SameDerived, SameArtifacts, SameSeal
<1>2. StageInv(s)'
  BY <1>1, StageKeeps DEF Stages, Unbound, SameDerived
<1>3. ArtifactInv(s)'
  BY <1>1, ArtifactsKeep, CommandsAre DEF SameDerived
<1>4. DeriveInv(s)'
  BY <1>1, IdentityPins
     DEF SessionInv, DeriveInv, SameDerived, SameArtifacts, RunHolds
<1>5. SealInv(s)'
  BY <1>1, SealKeeps DEF Sealing
<1>6. QED
  BY <1>2, <1>3, <1>4, <1>5 DEF SessionInv

(* The run manifest and the facts.                                         *)
LEMMA RecordKeeps ==
    ASSUME PerSession, NEW s \in Sessions, SessionInv(s), WriteRunManifest(s) \/ WriteFacts(s)
    PROVE  SessionInv(s)'
<1>1. CASE WriteRunManifest(s)
  <2>1. /\ pc[s] = "derive-record" /\ pc'[s] = "derive-facts" /\ facts[s] = None
        /\ run'[s] = [session |-> s, policy |-> policy[s], manifest |-> seen[s], tool |-> tool]
        /\ SameArtifacts(s) /\ SameSeal(s) /\ seen'[s] = seen[s] /\ facts'[s] = facts[s]
    BY <1>1 DEF WriteRunManifest, PerSession, Step, machine, produced, reviewed, sealed,
                SameArtifacts, SameSeal
  <2>2. StageInv(s)'
    BY <2>1, StageKeeps DEF Stages, Unbound
  <2>3. ArtifactInv(s)'
    BY <2>1, ArtifactsKeep, CommandsAre
  <2>4. /\ policy[s].session = s /\ Pinned(seen[s], policy[s])
    BY <2>1 DEF SessionInv, StageInv, DeriveInv, Unbound
  <2>5. /\ run'[s].session = s /\ run'[s].policy = policy[s] /\ run'[s].manifest = seen[s]
    BY <2>1
  <2>6. DeriveInv(s)'
    BY <2>1, <2>4, <2>5 DEF DeriveInv, RunHolds, SameArtifacts, Written
  <2>7. SealInv(s)'
    BY <2>1, SealKeeps DEF Sealing
  <2>8. QED
    BY <2>2, <2>3, <2>6, <2>7 DEF SessionInv
<1>2. CASE WriteFacts(s)
  <2>1. /\ pc[s] = "derive-facts" /\ pc'[s] = "fixture"
        /\ facts'[s] = [session |-> s, policy |-> run[s].policy,
                        manifest |-> run[s].manifest, run |-> run[s]]
        /\ SameArtifacts(s) /\ SameSeal(s) /\ seen'[s] = seen[s] /\ run'[s] = run[s]
    BY <1>2 DEF WriteFacts, PerSession, Step, machine, produced, reviewed, sealed,
                SameArtifacts, SameSeal
  <2>2. StageInv(s)'
    BY <2>1, StageKeeps DEF Stages, Unbound
  <2>3. ArtifactInv(s)'
    BY <2>1, ArtifactsKeep, CommandsAre
  <2>4. RunHolds(s)
    BY <2>1 DEF SessionInv, DeriveInv
  <2>5. facts'[s].session = s /\ facts'[s].policy = policy[s]
    BY <2>1, <2>4 DEF RunHolds
  <2>6. DeriveInv(s)'
    BY <2>1, <2>4, <2>5 DEF DeriveInv, RunHolds, SameArtifacts
  <2>7. SealInv(s)'
    BY <2>1, SealKeeps DEF Sealing
  <2>8. QED
    BY <2>2, <2>3, <2>6, <2>7 DEF SessionInv
<1>3. QED
  BY <1>1, <1>2

(* What a step of the review leaves alone once the facts are written.      *)
LEMMA LateKeeps ==
    ASSUME NEW s \in Sessions, SessionInv(s), SameDerived(s), pc'[s] \in Late,
           pc[s] \in Unbound => pc'[s] \in Unbound
    PROVE  StageInv(s)' /\ ArtifactInv(s)' /\ DeriveInv(s)'
<1>1. /\ pc'[s] \in Stages /\ pc'[s] \notin {"new", "policy"} /\ pc'[s] \notin Deriving
      /\ pc'[s] \notin Commands \cup {"recheck", "manifest"}
  BY CommandsAre DEF Late, Sealing, Stages, Deriving
<1>2. QED
  BY <1>1, StageKeeps, ArtifactsKeep, DerivedKeeps DEF SameDerived, SameArtifacts

(* The fixture, the matrix and its receipt.                                *)
LEMMA ReviewKeeps ==
    ASSUME PerSession, NEW s \in Sessions, SessionInv(s), Review(s) \/ Stop(s)
    PROVE  SessionInv(s)'
<1> USE DEF PerSession, Step, machine, produced, derived, reviewed, sealed, SameDerived,
            SameArtifacts, SameSeal
<1>1. CASE PrepareFixture(s)
  <2>1. pc[s] = "fixture" /\ pc'[s] = "matrix" /\ SameDerived(s) /\ SameSeal(s)
    BY <1>1 DEF PrepareFixture
  <2>2. QED
    BY <2>1, LateKeeps, SealKeeps DEF SessionInv, Late, Sealing, Unbound
<1>2. CASE ConsumeFixture(s)
  <2>1. /\ pc[s] = "matrix" /\ pc'[s] = "cases" /\ SameDerived(s) /\ consumed'[s] = TRUE
        /\ UNCHANGED <<receipt, seal, loaded, accepted>>
    BY <1>2 DEF ConsumeFixture
  <2>2. SealInv(s)'
    BY <2>1 DEF SessionInv, SealInv, Sealing
  <2>3. QED
    BY <2>1, <2>2, LateKeeps DEF SessionInv, Late, Sealing, Unbound
<1>3. CASE WriteReceipt(s)
  <2>1. PICK ran \in SUBSET Cases, passed \in SUBSET Cases :
           receipt'[s] = [session |-> s, facts |-> fixture[s].facts, fixture |-> fixture[s],
                          consumedOnce |-> consumed[s], ran |-> ran, passed |-> passed]
    BY <1>3 DEF WriteReceipt
  <2>2. receipt'[s].session = s /\ receipt'[s].consumedOnce = consumed[s]
    BY <2>1
  <2>3. /\ pc[s] = "cases" /\ pc'[s] = "finalize" /\ SameDerived(s)
        /\ UNCHANGED <<consumed, seal, loaded, accepted>>
    BY <1>3 DEF WriteReceipt
  <2>4. SealInv(s)'
    BY <2>2, <2>3 DEF SessionInv, SealInv, Sealing
  <2>5. QED
    BY <2>3, <2>4, LateKeeps DEF SessionInv, Late, Sealing, Unbound
<1>4. CASE Stop(s)
  <2>1. pc[s] # "done" /\ pc'[s] = "failed" /\ SameDerived(s) /\ SameSeal(s)
    BY <1>4 DEF Stop, Running
  <2>2. QED
    BY <2>1, LateKeeps, SealKeeps DEF SessionInv, Late, Sealing, Unbound
<1>5. QED
  BY <1>1, <1>2, <1>3, <1>4 DEF Review

-----------------------------------------------------------------------------
(* Sealing.                                                                *)

(* Whatever files finalize is given, those it takes are one chain: each of *)
(* them names the session of the policy.                                   *)
LEMMA ChecksKeep ==
    ASSUME PerSession, \A x \in Sessions : SessionInv(x), NEW s \in Sessions, FinalizeChecks(s)
    PROVE  SessionInv(s)'
<1>1. PICK f, r, x \in Sessions :
         /\ FactsBound(s, f)
         /\ ReceiptBinds(receipt[r], facts[f]) /\ ReceiptOfSession(receipt[r], policy[s])
         /\ MatrixComplete(receipt[r])
         /\ receipt[r].fixture = fixture[x]
         /\ FixtureVerifies(fixture[x], receipt[r].session, run[f], facts[f])
         /\ loaded' = [loaded EXCEPT ![s] = [run |-> run[f], facts |-> facts[f],
                          receipt |-> receipt[r], matrixOf |-> r, fixtureOf |-> x]]
  BY DEF FinalizeChecks
<1>2. /\ pc[s] = "finalize" /\ pc'[s] = "copy" /\ seal[s] = Empty /\ SameDerived(s)
      /\ UNCHANGED <<consumed, receipt, seal, accepted>>
  BY DEF FinalizeChecks, PerSession, Step, machine, produced, derived, reviewed,
         SameDerived, SameArtifacts
<1>3. policy[s].session = s
  BY <1>2 DEF SessionInv, StageInv, Unbound
<1>4. /\ Written(facts[f]) /\ facts[f].run = run[f] /\ facts[f].policy = policy[s]
  BY <1>1 DEF FactsBound
<1>5. /\ RunHolds(f) /\ facts[f].session = f /\ facts[f].policy = policy[f]
  BY <1>4 DEF SessionInv, DeriveInv
<1>6. f = s
  BY <1>3, <1>4, <1>5 DEF RunHolds
<1>7. /\ Written(receipt[r]) /\ receipt[r].facts = facts[f] /\ receipt[r].session = s
      /\ receipt[r].ran = Cases /\ receipt[r].passed = Cases /\ receipt[r].consumedOnce
  BY <1>1, <1>3 DEF ReceiptBinds, ReceiptOfSession, MatrixComplete
<1>8. r = s /\ consumed[s]
  BY <1>7 DEF SessionInv, SealInv
<1>9. fixture[x].session = s /\ fixture[x].facts = facts[f]
  BY <1>1, <1>7 DEF FixtureVerifies
<1>10. /\ loaded'[s].run = run[f] /\ loaded'[s].facts = facts[f]
       /\ loaded'[s].receipt = receipt[r]
  BY <1>1 DEF PerSession
<1>11. OneChainIn(loaded'[s], s)
  BY <1>1, <1>4, <1>5, <1>6, <1>7, <1>8, <1>9, <1>10 DEF OneChainIn, RunHolds
<1>12. SealInv(s)'
  BY <1>2, <1>8, <1>11, EmptyIs DEF SessionInv, SealInv
<1>13. QED
  BY <1>2, <1>12, LateKeeps DEF SessionInv, Late, Sealing, Unbound

(* Adding a file to the seal.                                              *)
LEMMA SealGrows ==
    ASSUME NEW s \in Sessions, SessionInv(s), pc[s] \in {"copy", "result", "sums"},
           pc'[s] \in Sealing \ {"done"}, SameDerived(s),
           consumed'[s] = consumed[s], receipt'[s] = receipt[s], loaded'[s] = loaded[s],
           accepted' = accepted, DOMAIN seal[s] \subseteq DOMAIN seal'[s],
           \A n \in Inputs : /\ n \in DOMAIN seal'[s] =>
                                \/ n \in DOMAIN seal[s] /\ seal'[s][n] = seal[s][n]
                                \/ seal'[s][n] = Recorded(loaded[s].run, n)
    PROVE  SessionInv(s)'
<1>1. consumed[s] /\ OneChainIn(loaded[s], s) /\ s \notin accepted
  BY DEF SessionInv, SealInv, Sealing
<1>2. \A n \in Inputs : n \in DOMAIN seal'[s] =>
          seal'[s][n] \in {Recorded(loaded'[s].run, n), Marred}
  BY DEF SessionInv, SealInv
<1>3. SealInv(s)'
  BY <1>1, <1>2 DEF SessionInv, SealInv, Sealing
<1>4. QED
  BY <1>3, LateKeeps DEF SessionInv, Late, Sealing, Unbound

(* The reviewed inputs are copied one by one, in a fixed order.            *)
LEMMA CopyKeeps ==
    ASSUME PerSession, NEW s \in Sessions, SessionInv(s), NEW i \in DOMAIN InputOrder,
           CopyInput(s, i)
    PROVE  SessionInv(s)'
<1> DEFINE n == InputOrder[i]
<1>1. /\ pc[s] = "copy" /\ UNCHANGED pc /\ SameDerived(s)
      /\ UNCHANGED <<consumed, receipt, loaded, accepted>>
      /\ SourceInput(s, n) = Recorded(loaded[s].run, n)
      /\ seal' = [seal EXCEPT ![s] = Extend(seal[s], n, SourceInput(s, n))]
  BY DEF CopyInput, InputUnchanged, machine, produced, derived, reviewed, SameDerived,
         SameArtifacts
<1>2. n \in Inputs
  BY SealNames
<1> HIDE DEF n
<1>3. seal'[s] = Extend(seal[s], n, Recorded(loaded[s].run, n))
  BY <1>1 DEF PerSession
<1>4. /\ DOMAIN seal'[s] = DOMAIN seal[s] \cup {n}
      /\ seal'[s][n] = Recorded(loaded[s].run, n)
      /\ \A m \in DOMAIN seal[s] : m # n => seal'[s][m] = seal[s][m]
  BY <1>3 DEF Extend
<1>5. \A m \in Inputs : m \in DOMAIN seal'[s] =>
          \/ m \in DOMAIN seal[s] /\ seal'[s][m] = seal[s][m]
          \/ seal'[s][m] = Recorded(loaded[s].run, m)
  BY <1>4
<1>6. QED
  BY <1>1, <1>4, <1>5, SealGrows DEF Sealing

(* The result, then the sums.                                              *)
LEMMA WriteSealKeeps ==
    ASSUME PerSession, NEW s \in Sessions, SessionInv(s),
           CopyReviewerFiles(s) \/ WriteResult(s) \/ WriteSums(s)
    PROVE  SessionInv(s)'
<1>1. /\ SameDerived(s) /\ UNCHANGED <<consumed, receipt, loaded, accepted>>
  BY DEF CopyReviewerFiles, WriteResult, WriteSums, machine, produced, derived, reviewed,
         SameDerived, SameArtifacts
<1>2. CASE CopyReviewerFiles(s)
  <2>1. /\ pc[s] = "copy" /\ pc'[s] = "result" /\ DOMAIN seal[s] = Inputs
        /\ \E v : seal'[s] = Extend(seal[s], "reviewer", v)
    BY <1>2 DEF CopyReviewerFiles, Step, PerSession
  <2>2. /\ DOMAIN seal'[s] = DOMAIN seal[s] \cup {"reviewer"}
        /\ \A m \in DOMAIN seal[s] : m # "reviewer" => seal'[s][m] = seal[s][m]
    BY <2>1 DEF Extend
  <2>3. QED
    BY <1>1, <2>1, <2>2, SealNames, SealGrows DEF Sealing
<1>3. CASE WriteResult(s)
  <2>1. /\ pc[s] = "result" /\ pc'[s] = "sums"
        /\ \E u, v, w : seal'[s] = Extend(Extend(Extend(seal[s], "run-manifest", u),
                                                 "facts", v), "result", w)
    BY <1>3 DEF WriteResult, Step, PerSession
  <2>2. /\ DOMAIN seal'[s] = DOMAIN seal[s] \cup {"run-manifest", "facts", "result"}
        /\ \A m \in DOMAIN seal[s] : m \notin {"run-manifest", "facts", "result"} =>
              seal'[s][m] = seal[s][m]
    BY <2>1 DEF Extend
  <2>3. QED
    BY <1>1, <2>1, <2>2, SealNames, SealGrows DEF Sealing
<1>4. CASE WriteSums(s)
  <2>1. /\ pc[s] = "sums" /\ pc'[s] = "verify"
        /\ \E v : seal'[s] = Extend(seal[s], "SHA256SUMS", v)
    BY <1>4 DEF WriteSums, Step, PerSession
  <2>2. /\ DOMAIN seal'[s] = DOMAIN seal[s] \cup {"SHA256SUMS"}
        /\ \A m \in DOMAIN seal[s] : m # "SHA256SUMS" => seal'[s][m] = seal[s][m]
    BY <2>1 DEF Extend
  <2>3. QED
    BY <1>1, <2>1, <2>2, SealNames, SealGrows DEF Sealing
<1>5. QED
  BY <1>2, <1>3, <1>4

(* verify_final.                                                           *)
LEMMA VerifyKeeps ==
    ASSUME PerSession, NEW s \in Sessions, SessionInv(s), VerifyFinal(s)
    PROVE  SessionInv(s)'
<1>1. /\ pc[s] = "verify" /\ pc'[s] = "done" /\ accepted' = accepted \cup {s}
      /\ SameDerived(s) /\ UNCHANGED <<consumed, receipt, seal, loaded>>
  BY DEF VerifyFinal, PerSession, Step, machine, produced, derived, reviewed, SameDerived,
         SameArtifacts
<1>2. SealInv(s)'
  BY <1>1 DEF SessionInv, SealInv, Sealing
<1>3. QED
  BY <1>1, <1>2, LateKeeps DEF SessionInv, Late, Sealing, Unbound

-----------------------------------------------------------------------------
(* The chain.                                                              *)

(* Every step of a session keeps the invariant of all of them.             *)
LEMMA SessionStepKeeps ==
    ASSUME ChainInv, NEW s \in Sessions, SessionStep(s)
    PROVE  ChainInv'
<1>1. PerSession /\ \A x \in Sessions : SessionInv(x)
  BY DEF ChainInv
<1>2. PerSession' /\ Later /\ \A x \in Sessions : x # s => Same(x)
  BY <1>1, OthersAlone
<1>3. \A x \in Sessions : x # s => SessionInv(x)'
  BY <1>1, <1>2, SameKeeps
<1>4. SessionInv(s)'
  <2>1. CASE StartSession(s) \/ BuildPolicy(s) \/ Produce(s)
    BY <1>1, <2>1, StartKeeps, ProduceKeeps
  <2>2. CASE Derive(s)
    BY <1>1, <2>2, DeriveInputsKeeps, DeriveArtifactsKeeps, DeriveIdentityKeeps, RecordKeeps
       DEF Derive
  <2>3. CASE Review(s) \/ Stop(s)
    BY <1>1, <2>3, ReviewKeeps
  <2>4. CASE Finalize(s)
    BY <1>1, <2>4, ChecksKeep, CopyKeeps, WriteSealKeeps DEF Finalize
  <2>5. CASE VerifyFinal(s)
    BY <1>1, <2>5, VerifyKeeps
  <2>6. QED
    BY <2>1, <2>2, <2>3, <2>4, <2>5 DEF SessionStep
<1>5. QED
  BY <1>2, <1>3, <1>4 DEF ChainInv

(* Damaged artifacts are Spoiled, and nothing is claimed of those.         *)
LEMMA SpoiledMade ==
    ASSUME NEW art, NEW p, NEW c, NEW t, NEW k, Made(art, p, c, t, k), NEW r \in DOMAIN art
    PROVE  Made([art EXCEPT ![r] = Spoiled], p, c, t, k)
<1> DEFINE b == [art EXCEPT ![r] = Spoiled]
<1>1. DOMAIN b = DOMAIN art /\ \A q \in DOMAIN art : b[q] = art[q] \/ b[q] = Spoiled
  OBVIOUS
<1> HIDE DEF b
<1>2. Made(b, p, c, t, k)
  BY <1>1 DEF Made
<1>3. QED
  BY <1>2 DEF b

(* A bit flips in the clone, an artifact or the manifest's owners.         *)
LEMMA DamageProducedKeeps ==
    ASSUME PerSession, NEW s \in Sessions, SessionInv(s), DamageProduced(s),
           UNCHANGED <<tool, sdk, pc>>
    PROVE  PerSession' /\ (\A x \in Sessions : x # s => Same(x)) /\ SessionInv(s)'
<1>1. /\ UNCHANGED <<tool, sdk, pc, policy, seen, run, facts, consumed, receipt, seal, loaded,
                     accepted, toolBefore, fixture>>
  BY DEF DamageProduced, derived, reviewed, sealed
<1>2. PerSession' /\ \A x \in Sessions : x # s => Same(x)
  BY <1>1 DEF DamageProduced, PerSession, Same
<1>3. SealInv(s)'
  BY <1>1 DEF SessionInv, SealInv
<1>4. ASSUME NEW damaged \in {"edited", Spoiled}, clone' = [clone EXCEPT ![s] = damaged],
             UNCHANGED <<policyKept, disk, manifest>>
      PROVE  SessionInv(s)'
  <2>1. clone'[s] \in {"edited", Spoiled}
    BY <1>4 DEF PerSession
  <2>2. clone'[s] # "candidate"
    BY <2>1, MarkersAssumption
  <2>3. \A art : MadeBy(s, art) => Made(art, policy[s], clone'[s], tool, sdk)
    BY <2>2, MadeStays DEF MadeBy, PerSession
  <2>4. StageInv(s)'
    BY <1>1, <1>4, <2>1 DEF SessionInv, StageInv, Sources
  <2>5. ArtifactInv(s)'
    BY <1>1, <1>4, <2>3 DEF SessionInv, ArtifactInv, MadeBy
  <2>6. DeriveInv(s)'
    BY <1>1, <1>4, <2>3 DEF SessionInv, DeriveInv, MadeBy, RunHolds
  <2>7. QED
    BY <1>2, <1>3, <2>4, <2>5, <2>6 DEF SessionInv
<1>5. CASE UNCHANGED <<clone, disk, manifest>>
  <2>1. SameArtifacts(s) /\ pc'[s] = pc[s]
    BY <1>1, <1>5 DEF SameArtifacts
  <2>2. StageInv(s)' /\ ArtifactInv(s)' /\ DeriveInv(s)'
    BY <1>1, <1>5 DEF SessionInv, StageInv, ArtifactInv, DeriveInv, MadeBy, RunHolds
  <2>3. QED
    BY <1>2, <1>3, <2>2 DEF SessionInv
<1>6. ASSUME NEW r \in DOMAIN disk[s], disk' = [disk EXCEPT ![s][r] = Spoiled],
             UNCHANGED <<clone, policyKept, manifest>>
      PROVE  SessionInv(s)'
  <2>1. disk'[s] = [disk[s] EXCEPT ![r] = Spoiled]
    BY <1>6 DEF PerSession
  <2>2. /\ DOMAIN disk'[s] = DOMAIN disk[s]
        /\ \A q \in DOMAIN disk[s] : disk'[s][q] = disk[s][q] \/ disk'[s][q] = Spoiled
    BY <2>1
  <2>3. MadeBy(s, disk[s])'
    <3>1. Made(disk[s], policy[s], clone[s], tool, sdk)
      BY DEF SessionInv, ArtifactInv, MadeBy
    <3>2. \A art, p, c, t, k : Made(art, p, c, t, k) =>
             \A q \in DOMAIN art : Made([art EXCEPT ![q] = Spoiled], p, c, t, k)
      BY SpoiledMade
    <3>3. Made(disk'[s], policy[s], clone[s], tool, sdk)
      BY <2>1, <3>1, <3>2
    <3>4. QED
      BY <1>1, <1>6, <3>3 DEF MadeBy
  <2>4. disk[s] # Empty
    BY EmptyIs
  <2>5. StageInv(s)'
    BY <1>1, <1>6, <2>4 DEF SessionInv, StageInv
  <2>6. ArtifactInv(s)'
    BY <1>1, <1>6, <2>2, <2>3, <2>4 DEF SessionInv, ArtifactInv, MadeBy
  <2>7. pc[s] = "derive-identity" =>
           \A q \in Roles : disk'[s][q] \in {seen[s].artifact[q], Spoiled}
    <3> SUFFICES ASSUME pc[s] = "derive-identity", NEW q \in Roles
                 PROVE  disk'[s][q] \in {seen[s].artifact[q], Spoiled}
      OBVIOUS
    <3>1. disk[s][q] \in {seen[s].artifact[q], Spoiled}
      BY DEF SessionInv, DeriveInv
    <3>2. CASE q = r
      BY <2>1, <3>2
    <3>3. CASE q # r
      <4>1. disk'[s][q] = disk[s][q]
        BY <2>1, <3>3
      <4>2. QED
        BY <3>1, <4>1
    <3>4. QED
      BY <3>2, <3>3
  <2>8. DeriveInv(s)'
    BY <1>1, <1>6, <2>7 DEF SessionInv, DeriveInv, MadeBy, RunHolds
  <2>9. QED
    BY <1>3, <2>5, <2>6, <2>8 DEF SessionInv
<1>7. ASSUME Written(manifest[s]), NEW r \in Roles, NEW c \in Commands,
             manifest' = [manifest EXCEPT ![s].owner[r] = c],
             UNCHANGED <<clone, policyKept, disk>>
      PROVE  SessionInv(s)'
  <2>1. manifest[s] # None /\ {"artifact", "session"} \subseteq DOMAIN manifest[s]
    BY <1>7 DEF Written, SessionInv, ArtifactInv
  <2>2. manifest'[s] = [manifest[s] EXCEPT !.owner[r] = c]
    BY <1>7 DEF PerSession
  <2>3. DOMAIN manifest'[s] = DOMAIN manifest[s]
        /\ manifest'[s].artifact = manifest[s].artifact
    BY <2>1, <2>2
  <2>4. StageInv(s)'
    BY <1>1, <1>7, <2>1 DEF SessionInv, StageInv
  <2>5. ArtifactInv(s)'
    BY <1>1, <1>7, <2>1, <2>3 DEF SessionInv, ArtifactInv, MadeBy
  <2>6. DeriveInv(s)'
    BY <1>1, <1>7 DEF SessionInv, DeriveInv, MadeBy, RunHolds
  <2>7. QED
    BY <1>3, <2>4, <2>5, <2>6 DEF SessionInv
<1>8. SessionInv(s)'
  BY <1>4, <1>5, <1>6, <1>7 DEF DamageProduced
<1>9. QED
  BY <1>2, <1>8

(* A bit flips in the facts, the receipt or the seal.                      *)
LEMMA DamageReviewedKeeps ==
    ASSUME PerSession, NEW s \in Sessions, SessionInv(s), DamageReviewed(s),
           UNCHANGED <<tool, sdk, pc>>
    PROVE  PerSession' /\ (\A x \in Sessions : x # s => Same(x)) /\ SessionInv(s)'
<1>1. UNCHANGED <<tool, sdk, pc, clone, policy, policyKept, disk, toolBefore, manifest, seen,
                  run, consumed, loaded, accepted>>
  BY DEF DamageReviewed, produced
<1>2. PerSession' /\ \A x \in Sessions : x # s => Same(x)
  BY <1>1 DEF DamageReviewed, PerSession, Same
<1>3. ArtifactInv(s)'
  BY <1>1 DEF SessionInv, ArtifactInv, MadeBy
<1>4. CASE Written(facts[s]) /\ facts' = [facts EXCEPT ![s] = Spoiled]
           /\ UNCHANGED <<fixture, receipt, seal>>
  <2>1. facts'[s] = Spoiled /\ facts[s] # None
    BY <1>4 DEF PerSession, Written
  <2>2. StageInv(s)' /\ SealInv(s)'
    BY <1>1, <1>4, <2>1 DEF SessionInv, StageInv, SealInv
  <2>3. DeriveInv(s)'
    BY <1>1, <2>1 DEF SessionInv, DeriveInv, MadeBy, RunHolds, Written
  <2>4. QED
    BY <1>2, <1>3, <2>2, <2>3 DEF SessionInv
<1>5. CASE UNCHANGED <<facts, receipt, seal>>
  BY <1>1, <1>2, <1>3, <1>5 DEF SessionInv, StageInv, DeriveInv, SealInv, MadeBy, RunHolds
<1>6. CASE Written(receipt[s]) /\ receipt' = [receipt EXCEPT ![s] = Spoiled]
           /\ UNCHANGED <<facts, fixture, seal>>
  <2>1. receipt'[s] = Spoiled
    BY <1>6 DEF PerSession
  <2>2. SealInv(s)'
    BY <1>1, <1>6, <2>1 DEF SessionInv, SealInv, Written
  <2>3. StageInv(s)' /\ DeriveInv(s)'
    BY <1>1, <1>6 DEF SessionInv, StageInv, DeriveInv, MadeBy, RunHolds
  <2>4. QED
    BY <1>2, <1>3, <2>2, <2>3 DEF SessionInv
<1>7. ASSUME NEW n \in DOMAIN seal[s], seal' = [seal EXCEPT ![s][n] = Marred],
             UNCHANGED <<facts, fixture, receipt>>
      PROVE  SessionInv(s)'
  <2>1. seal'[s] = [seal[s] EXCEPT ![n] = Marred]
    BY <1>7 DEF PerSession
  <2>2. /\ DOMAIN seal'[s] = DOMAIN seal[s] /\ seal[s] # Empty
        /\ \A m \in DOMAIN seal[s] : seal'[s][m] = seal[s][m] \/ seal'[s][m] = Marred
    BY <1>7, <2>1, EmptyIs
  <2>3. SealInv(s)'
    BY <1>1, <1>7, <2>2 DEF SessionInv, SealInv
  <2>4. StageInv(s)' /\ DeriveInv(s)'
    BY <1>1, <1>7 DEF SessionInv, StageInv, DeriveInv, MadeBy, RunHolds
  <2>5. QED
    BY <1>3, <2>3, <2>4 DEF SessionInv
<1>8. SessionInv(s)'
  BY <1>4, <1>5, <1>6, <1>7 DEF DamageReviewed
<1>9. QED
  BY <1>2, <1>8

(* The machine's tools are upgraded, or what sessions share is damaged.    *)
LEMMA MachineKeeps == ASSUME ChainInv, Upgrade \/ Damage \/ UNCHANGED vars PROVE ChainInv'
<1>1. PerSession /\ \A x \in Sessions : SessionInv(x)
  BY DEF ChainInv
<1>2. CASE Upgrade \/ UNCHANGED vars \/ (DamageShared /\ UNCHANGED <<tool, sdk, pc>>)
  <2>1. PerSession' /\ Later /\ \A x \in Sessions : Same(x)
    BY <1>1, <1>2 DEF Upgrade, vars, DamageShared, machine, produced, derived, reviewed, sealed,
                      PerSession, Later, Same
  <2>2. QED
    BY <1>1, <2>1, SameKeeps DEF ChainInv
<1>3. ASSUME NEW s \in Sessions, DamageProduced(s) \/ DamageReviewed(s),
             UNCHANGED <<tool, sdk, pc>>
      PROVE  ChainInv'
  <2>1. PerSession' /\ (\A x \in Sessions : x # s => Same(x)) /\ SessionInv(s)'
    BY <1>1, <1>3, DamageProducedKeeps, DamageReviewedKeeps
  <2>2. Later
    BY <1>1, <1>3 DEF PerSession, Later
  <2>3. \A x \in Sessions : x # s => SessionInv(x)'
    BY <1>1, <2>1, <2>2, SameKeeps
  <2>4. QED
    BY <2>1, <2>3 DEF ChainInv
<1>4. QED
  BY <1>2, <1>3 DEF Damage

(* The invariant holds at every step of every run of the chain.            *)
LEMMA ChainHolds == Spec => []ChainInv
<1>1. ChainInv /\ [Next]_vars => ChainInv'
  BY SessionStepKeeps, MachineKeeps DEF Next, SessionStep
<1>2. QED
  BY InitChain, <1>1, PTL DEF Spec

-----------------------------------------------------------------------------
(* Theorems.                                                               *)

(* What is sealed is one session's from the first file on, whatever files  *)
(* of whatever session finalize was given (load_facts_bundle,              *)
(* validate_receipt, finalize).                                            *)
THEOREM SealedIsOneChain == Spec => []OneChain
<1>1. ChainInv => OneChain
  <2> SUFFICES ASSUME ChainInv, NEW s \in Sessions, seal[s] # Empty
               PROVE  OneChainIn(loaded[s], s)
    BY DEF OneChain, OneChainIn
  <2>1. SealInv(s)
    BY DEF ChainInv, SessionInv
  <2>2. QED
    BY <2>1 DEF SealInv
<1>2. QED
  BY <1>1, ChainHolds, PTL

(* The artifacts an accepted run recorded, those that were damaged before  *)
(* the manifest hashed them aside, were made by the commands that own      *)
(* them, from the whole candidate, with the pinned tools and SDK; and if   *)
(* neither the ELF nor the text read from it was damaged, the ELF links    *)
(* the runtime core (produce, derive, finalize).                           *)
THEOREM AcceptedIsBuiltAsPinned == Spec => []BuiltAsPinned
<1>1. ChainInv => BuiltAsPinned
  <2> SUFFICES ASSUME ChainInv, NEW s \in accepted
               PROVE  Pinned(loaded[s].run.manifest, loaded[s].run.policy)
    BY CommandsAre DEF BuiltAsPinned, Pinned
  <2>1. s \in Sessions /\ SessionInv(s)
    BY DEF ChainInv, PerSession
  <2>2. QED
    BY <2>1 DEF SessionInv, SealInv, Sealing, OneChainIn
<1>2. QED
  BY <1>1, ChainHolds, PTL

(* No file of a seal appears before every case ran and passed, over the    *)
(* facts that are sealed and with a fixture consumed once                  *)
(* (validate_receipt, finalize, write_once).                               *)
THEOREM SealFollowsMatrix == Spec => []SealAfterMatrix
<1>1. ChainInv => SealAfterMatrix
  <2> SUFFICES ASSUME ChainInv, NEW s \in Sessions, seal[s] # Empty
               PROVE  /\ consumed[s] /\ loaded[s].receipt.consumedOnce
                      /\ loaded[s].receipt.facts = loaded[s].facts
                      /\ loaded[s].receipt.ran = Cases /\ loaded[s].receipt.passed = Cases
    BY DEF SealAfterMatrix
  <2>1. SealInv(s)
    BY DEF ChainInv, SessionInv
  <2>2. QED
    BY <2>1 DEF SealInv, OneChainIn
<1>2. QED
  BY <1>1, ChainHolds, PTL

(* A session is accepted by its verify_final and by no other step.         *)
LEMMA AcceptedByVerify ==
    ASSUME [Next]_vars, NEW s \in accepted' \ accepted
    PROVE  s \in Sessions /\ VerifyFinal(s)
<1> USE DEF machine, produced, derived, reviewed, sealed
<1>1. ASSUME NEW t \in Sessions, StartSession(t) \/ BuildPolicy(t) \/ Produce(t)
      PROVE  accepted' = accepted
  BY <1>1 DEF StartSession, BuildPolicy, Produce, BeginProduce, RunCommand, RecheckToolchain,
     WriteManifest
<1>2. ASSUME NEW t \in Sessions, Derive(t) \/ Review(t)
      PROVE  accepted' = accepted
  BY <1>2 DEF Derive, DeriveInputs, DeriveArtifacts, DeriveIdentity, WriteRunManifest,
     WriteFacts, Review, PrepareFixture, ConsumeFixture, WriteReceipt
<1>3. ASSUME NEW t \in Sessions, Finalize(t)
      PROVE  accepted' = accepted
  BY <1>3 DEF Finalize, FinalizeChecks, CopyInput, CopyReviewerFiles, WriteResult, WriteSums
<1>4. ASSUME NEW t \in Sessions, VerifyFinal(t)
      PROVE  accepted' = accepted \cup {t}
  BY <1>4 DEF VerifyFinal
<1>5. ASSUME NEW t \in Sessions, Stop(t)
      PROVE  accepted' = accepted
  BY <1>5 DEF Stop
<1>6. ASSUME Upgrade \/ Damage
      PROVE  accepted' = accepted
  BY <1>6 DEF Upgrade, Damage, DamageShared, DamageProduced, DamageReviewed
<1>7. UNCHANGED vars => accepted' = accepted
  BY DEF vars
<1>8. QED
  BY <1>1, <1>2, <1>3, <1>4, <1>5, <1>6, <1>7 DEF Next

(* An accepted seal holds each input as the run manifest recorded it,      *)
(* unless the file was damaged in the seal before the sums were taken:     *)
(* then the sums list the damaged bytes.  Damage done later is never       *)
(* accepted (finalize, verify_final_file_closure).                         *)
THEOREM AcceptedIsAsRecorded == Spec => AcceptedAsRecorded
<1>1. ASSUME ChainInv, [Next]_vars, NEW s \in accepted' \ accepted, NEW n \in Inputs
      PROVE  \/ seal[s][n] = Recorded(loaded[s].run, n)
             \/ seal[s][n] = Marred /\ seal[s]["SHA256SUMS"][n] = Marred
  <2>1. s \in Sessions /\ VerifyFinal(s)
    BY <1>1, AcceptedByVerify
  <2>2. /\ n \in DOMAIN seal[s] /\ n # "SHA256SUMS"
        /\ DOMAIN seal[s] = DOMAIN seal[s]["SHA256SUMS"] \cup {"SHA256SUMS"}
        /\ \A m \in DOMAIN seal[s]["SHA256SUMS"] : seal[s][m] = seal[s]["SHA256SUMS"][m]
    BY <1>1, <2>1, SealNames DEF VerifyFinal, SealReplays, FileClosure, SealFiles
  <2>3. seal[s][n] = seal[s]["SHA256SUMS"][n]
    BY <2>2
  <2>4. SealInv(s)
    BY <1>1, <2>1 DEF ChainInv, SessionInv
  <2>5. seal[s][n] \in {Recorded(loaded[s].run, n), Marred}
    BY <2>2, <2>4 DEF SealInv
  <2>6. QED
    BY <2>3, <2>5
<1>2. ChainInv /\ [Next]_vars =>
         [\A s \in accepted' \ accepted : \A n \in Inputs :
             \/ seal[s][n] = Recorded(loaded[s].run, n)
             \/ seal[s][n] = Marred /\ seal[s]["SHA256SUMS"][n] = Marred]_vars
  BY <1>1
<1>3. QED
  BY <1>2, ChainHolds, PTL DEF Spec, AcceptedAsRecorded
=============================================================================
