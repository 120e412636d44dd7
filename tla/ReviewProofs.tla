---------------------------- MODULE ReviewProofs ----------------------------
(***************************************************************************)
(* Proofs about what is reviewed: the input bundle, for any number of      *)
(* builders, edits and damages, and the host suite, for any tests in any   *)
(* classes.                                                                *)
(***************************************************************************)
EXTENDS HostSuite, FiniteSetTheorems, SequenceTheorems, TLAPS

-----------------------------------------------------------------------------
(* The stages of a builder.                                                *)

LEMMA RoleStages ==
    /\ Roles = {"candidate_transport", "frozen_matrix", "execution_dag", "cross_dependencies",
                "python_runtime", "python_wheelhouse", "old3ds_toolchain",
                "public_ci_environment"}
    /\ RoleOrder[1] = "candidate_transport"
    /\ \A r \in Roles : After(r) \in Roles \cup {"manifest"}
<1>1. DOMAIN RoleOrder = 1..8 /\ Len(RoleOrder) = 8
  BY DEF RoleOrder
<1>2. Roles = {RoleOrder[1], RoleOrder[2], RoleOrder[3], RoleOrder[4], RoleOrder[5],
               RoleOrder[6], RoleOrder[7], RoleOrder[8]}
  BY <1>1 DEF Roles
<1>3. ASSUME NEW r \in Roles
      PROVE  After(r) \in Roles \cup {"manifest"}
  <2>1. PICK j \in 1..8 : RoleOrder[j] = r
    BY <1>1 DEF Roles
  <2> DEFINE i == CHOOSE k \in DOMAIN RoleOrder : RoleOrder[k] = r
  <2>2. i \in 1..8
    BY <1>1, <2>1
  <2> HIDE DEF i
  <2>3. After(r) = IF i = 8 THEN "manifest" ELSE RoleOrder[i + 1]
    BY <1>1 DEF After, i
  <2>4. i # 8 => i + 1 \in 1..8
    BY <2>2
  <2> QED BY <1>1, <2>3, <2>4 DEF Roles
<1> QED BY <1>2, <1>3 DEF RoleOrder

-----------------------------------------------------------------------------
(* What a driver opens.  A builder's binding and the commit it noted were  *)
(* checked against each other; the published directory carries that pair   *)
(* whatever is done to its bytes; and the driver's guard ties the bytes of *)
(* the DAG and of the candidate back to the pair.                          *)

Fields == {"by", "head", "binding", "digest", "bytes", "sums", "readonly"}
PairHolds(bound, commit) == bound # None => <<bound, commit>> \in Authorized

AuthorityInv ==
    /\ DOMAIN binding = Builders /\ DOMAIN head = Builders
    /\ \A b \in Builders : PairHolds(binding[b], head[b])
    /\ \A b \in Builders : pc[b] \in {"new", "authority"} => binding[b] = None
    /\ \A b \in Builders :
          pc[b] \notin {"new", "authority", "done", "failed"} => binding[b] # None
    /\ DOMAIN pc = Builders
    /\ output \notin {None, Spoiled} =>
          /\ DOMAIN output = Fields
          /\ output.binding # None /\ <<output.binding, output.head>> \in Authorized

BundleInv == AuthorityInv /\ OpenedBundleBound

LEMMA InitHolds == BundleInit => BundleInv
BY DEF BundleInit, BundleInv, AuthorityInv, OpenedBundleBound, PairHolds

(* A binding that is there is the version of the DAG it was taken from.    *)
LEMMA BindingIsDag == \A dag : BindingOf(dag) # None => BindingOf(dag) = dag
BY DEF BindingOf

LEMMA StepHolds == BundleInv /\ [BundleNext]_bundleVars => BundleInv'
<1> SUFFICES ASSUME BundleInv, [BundleNext]_bundleVars
             PROVE  BundleInv'
  OBVIOUS
<1> USE DEF BundleInv
<1>1. ASSUME NEW b \in Builders, IdentifyCandidate(b)
      PROVE  BundleInv'
  BY <1>1 DEF IdentifyCandidate, Goto, AuthorityInv, OpenedBundleBound, PairHolds
<1>2. ASSUME NEW b \in Builders, BindAuthority(b)
      PROVE  BundleInv'
  <2>1. /\ BindingOf(source["execution_dag"]) # None
        /\ <<BindingOf(source["execution_dag"]), head[b]>> \in Authorized
    BY <1>2 DEF BindAuthority, CandidateAuthorized
  <2>2. RoleOrder[1] = "candidate_transport"
    BY DEF RoleOrder
  <2> QED BY <1>2, <2>1, <2>2
          DEF BindAuthority, Goto, AuthorityInv, OpenedBundleBound, PairHolds
<1>3. ASSUME NEW b \in Builders, NEW from, NEW to, Goto(b, from, to),
             UNCHANGED <<head, binding, output, opened>>,
             from \notin {"new", "authority", "done", "failed"},
             to \notin {"new", "authority", "done", "failed"}
      PROVE  BundleInv'
  BY <1>3 DEF Goto, AuthorityInv, OpenedBundleBound, PairHolds
<1>4. ASSUME NEW b \in Builders, AddCandidate(b)
      PROVE  BundleInv'
  <2>1. "candidate_transport" \in Roles
    BY DEF Roles, RoleOrder
  <2> QED BY <1>3, <1>4, <2>1, RoleStages DEF AddCandidate
<1>5. ASSUME NEW b \in Builders, NEW r \in Roles, AddInput(b, r)
      PROVE  BundleInv'
  BY <1>3, <1>5, RoleStages DEF AddInput
<1>6. ASSUME NEW b \in Builders, CopyRuntime(b)
      PROVE  BundleInv'
  BY <1>6 DEF CopyRuntime, patching, AuthorityInv, OpenedBundleBound, PairHolds
<1>7. ASSUME NEW b \in Builders, PatchOne(b)
      PROVE  BundleInv'
  BY <1>7 DEF PatchOne, AuthorityInv, OpenedBundleBound, PairHolds
<1>8. ASSUME NEW b \in Builders, Rescan(b) \/ WriteManifest(b)
      PROVE  BundleInv'
  BY <1>3, <1>8 DEF Rescan, WriteManifest
<1>9. ASSUME NEW b \in Builders, ArchiveRuntime(b)
      PROVE  BundleInv'
  <2>1. "python_runtime" \in Roles
    BY DEF Roles, RoleOrder
  <2> QED BY <1>3, <1>9, <2>1, RoleStages DEF ArchiveRuntime
<1>10. ASSUME NEW b \in Builders, Publish(b)
       PROVE  BundleInv'
  <2>1. /\ output' = Staged(b) /\ head' = head /\ binding' = binding /\ opened' = opened
        /\ pc[b] = "publish" /\ pc' = [pc EXCEPT ![b] = "verify"]
    BY <1>10 DEF Publish, Goto
  <2>2. binding[b] # None /\ <<binding[b], head[b]>> \in Authorized
    BY <2>1 DEF AuthorityInv, PairHolds
  <2>3. /\ DOMAIN output' = Fields
        /\ output'.binding = binding[b] /\ output'.head = head[b]
    BY <2>1 DEF Staged, Fields
  <2> QED BY <2>1, <2>2, <2>3 DEF AuthorityInv, OpenedBundleBound, PairHolds
<1>11. ASSUME NEW b \in Builders, VerifyCompleted(b) \/ StopBuilder(b)
       PROVE  BundleInv'
  <2>1. /\ pc' \in {[pc EXCEPT ![b] = "done"], [pc EXCEPT ![b] = "failed"]}
        /\ head' = [head EXCEPT ![b] = None] /\ binding' = [binding EXCEPT ![b] = None]
        /\ output' = output /\ opened' = opened
    BY <1>11 DEF VerifyCompleted, StopBuilder, Forget
  <2> QED BY <2>1 DEF AuthorityInv, OpenedBundleBound, PairHolds
<1>12. CASE OpenBundle
  <2>1. /\ output # None /\ output # Spoiled /\ opened' = output
        /\ output.binding = BindingOf(output.bytes["execution_dag"])
        /\ output.bytes["candidate_transport"] = output.head
    BY <1>12
    DEF OpenBundle, GuardAccepts, GuardAuthority, AuthorityBound, BytesRecorded, TransportHolds
  <2>2. output.binding # None /\ <<output.binding, output.head>> \in Authorized
    BY <2>1 DEF AuthorityInv
  <2>3. output.binding = output.bytes["execution_dag"]
    BY <2>1, <2>2, BindingIsDag
  <2>4. OpenedBundleBound'
    BY <2>1, <2>2, <2>3 DEF OpenedBundleBound
  <2>5. UNCHANGED <<pc, head, binding, output>>
    BY <1>12 DEF OpenBundle
  <2> QED BY <2>4, <2>5 DEF AuthorityInv, PairHolds
<1>13. ASSUME NEW r \in Roles, EditSource(r)
       PROVE  BundleInv'
  BY <1>13 DEF EditSource, AuthorityInv, OpenedBundleBound, PairHolds
<1>14. CASE DamageOutput
  <2>1. UNCHANGED <<pc, head, binding, opened>> /\ output \notin {None, Spoiled}
    BY <1>14 DEF DamageOutput
  <2>2. DOMAIN output = Fields
    BY <2>1 DEF AuthorityInv
  <2>3. \/ output' = Spoiled
        \/ /\ DOMAIN output' = Fields
           /\ output'.binding = output.binding /\ output'.head = output.head
    BY <1>14, <2>2 DEF DamageOutput, Fields
  <2> QED BY <2>1, <2>3 DEF AuthorityInv, OpenedBundleBound, PairHolds
<1>15. CASE UNCHANGED bundleVars
  BY <1>15 DEF bundleVars, AuthorityInv, OpenedBundleBound, PairHolds
<1> QED BY <1>1, <1>2, <1>4, <1>5, <1>6, <1>7, <1>8, <1>9, <1>10, <1>11, <1>12, <1>13,
           <1>14, <1>15 DEF BundleNext

(* A bundle the driver opens holds a commit that the DAG in it authorises. *)
THEOREM OpenedIsAuthorized == BundleSpec => []OpenedBundleBound
<1>1. BundleInv => OpenedBundleBound
  BY DEF BundleInv
<1> QED BY <1>1, InitHolds, StepHolds, PTL DEF BundleSpec

-----------------------------------------------------------------------------
(* The worklist: whatever is in the tree has been rewritten or is queued,  *)
(* and what a rewritten binary loads is in the tree.                       *)

Queued(b, l) == \E i \in 1..Len(pending[b]) : pending[b][i] = l

WorklistType(b) ==
    /\ needs[b] \in [Libraries -> SUBSET Commands]
    /\ pending[b] \in Seq(Libraries)
    /\ visited[b] \subseteq Libraries /\ vendored[b] \subseteq Brew

BuilderInv(b) ==
    /\ WorklistType(b)
    /\ pc[b] \notin {"patch", "archive"} => visited[b] = {} /\ vendored[b] = {}
    /\ pc[b] = "patch" =>
          /\ \A l \in InRoot(b) : l \in visited[b] \/ Queued(b, l)
          /\ \A l \in visited[b] : Listed(b, l) \subseteq InRoot(b)

WorklistInv ==
    /\ DOMAIN pc = Builders /\ DOMAIN needs = Builders /\ DOMAIN pending = Builders
    /\ DOMAIN visited = Builders /\ DOMAIN vendored = Builders
    /\ \A b \in Builders : BuilderInv(b)

(* Every fresh library is queued.                                          *)
LEMMA SetToSeqCovers ==
  ASSUME NEW S \in SUBSET Libraries
  PROVE  /\ SetToSeq(S) \in Seq(Libraries)
         /\ \A l \in S : \E i \in 1..Len(SetToSeq(S)) : SetToSeq(S)[i] = l
<1>1. IsFiniteSet(Libraries)
  <2>1. Libraries = {"python"} \cup {"inside"} \cup {"stripped"} \cup {"brew1"} \cup {"brew2"}
                    \cup {"foreign"}
    BY DEF Libraries
  <2> QED BY <2>1, FS_Singleton, FS_Union
<1>2. IsFiniteSet(S)
  BY <1>1, FS_Subset
<1>3. PICK n \in Nat : ExistsBijection(1..n, S)
  BY <1>2, FS_NatBijection
<1>4. Cardinality(S) = n
  BY <1>3, FS_CountingElements
<1>5. PICK g \in [1..n -> S] : IsInjective(g)
  BY <1>3 DEF ExistsBijection, Bijection, Injection
<1> DEFINE q == SetToSeq(S)
<1>6. q \in [1..n -> S] /\ IsInjective(q)
  BY <1>4, <1>5 DEF SetToSeq
<1>7. q \in Injection(1..n, S)
  BY <1>6 DEF Injection
<1>8. Cardinality(1..n) = n /\ IsFiniteSet(1..n)
  <2>1. Cardinality(1..n) = IF 1 > n THEN 0 ELSE n - 1 + 1
    BY FS_Interval
  <2>2. IsFiniteSet(1..n)
    BY FS_Interval
  <2> QED BY <2>1, <2>2
<1>9. q \in Surjection(1..n, S)
  BY <1>2, <1>4, <1>7, <1>8, FS_Injection
<1>10. \A l \in S : \E i \in 1..n : q[i] = l
  BY <1>9 DEF Surjection
<1> HIDE DEF q
<1>11. q \in Seq(S) /\ Len(q) = n /\ q \in Seq(Libraries)
  BY <1>6
<1> QED BY <1>10, <1>11 DEF q

LEMMA InitWorklist == BundleInit => WorklistInv
<1>1. NoNeeds \in [Libraries -> SUBSET Commands] /\ <<>> \in Seq(Libraries)
  BY EmptySeq DEF NoNeeds
<1> QED BY <1>1 DEF BundleInit, WorklistInv, BuilderInv, WorklistType

(* What a step does not touch of a builder keeps its part of the invariant. *)
LEMMA OthersKeep ==
  ASSUME WorklistInv, NEW c \in Builders, pc'[c] = pc[c], needs'[c] = needs[c],
         pending'[c] = pending[c], visited'[c] = visited[c], vendored'[c] = vendored[c]
  PROVE  BuilderInv(c)'
<1>1. BuilderInv(c)
  BY DEF WorklistInv
<1>2. InRoot(c)' = InRoot(c) /\ (WorklistType(c)' <=> WorklistType(c))
  BY DEF InRoot, WorklistType
<1>3. \A x : (Queued(c, x)' <=> Queued(c, x)) /\ Listed(c, x)' = Listed(c, x)
  BY DEF Queued, Listed
<1> QED BY <1>1, <1>2, <1>3 DEF BuilderInv

(* A builder that patches nothing before and after a step.                 *)
LEMMA NotPatching ==
  ASSUME WorklistInv, NEW b \in Builders, NEW after,
         pc' = [pc EXCEPT ![b] = after], UNCHANGED patching,
         pc[b] \notin {"patch", "archive"}, after # "patch"
  PROVE  WorklistInv'
<1>1. /\ UNCHANGED <<needs, pending, visited, vendored>> /\ DOMAIN pc' = Builders
      /\ pc'[b] = after /\ \A c \in Builders \ {b} : pc'[c] = pc[c]
  BY DEF patching, WorklistInv
<1>2. \A c \in Builders \ {b} : BuilderInv(c)'
  BY <1>1, OthersKeep
<1>3. BuilderInv(b)'
  BY <1>1 DEF WorklistInv, BuilderInv, WorklistType
<1> QED BY <1>1, <1>2, <1>3 DEF WorklistInv

LEMMA PatchOneKeeps ==
  ASSUME WorklistInv, NEW b \in Builders, PatchOne(b)
  PROVE  WorklistInv'
<1> DEFINE l == Head(pending[b])
           fresh == IF l \in visited[b] THEN {} ELSE (Listed(b, l) \cap Brew) \ vendored[b]
           queue == Tail(pending[b]) \o SetToSeq(fresh)
<1>1. /\ pc[b] = "patch" /\ pending[b] # <<>>
      /\ l \notin visited[b] => Listed(b, l) \cap {"stripped", "foreign"} = {}
      /\ visited' = [visited EXCEPT ![b] = @ \cup {l}]
      /\ vendored' = [vendored EXCEPT ![b] = @ \cup fresh]
      /\ pending' = [pending EXCEPT ![b] = queue]
      /\ UNCHANGED <<pc, needs>>
  BY DEF PatchOne
<1>2. WorklistType(b) /\ pending[b] \in Seq(Libraries)
  BY DEF WorklistInv, BuilderInv, WorklistType
<1>3. /\ l \in Libraries /\ Tail(pending[b]) \in Seq(Libraries)
      /\ Len(Tail(pending[b])) = Len(pending[b]) - 1
      /\ \A i \in 1..Len(Tail(pending[b])) : Tail(pending[b])[i] = pending[b][i + 1]
      /\ l = pending[b][1]
  BY <1>1, <1>2, HeadTailProperties
<1>4. fresh \in SUBSET Libraries /\ fresh \subseteq Brew
  BY DEF Brew, Libraries
<1>5. /\ SetToSeq(fresh) \in Seq(Libraries)
      /\ \A x \in fresh : \E i \in 1..Len(SetToSeq(fresh)) : SetToSeq(fresh)[i] = x
  BY <1>4, SetToSeqCovers
<1>6. Len(pending[b]) \in Nat /\ Len(SetToSeq(fresh)) \in Nat /\ Len(Tail(pending[b])) \in Nat
  BY <1>2, <1>3, <1>5, LenProperties
<1> HIDE DEF l, fresh
<1>7. /\ queue \in Seq(Libraries)
      /\ Len(queue) = Len(Tail(pending[b])) + Len(SetToSeq(fresh))
      /\ \A i \in 1..Len(Tail(pending[b])) + Len(SetToSeq(fresh)) :
           queue[i] = IF i <= Len(Tail(pending[b])) THEN Tail(pending[b])[i]
                      ELSE SetToSeq(fresh)[i - Len(Tail(pending[b]))]
  BY <1>3, <1>5, ConcatProperties
<1> HIDE DEF queue
<1>8. ASSUME NEW x, Queued(b, x), x # l
      PROVE  \E i \in 1..Len(queue) : queue[i] = x
  <2>1. PICK i \in 1..Len(pending[b]) : pending[b][i] = x
    BY <1>8 DEF Queued
  <2>2. i # 1
    BY <1>3, <1>8, <2>1
  <2>3. i - 1 \in 1..Len(Tail(pending[b])) /\ (i - 1) + 1 = i
    BY <1>3, <1>6, <2>1, <2>2
  <2>4. Tail(pending[b])[i - 1] = x
    BY <1>3, <2>1, <2>3
  <2>5. i - 1 \in 1..Len(queue) /\ i - 1 <= Len(Tail(pending[b]))
        /\ i - 1 \in 1..Len(Tail(pending[b])) + Len(SetToSeq(fresh))
    BY <1>6, <1>7, <2>3
  <2>6. queue[i - 1] = x
    BY <1>7, <2>4, <2>5
  <2> QED BY <2>5, <2>6
<1>9. ASSUME NEW x \in fresh
      PROVE  \E i \in 1..Len(queue) : queue[i] = x
  <2>1. PICK i \in 1..Len(SetToSeq(fresh)) : SetToSeq(fresh)[i] = x
    BY <1>5
  <2> DEFINE j == Len(Tail(pending[b])) + i
  <2>2. /\ j \in 1..Len(Tail(pending[b])) + Len(SetToSeq(fresh))
        /\ ~(j <= Len(Tail(pending[b]))) /\ j - Len(Tail(pending[b])) = i
    BY <1>6, <2>1
  <2>3. queue[j] = SetToSeq(fresh)[j - Len(Tail(pending[b]))]
    BY <1>7, <2>2
  <2> QED BY <1>7, <2>1, <2>2, <2>3
<1>10. /\ pending'[b] = queue /\ visited'[b] = visited[b] \cup {l}
       /\ vendored'[b] = vendored[b] \cup fresh /\ needs'[b] = needs[b] /\ pc'[b] = pc[b]
       /\ InRoot(b)' = InRoot(b) \cup fresh
  BY <1>1 DEF WorklistInv, InRoot
<1>11. WorklistType(b)'
  BY <1>2, <1>3, <1>4, <1>7, <1>10 DEF WorklistType
<1>12. \A x \in InRoot(b)' : x \in visited'[b] \/ Queued(b, x)'
  <2>1. \A x \in InRoot(b) : x \in visited[b] \/ Queued(b, x)
    BY <1>1 DEF WorklistInv, BuilderInv
  <2>2. \A x \in InRoot(b)' : x \in visited'[b] \/ \E i \in 1..Len(queue) : queue[i] = x
    BY <1>8, <1>9, <1>10, <2>1
  <2> QED BY <1>10, <2>2 DEF Queued
<1>13. \A x \in visited'[b] : Listed(b, x)' \subseteq InRoot(b)'
  <2>1. \A x \in visited[b] : Listed(b, x) \subseteq InRoot(b)
    BY <1>1 DEF WorklistInv, BuilderInv
  <2>3. \A x : Listed(b, x)' = Listed(b, x)
    BY <1>10 DEF Listed
  <2>2. l \notin visited[b] => Listed(b, l) \subseteq InRoot(b) \cup fresh
    <3>1. Listed(b, l) \subseteq Libraries
      BY <1>2, <1>3 DEF WorklistType, Listed, Commands
    <3>2. l \notin visited[b] => fresh = (Listed(b, l) \cap Brew) \ vendored[b]
      BY DEF fresh
    <3> QED BY <1>1, <3>1, <3>2 DEF InRoot, Libraries, Brew
  <2> QED BY <1>10, <2>1, <2>2, <2>3
<1>14. \A c \in Builders \ {b} :
          /\ pc'[c] = pc[c] /\ needs'[c] = needs[c] /\ pending'[c] = pending[c]
          /\ visited'[c] = visited[c] /\ vendored'[c] = vendored[c]
  BY <1>1 DEF WorklistInv
<1>15. \A c \in Builders \ {b} : BuilderInv(c)'
  BY <1>14, OthersKeep
<1>16. /\ DOMAIN pc' = Builders /\ DOMAIN needs' = Builders /\ DOMAIN pending' = Builders
       /\ DOMAIN visited' = Builders /\ DOMAIN vendored' = Builders
  BY <1>1 DEF WorklistInv
<1>17. BuilderInv(b)'
  BY <1>1, <1>10, <1>11, <1>12, <1>13 DEF BuilderInv
<1> QED BY <1>15, <1>16, <1>17 DEF WorklistInv

LEMMA WorklistStep == WorklistInv /\ [BundleNext]_bundleVars => WorklistInv'
<1> SUFFICES ASSUME WorklistInv, [BundleNext]_bundleVars PROVE WorklistInv'
  OBVIOUS
<1>0. ASSUME UNCHANGED <<pc, patching>>
      PROVE  WorklistInv'
  BY <1>0 DEF WorklistInv, BuilderInv, WorklistType, patching, InRoot, Queued, Listed
<1>1. ASSUME NEW b \in Builders, IdentifyCandidate(b)
      PROVE  WorklistInv'
  BY <1>1, NotPatching DEF IdentifyCandidate, Goto
<1>2. ASSUME NEW b \in Builders, BindAuthority(b)
      PROVE  WorklistInv'
  <2>1. RoleOrder[1] # "patch"
    BY DEF RoleOrder
  <2> QED BY <1>2, <2>1, NotPatching DEF BindAuthority, Goto
<1>3. ASSUME NEW b \in Builders, AddCandidate(b)
      PROVE  WorklistInv'
  <2>1. "candidate_transport" \in Roles
    BY DEF Roles, RoleOrder
  <2> QED BY <1>3, <2>1, RoleStages, NotPatching DEF AddCandidate, Goto
<1>4. ASSUME NEW b \in Builders, NEW r \in Roles, AddInput(b, r)
      PROVE  WorklistInv'
  BY <1>4, RoleStages, NotPatching DEF AddInput, Goto
<1>5. ASSUME NEW b \in Builders, CopyRuntime(b)
      PROVE  WorklistInv'
  <2>0. pc[b] = "python_runtime"
    BY <1>5 DEF CopyRuntime
  <2>1. CASE pc' = [pc EXCEPT ![b] = "archive"] /\ UNCHANGED patching
    BY <2>0, <2>1, NotPatching
  <2>2. ASSUME NEW n \in Needs, pc' = [pc EXCEPT ![b] = "patch"],
               needs' = [needs EXCEPT ![b] = n],
               pending' = [pending EXCEPT ![b] = <<"inside", "python">>],
               UNCHANGED <<visited, vendored>>
        PROVE  WorklistInv'
    <3>1. <<"inside", "python">> \in Seq(Libraries) /\ n \in [Libraries -> SUBSET Commands]
      <4>1. n \in [Libraries -> SUBSET Commands]
        BY NeedsAssumption
      <4>2. "inside" \in Libraries /\ "python" \in Libraries
        BY DEF Libraries
      <4> QED BY <4>1, <4>2
    <3>2. visited[b] = {} /\ vendored[b] = {}
      BY <1>5 DEF CopyRuntime, WorklistInv, BuilderInv
    <3>3. /\ pc'[b] = "patch" /\ needs'[b] = n /\ pending'[b] = <<"inside", "python">>
          /\ visited'[b] = {} /\ vendored'[b] = {}
      BY <2>2, <3>2 DEF WorklistInv
    <3>4. Queued(b, "inside")' /\ Queued(b, "python")'
      <4>1. Len(pending'[b]) = 2 /\ pending'[b][1] = "inside" /\ pending'[b][2] = "python"
        BY <3>3
      <4> QED BY <4>1 DEF Queued
    <3>5. InRoot(b)' = {"python", "inside"}
      BY <3>3 DEF InRoot
    <3>6. \A c \in Builders \ {b} :
             pc'[c] = pc[c] /\ needs'[c] = needs[c] /\ pending'[c] = pending[c]
      BY <2>2 DEF WorklistInv
    <3>7. \A c \in Builders \ {b} : BuilderInv(c)'
      BY <2>2, <3>6, OthersKeep
    <3>8. WorklistType(b)'
      BY <3>1, <3>3 DEF WorklistType
    <3>9. /\ DOMAIN pc' = Builders /\ DOMAIN needs' = Builders /\ DOMAIN pending' = Builders
          /\ DOMAIN visited' = Builders /\ DOMAIN vendored' = Builders
      BY <2>2 DEF WorklistInv
    <3>10. BuilderInv(b)'
      BY <3>3, <3>4, <3>5, <3>8 DEF BuilderInv
    <3> QED BY <3>7, <3>9, <3>10 DEF WorklistInv
  <2> QED BY <1>5, <2>1, <2>2 DEF CopyRuntime
<1>6. ASSUME NEW b \in Builders, PatchOne(b)
      PROVE  WorklistInv'
  BY <1>6, PatchOneKeeps
<1>7. ASSUME NEW b \in Builders, Rescan(b)
      PROVE  WorklistInv'
  BY <1>7 DEF Rescan, Goto, WorklistInv, BuilderInv, WorklistType, patching, InRoot, Queued, Listed
<1>8. ASSUME NEW b \in Builders, NEW q \in Seq(Libraries),
             NEW after, after \notin {"patch", "archive"},
             pc' = [pc EXCEPT ![b] = after], needs' = [needs EXCEPT ![b] = NoNeeds],
             visited' = [visited EXCEPT ![b] = {}], vendored' = [vendored EXCEPT ![b] = {}],
             DOMAIN pending' = Builders, pending'[b] = q,
             \A c \in Builders \ {b} : pending'[c] = pending[c]
      PROVE  WorklistInv'
  <2>1. NoNeeds \in [Libraries -> SUBSET Commands]
    BY DEF NoNeeds
  <2>2. /\ DOMAIN pc' = Builders /\ DOMAIN needs' = Builders /\ DOMAIN pending' = Builders
        /\ DOMAIN visited' = Builders /\ DOMAIN vendored' = Builders
    BY <1>8 DEF WorklistInv
  <2>3. /\ pc'[b] = after /\ needs'[b] = NoNeeds /\ pending'[b] = q
        /\ visited'[b] = {} /\ vendored'[b] = {}
    BY <1>8 DEF WorklistInv
  <2>4. BuilderInv(b)'
    BY <1>8, <2>1, <2>3 DEF BuilderInv, WorklistType
  <2>5. \A c \in Builders \ {b} :
           /\ pc'[c] = pc[c] /\ needs'[c] = needs[c] /\ pending'[c] = pending[c]
           /\ visited'[c] = visited[c] /\ vendored'[c] = vendored[c]
    BY <1>8 DEF WorklistInv
  <2>6. \A c \in Builders \ {b} : BuilderInv(c)'
    BY <2>5, OthersKeep
  <2> QED BY <2>2, <2>4, <2>6 DEF WorklistInv
<1>9. ASSUME NEW b \in Builders, ArchiveRuntime(b)
      PROVE  WorklistInv'
  <2>1. "python_runtime" \in Roles
    BY DEF Roles, RoleOrder
  <2>2. /\ pending[b] \in Seq(Libraries) /\ DOMAIN pending' = Builders
        /\ \A c \in Builders : pending'[c] = pending[c]
    BY <1>9 DEF ArchiveRuntime, WorklistInv, BuilderInv, WorklistType
  <2>3. /\ pc' = [pc EXCEPT ![b] = After("python_runtime")]
        /\ After("python_runtime") \notin {"patch", "archive"}
        /\ needs' = [needs EXCEPT ![b] = NoNeeds]
        /\ visited' = [visited EXCEPT ![b] = {}] /\ vendored' = [vendored EXCEPT ![b] = {}]
    BY <1>9, <2>1, RoleStages DEF ArchiveRuntime, Goto
  <2> DEFINE to == After("python_runtime")
             q == pending[b]
  <2>4. /\ q \in Seq(Libraries) /\ to \notin {"patch", "archive"}
        /\ pc' = [pc EXCEPT ![b] = to] /\ pending'[b] = q
        /\ \A c \in Builders \ {b} : pending'[c] = pending[c]
    BY <2>2, <2>3
  <2> HIDE DEF to, q
  <2> QED BY <1>8, <2>2, <2>3, <2>4
<1>10. ASSUME NEW b \in Builders, WriteManifest(b) \/ Publish(b)
       PROVE  WorklistInv'
  BY <1>10, NotPatching DEF WriteManifest, Publish, Goto
<1>11. ASSUME NEW b \in Builders, VerifyCompleted(b) \/ StopBuilder(b)
       PROVE  WorklistInv'
  <2>1. <<>> \in Seq(Libraries)
    BY EmptySeq
  <2>2. PICK after \in {"done", "failed"} : pc' = [pc EXCEPT ![b] = after]
    BY <1>11 DEF VerifyCompleted, StopBuilder
  <2>3. Forget(b)
    BY <1>11 DEF VerifyCompleted, StopBuilder
  <2>4. /\ DOMAIN pending' = Builders /\ pending'[b] = <<>>
        /\ \A c \in Builders \ {b} : pending'[c] = pending[c]
    BY <2>3 DEF Forget, WorklistInv
  <2>5. /\ needs' = [needs EXCEPT ![b] = NoNeeds] /\ visited' = [visited EXCEPT ![b] = {}]
        /\ vendored' = [vendored EXCEPT ![b] = {}] /\ after \notin {"patch", "archive"}
    BY <2>2, <2>3 DEF Forget
  <2> DEFINE q == <<>>
  <2>6. q \in Seq(Libraries) /\ pending'[b] = q
    BY <2>1, <2>4
  <2> HIDE DEF q
  <2> QED BY <1>8, <2>2, <2>4, <2>5, <2>6
<1> QED BY <1>0, <1>1, <1>2, <1>3, <1>4, <1>5, <1>6, <1>7, <1>9, <1>10, <1>11
        DEF BundleNext, bundleVars, patching, OpenBundle, EditSource, DamageOutput

(* When nothing is queued every copied binary is rewritten and loads only   *)
(* what was copied, whatever the binaries load (patch_macos_runtime).       *)
THEOREM WorklistAlwaysCloses == BundleSpec => []WorklistCloses
<1>1. WorklistInv => WorklistCloses
  <2> SUFFICES ASSUME WorklistInv, NEW b \in Builders, pc[b] = "patch", pending[b] = <<>>
               PROVE  ClosureHolds(b)
    BY DEF WorklistCloses
  <2>1. \A l : ~Queued(b, l)
    <3>1. Len(pending[b]) = 0
      OBVIOUS
    <3> QED BY <3>1 DEF Queued
  <2> QED BY <2>1 DEF WorklistInv, BuilderInv, ClosureHolds, LoaderRelative
<1> QED BY <1>1, InitWorklist, WorklistStep, PTL DEF BundleSpec

-----------------------------------------------------------------------------
(* The directory at the output path.                                       *)

PublishInv ==
    /\ source \in [Roles -> Nat]
    /\ DOMAIN pc = Builders /\ DOMAIN head = Builders /\ DOMAIN binding = Builders
    /\ DOMAIN copied = Builders
    /\ \A b \in Builders :
          /\ pc[b] \notin {"new", "done", "failed"} => head[b] \in Nat
          /\ pc[b] \notin {"new", "authority", "done", "failed"} => binding[b] \in Nat
          /\ \A r \in DOMAIN copied[b] : copied[b][r] \in Nat
          /\ copied[b] = [r \in DOMAIN copied[b] |-> copied[b][r]]
          /\ pc[b] = "publish" => DOMAIN copied[b] = Roles
    /\ output \notin {None, Spoiled} => output \in Directories

LEMMA InitPublish == BundleInit => PublishInv
BY DEF BundleInit, PublishInv, Nothing

LEMMA PutIs ==
    ASSUME NEW f, NEW x, NEW v \in Nat, \A y \in DOMAIN f : f[y] \in Nat
    PROVE  /\ \A y \in DOMAIN Put(f, x, v) : Put(f, x, v)[y] \in Nat
           /\ Put(f, x, v) = [y \in DOMAIN Put(f, x, v) |-> Put(f, x, v)[y]]
BY DEF Put

(* Damage leaves a directory a directory of the same builder.              *)
LEMMA DamageKeepsDirectory ==
    ASSUME DamageOutput, output \in Directories
    PROVE  output' = Spoiled \/ (output' \in Directories /\ output'.by = output.by)
<1>1. ASSUME NEW r \in Roles, output' = [output EXCEPT !.bytes[r] = Spoiled]
      PROVE  output' \in Directories /\ output'.by = output.by
  <2>1. output' = [output EXCEPT !.bytes = [output.bytes EXCEPT ![r] = Spoiled]]
    BY <1>1
  <2>2. [output.bytes EXCEPT ![r] = Spoiled] \in [Roles -> Nat \cup {Spoiled}]
    BY DEF Directories
  <2> QED BY <2>1, <2>2 DEF Directories
<1>2. ASSUME output' = [output EXCEPT !.readonly = FALSE]
      PROVE  output' \in Directories /\ output'.by = output.by
  BY <1>2 DEF Directories
<1> QED BY <1>1, <1>2 DEF DamageOutput

LEMMA PublishStep == PublishInv /\ [BundleNext]_bundleVars => PublishInv'
<1> SUFFICES ASSUME PublishInv, [BundleNext]_bundleVars PROVE PublishInv'
  OBVIOUS
<1> USE DEF PublishInv
<1>1. ASSUME NEW b \in Builders, IdentifyCandidate(b) PROVE PublishInv'
  BY <1>1, RoleStages DEF IdentifyCandidate, Goto
<1>2. ASSUME NEW b \in Builders, BindAuthority(b) PROVE PublishInv'
  <2>1. /\ pc[b] = "authority" /\ pc' = [pc EXCEPT ![b] = RoleOrder[1]]
        /\ binding' = [binding EXCEPT ![b] = BindingOf(source["execution_dag"])]
        /\ BindingOf(source["execution_dag"]) # None
        /\ UNCHANGED <<source, head, copied, output>>
    BY <1>2 DEF BindAuthority, Goto, CandidateAuthorized
  <2>2. BindingOf(source["execution_dag"]) \in Nat
    BY <2>1, BindingIsDag, RoleStages
  <2>3. RoleOrder[1] = "candidate_transport"
    BY DEF RoleOrder
  <2> QED BY <2>1, <2>2, <2>3
<1>3. ASSUME NEW b \in Builders, NEW r \in Roles, NEW after, after # "publish",
             pc[b] \notin {"new", "authority", "done", "failed"},
             pc' = [pc EXCEPT ![b] = after],
             copied' = [copied EXCEPT ![b] = Put(@, r, source[r])],
             UNCHANGED <<source, head, binding, output>>
      PROVE  PublishInv'
  <2>1. copied'[b] = Put(copied[b], r, source[r]) /\ source[r] \in Nat
    BY <1>3
  <2>2. /\ \A y \in DOMAIN copied'[b] : copied'[b][y] \in Nat
        /\ copied'[b] = [y \in DOMAIN copied'[b] |-> copied'[b][y]]
    BY <2>1, PutIs
  <2> QED BY <1>3, <2>2
<1>4. ASSUME NEW b \in Builders, NEW r \in Roles, AddCandidate(b) \/ AddInput(b, r)
      PROVE  PublishInv'
  <2>1. CASE AddCandidate(b)
    <3>1. /\ pc[b] = "candidate_transport" /\ "candidate_transport" \in Roles
          /\ pc' = [pc EXCEPT ![b] = After("candidate_transport")]
          /\ After("candidate_transport") # "publish"
      BY <2>1, RoleStages DEF AddCandidate, Goto
    <3> HIDE DEF PublishInv
    <3> QED BY <1>3, <2>1, <3>1 DEF AddCandidate
  <2>2. CASE AddInput(b, r)
    <3>1. /\ pc[b] \notin {"new", "authority", "done", "failed"}
          /\ pc' = [pc EXCEPT ![b] = After(r)] /\ After(r) # "publish"
      BY <2>2, RoleStages DEF AddInput, Goto
    <3> HIDE DEF PublishInv
    <3> QED BY <1>3, <2>2, <3>1 DEF AddInput
  <2> QED BY <1>4, <2>1, <2>2
<1>5. ASSUME NEW b \in Builders, CopyRuntime(b) PROVE PublishInv'
  <2>1. \E after \in {"archive", "patch"} : pc' = [pc EXCEPT ![b] = after]
    BY <1>5 DEF CopyRuntime
  <2>2. "python_runtime" \in Roles
    BY RoleStages
  <2> HIDE DEF PublishInv
  <2> QED BY <1>3, <1>5, <2>1, <2>2 DEF CopyRuntime
<1>6. ASSUME NEW b \in Builders, PatchOne(b) PROVE PublishInv'
  BY <1>6 DEF PatchOne
<1>7. ASSUME NEW b \in Builders, Rescan(b) \/ ArchiveRuntime(b) PROVE PublishInv'
  BY <1>7, RoleStages DEF Rescan, ArchiveRuntime, Goto
<1>8. ASSUME NEW b \in Builders, WriteManifest(b) PROVE PublishInv'
  BY <1>8 DEF WriteManifest, Goto
<1>9. ASSUME NEW b \in Builders, Publish(b) PROVE PublishInv'
  <2>1. copied[b] \in [Roles -> Nat] /\ head[b] \in Nat /\ binding[b] \in Nat
    BY <1>9 DEF Publish, Goto
  <2>2. copied[b] \in [Roles -> Nat \cup {Spoiled}]
    BY <2>1
  <2>3. Staged(b) \in Directories
    BY <2>1, <2>2 DEF Staged, Directories
  <2> QED BY <1>9, <2>3 DEF Publish, Goto
<1>10. ASSUME NEW b \in Builders, VerifyCompleted(b) \/ StopBuilder(b) PROVE PublishInv'
  <2>1. \E after \in {"done", "failed"} : pc' = [pc EXCEPT ![b] = after]
    BY <1>10 DEF VerifyCompleted, StopBuilder
  <2>2. Forget(b) /\ UNCHANGED <<source, output>>
    BY <1>10 DEF VerifyCompleted, StopBuilder
  <2>3. copied' = [copied EXCEPT ![b] = Nothing] /\ DOMAIN Nothing = {}
        /\ Nothing = [r \in DOMAIN Nothing |-> Nothing[r]]
    BY <2>2 DEF Forget, Nothing
  <2> HIDE DEF PublishInv
  <2>4. copied'[b] = Nothing
    BY <2>3 DEF PublishInv
  <2> QED BY <2>1, <2>2, <2>3, <2>4 DEF Forget, PublishInv
<1>11. CASE OpenBundle
  BY <1>11 DEF OpenBundle, patching
<1>12. ASSUME NEW r \in Roles, EditSource(r) PROVE PublishInv'
  BY <1>12 DEF EditSource, patching
<1>13. CASE DamageOutput
  <2>1. output \in Directories
    BY <1>13 DEF DamageOutput
  <2>2. output' = Spoiled \/ output' \in Directories
    BY <1>13, <2>1, DamageKeepsDirectory
  <2> QED BY <1>13, <2>2 DEF DamageOutput
<1>14. CASE UNCHANGED bundleVars
  BY <1>14 DEF bundleVars
<1> QED BY <1>1, <1>2, <1>4, <1>5, <1>6, <1>7, <1>8, <1>9, <1>10, <1>11, <1>12, <1>13, <1>14,
           RoleStages DEF BundleNext

(* A directory that is at the output path stays there, whoever made it,    *)
(* until it can no longer be read (create_bundle, os.replace).             *)
THEOREM PublishedDirectoryStays == BundleSpec => PublishedStays
<1> DEFINE Stays == output # None => /\ output' # None /\ (output = Spoiled => output' = Spoiled)
                                     /\ output' # Spoiled => output'.by = output.by
<1>1. PublishInv /\ [BundleNext]_bundleVars => [Stays]_bundleVars
  <2> SUFFICES ASSUME PublishInv, BundleNext, output # None PROVE Stays
    BY DEF bundleVars
  <2>1. CASE DamageOutput
    <3>1. output \in Directories
      BY <2>1 DEF DamageOutput, PublishInv
    <3>2. \/ output' = Spoiled
          \/ output' \in Directories /\ output'.by = output.by
      BY <2>1, <3>1, DamageKeepsDirectory
    <3> QED BY <3>2, <2>1, MarkersAssumption DEF DamageOutput
  <2>2. CASE \E b \in Builders : Publish(b)
    BY <2>2 DEF Publish
  <2>3. CASE UNCHANGED output
    BY <2>3
  <2> QED
    BY <2>1, <2>2, <2>3 DEF BundleNext, IdentifyCandidate, BindAuthority, AddCandidate, AddInput,
       CopyRuntime, PatchOne, Rescan, ArchiveRuntime, WriteManifest, VerifyCompleted,
       StopBuilder, OpenBundle, EditSource
<1> QED BY <1>1, InitPublish, PublishStep, PTL DEF BundleSpec, PublishedStays

(* The suite only reads the bundle, so what is proved of the builders and  *)
(* the driver holds while it runs.                                         *)
THEOREM ReviewKeepsBundle == ReviewSpec => BundleSpec
<1>1. ReviewInit => BundleInit
  BY DEF ReviewInit
<1>2. [ReviewNext]_<<bundleVars, suiteVars>> => [BundleNext]_bundleVars
  BY DEF ReviewNext
<1> QED BY <1>1, <1>2, PTL DEF ReviewSpec, BundleSpec

-----------------------------------------------------------------------------
(* The host suite.                                                         *)

Over(t) == \E i \in DOMAIN Order : i < next /\ Order[i] = t
Finished == {"reported", "consume", "accepted"}

(* A test that is still to run and is not barred has no event yet; one     *)
(* that was reported as failed shows it or was excused by a later skip.    *)
SuiteInv ==
    /\ next \in Nat \ {0} /\ selected \subseteq Tests /\ failures \subseteq Tests
    /\ stage \in {"idle", "load", "discover"} =>
          failures = {} /\ excused = {} /\ outcomes = Nothing /\ current = None
    /\ stage = "run" => \A t \in Tests :
          ~Over(t) /\ ~Bars(t) => t \notin DOMAIN outcomes /\ t \notin failures
    /\ stage = "run" /\ current \in Classes => \E i \in DOMAIN Order :
          i <= next /\ ClassOf[Order[i]] = current
    /\ \A t \in excused : t \in DOMAIN outcomes /\ outcomes[t] \in Skips
    /\ \A t \in failures \ excused :
          t \in DOMAIN outcomes => outcomes[t] \in {"failed", "errors"}

(* The receipt is of the run, and a PASS leaves nothing open in it.        *)
ReceiptInv ==
    /\ stage \in Finished =>
          /\ receipt.selected = selected /\ receipt.outcomes = outcomes
          /\ receipt.pass => \A t \in selected :
                t \in DOMAIN outcomes /\ outcomes[t] \in {"passed", "skipped-allowed"}
    /\ stage = "accepted" => ReceiptHolds(receipt)

LEMMA OrderIs ==
    /\ Len(Order) \in Nat /\ DOMAIN Order = 1..Len(Order)
    /\ \A i \in DOMAIN Order : Order[i] \in Tests
    /\ \A t \in Tests : \E i \in DOMAIN Order : Order[i] = t
BY TestsAssumption, LenProperties, ElementOfSeq DEF ToSet

(* An event for every selected test of a scope all of whose tests have run *)
(* or are barred from now on.                                              *)
LEMMA FixtureKeeps ==
    ASSUME SuiteInv, stage = "run", stage' = stage, NEW scope,
           NEW o \in {"passed", "errors", "skipped-allowed", "skipped"},
           UNCHANGED <<next, selected>>, barred \subseteq barred', FixtureEvent(scope, o),
           o = "passed" \/ \A t \in Under(scope) : Over(t) \/ Bars(t)',
           current' \in Classes =>
              \E i \in DOMAIN Order : i <= next /\ ClassOf[Order[i]] = current'
    PROVE  SuiteInv'
<1>0. /\ \A t : Over(t)' <=> Over(t)
      /\ \A t : Bars(t) => Bars(t)'
  BY DEF Over, Bars
<1>1. CASE o = "passed"
  <2>1. UNCHANGED <<outcomes, failures, excused>>
    BY <1>1 DEF FixtureEvent, events
  <2> QED BY <1>0, <2>1 DEF SuiteInv
<1>2. CASE o # "passed"
  <2> DEFINE ts == Under(scope) \cap selected
  <2>1. /\ DOMAIN outcomes' = DOMAIN outcomes \cup ts
        /\ \A t \in ts : outcomes'[t] = o
        /\ \A t \in DOMAIN outcomes \ ts : outcomes'[t] = outcomes[t]
        /\ failures' = IF o = "errors" THEN failures \cup ts ELSE failures
        /\ excused' = IF o = "errors" THEN excused \ ts ELSE excused \cup (failures \cap ts)
    BY <1>2 DEF FixtureEvent, Record
  <2>2. ts \subseteq Under(scope) /\ ts \subseteq Tests
    BY DEF SuiteInv
  <2> HIDE DEF ts
  <2>3. ASSUME NEW t \in Tests, ~Over(t), ~Bars(t)'
        PROVE  t \notin DOMAIN outcomes' /\ t \notin failures'
    BY <1>0, <1>2, <2>1, <2>2, <2>3 DEF SuiteInv
  <2>4. /\ \A t \in excused' : t \in DOMAIN outcomes' /\ outcomes'[t] \in Skips
        /\ failures' \subseteq Tests
        /\ \A t \in failures' \ excused' :
              t \in DOMAIN outcomes' => outcomes'[t] \in {"failed", "errors"}
    BY <1>2, <2>1, <2>2 DEF SuiteInv, Skips
  <2> QED BY <1>0, <2>3, <2>4 DEF SuiteInv
<1> QED BY <1>1, <1>2

LEMMA SetUpKeeps ==
    ASSUME SuiteInv, NEW scope \in Classes \cup {Module}, SetUp(scope)
    PROVE  SuiteInv'
<1>1. PICK o \in {"passed", "errors", "skipped-allowed", "skipped"} :
         /\ SetUpDue(scope) /\ current' = scope
         /\ IF Module \in barred THEN UNCHANGED <<barred, events>>
            ELSE /\ barred' = IF o = "passed" THEN barred ELSE barred \cup {scope}
                 /\ FixtureEvent(scope, o)
         /\ UNCHANGED <<stage, tree, selected, found, next, receipt>>
  BY DEF SetUp
<1>2. stage = "run" /\ \E i \in DOMAIN Order : i <= next /\
         (current' \in Classes => ClassOf[Order[i]] = current')
  <2>1. PICK t \in Tests : Due(t) /\ (scope = Module \/ scope = ClassOf[t])
    BY <1>1 DEF SetUpDue
  <2>2. next \in DOMAIN Order /\ Order[next] = t /\ stage = "run"
    BY <2>1, OrderIs DEF Due, SuiteInv
  <2> QED BY <1>1, <2>1, <2>2, TestsAssumption DEF SuiteInv
<1>3. CASE Module \in barred
  BY <1>1, <1>2, <1>3 DEF SuiteInv, events, Over, Bars
<1>4. CASE Module \notin barred
  <2>1. o = "passed" \/ \A t \in Under(scope) : Bars(t)'
    BY <1>1, <1>4 DEF Under, Bars
  <2> QED BY <1>1, <1>2, <1>4, <2>1, FixtureKeeps
<1> QED BY <1>3, <1>4

(* Tests of one class are together, so at its tear-down all of them ran.   *)
LEMMA TornDownIsOver ==
    ASSUME SuiteInv, NEW scope \in Classes \cup {Module}, TearDownDue(scope),
           NEW t \in Under(scope)
    PROVE  stage = "run" /\ Over(t)
<1>1. t \in Tests /\ stage = "run" /\ current = scope /\ next \in Nat
  BY DEF Under, TearDownDue, AllRun, Due, SuiteInv
<1>2. PICK k \in DOMAIN Order : Order[k] = t
  BY <1>1, OrderIs
<1>3. CASE AllRun
  BY <1>1, <1>2, <1>3, OrderIs DEF AllRun, Over
<1>4. ASSUME scope # Module, NEW u \in Tests, Due(u), ClassOf[u] # scope
      PROVE  Over(t)
  <2>1. next \in DOMAIN Order /\ Order[next] = u
    BY <1>1, <1>4, OrderIs DEF Due, SuiteInv
  <2>2. ClassOf[t] = scope /\ scope \in Classes
    BY <1>4 DEF Under
  <2>3. PICK i \in DOMAIN Order : i <= next /\ ClassOf[Order[i]] = scope
    BY <1>1, <2>2 DEF SuiteInv
  <2>4. i < next /\ k # next
    BY <1>1, <1>2, <1>4, <2>1, <2>2, <2>3, OrderIs
  <2>5. ~(next < k)
    BY <1>2, <1>4, <2>1, <2>2, <2>3, <2>4, TestsAssumption
  <2> QED BY <1>1, <1>2, <2>4, <2>5, OrderIs DEF Over
<1> QED BY <1>1, <1>3, <1>4 DEF TearDownDue

LEMMA TearDownKeeps ==
    ASSUME SuiteInv, NEW scope \in Classes \cup {Module}, TearDown(scope)
    PROVE  SuiteInv'
<1>1. PICK o \in {"passed", "errors", "skipped-allowed", "skipped"} :
         /\ TearDownDue(scope) /\ current' = IF scope = Module THEN None ELSE Module
         /\ IF {Module, scope} \cap barred # {} THEN UNCHANGED events
            ELSE FixtureEvent(scope, o)
         /\ UNCHANGED <<stage, tree, selected, found, next, barred, receipt>>
  BY DEF TearDown
<1>2. stage = "run" /\ current' \notin Classes
  BY <1>1, TestsAssumption DEF TearDownDue, AllRun, Due
<1>3. CASE {Module, scope} \cap barred # {}
  BY <1>1, <1>2, <1>3 DEF SuiteInv, events, Over, Bars
<1>4. CASE {Module, scope} \cap barred = {}
  <2>1. \A t \in Under(scope) : Over(t)
    BY <1>1, TornDownIsOver
  <2> QED BY <1>1, <1>2, <1>4, <2>1, FixtureKeeps
<1> QED BY <1>3, <1>4

(* The one test at the place of the run is not over before its own step.   *)
LEMMA BegunIs ==
    ASSUME SuiteInv, NEW t \in Tests, Begins(t), UNCHANGED <<stage, selected, current>>
    PROVE  /\ stage = "run" /\ ~Over(t) /\ next' \in Nat \ {0}
           /\ Over(t)' /\ \A u : Over(u) => Over(u)'
           /\ current' \in Classes => \E i \in DOMAIN Order :
                 i <= next' /\ ClassOf[Order[i]] = current'
<1>1. next \in DOMAIN Order /\ Order[next] = t /\ next' = next + 1 /\ stage = "run"
  BY OrderIs DEF Begins, Due, SuiteInv
<1>2. next \in Nat /\ current = ClassOf[t]
  BY DEF SuiteInv, Begins
<1>3. ~Over(t)
  BY <1>1, <1>2, OrderIs, TestsAssumption DEF Over
<1>4. \A i \in DOMAIN Order : i < next => i < next'
  BY <1>1, <1>2, OrderIs
<1>5. next < next' /\ next <= next'
  BY <1>1, <1>2
<1> QED BY <1>1, <1>2, <1>3, <1>4, <1>5 DEF Over

LEMMA TestKeeps ==
    ASSUME SuiteInv, NEW t \in Tests, RunTest(t) \/ RunSubtests(t) \/ SkipBarred(t)
    PROVE  SuiteInv'
<1>1. Begins(t) /\ UNCHANGED <<stage, selected, current, barred>>
  BY DEF RunTest, RunSubtests, SkipBarred
<1>2. /\ stage = "run" /\ ~Over(t) /\ next' \in Nat \ {0}
      /\ Over(t)' /\ \A u : Over(u) => Over(u)'
      /\ current' \in Classes => \E i \in DOMAIN Order :
            i <= next' /\ ClassOf[Order[i]] = current'
  BY <1>1, BegunIs
<1>3. \A u : Bars(u)' <=> Bars(u)
  BY <1>1 DEF Bars
<1>4. CASE SkipBarred(t)
  <2>1. UNCHANGED <<outcomes, failures, excused>>
    BY <1>4 DEF SkipBarred, events
  <2> QED BY <1>1, <1>2, <1>3, <2>1 DEF SuiteInv
<1>5. ASSUME ~Bars(t) PROVE t \notin DOMAIN outcomes /\ t \notin failures /\ t \notin excused
  BY <1>2, <1>5 DEF SuiteInv
<1>6. ASSUME NEW o \in Outcomes, NEW failed \in BOOLEAN, ~Bars(t),
             o \in {"failed", "errors"} => failed, o = "passed" => ~failed, Record({t}, o),
             failures' = IF failed THEN failures \cup {t} ELSE failures,
             excused' = IF failed /\ o \in Skips THEN excused \cup {t} ELSE excused
      PROVE  SuiteInv'
  <2>1. /\ DOMAIN outcomes' = DOMAIN outcomes \cup {t} /\ outcomes'[t] = o
        /\ \A u \in DOMAIN outcomes \ {t} : outcomes'[u] = outcomes[u]
    BY <1>6 DEF Record
  <2>2. \A u \in Tests : ~Over(u)' /\ ~Bars(u)' =>
           u \notin DOMAIN outcomes' /\ u \notin failures'
    BY <1>2, <1>3, <1>6, <2>1 DEF SuiteInv
  <2>3. \A u \in excused' : u \in DOMAIN outcomes' /\ outcomes'[u] \in Skips
    BY <1>5, <1>6, <2>1 DEF SuiteInv
  <2>4. \A u \in failures' \ excused' :
           u \in DOMAIN outcomes' => outcomes'[u] \in {"failed", "errors"}
    BY <1>5, <1>6, <2>1 DEF SuiteInv, Outcomes, Skips
  <2>5. failures' \subseteq Tests
    BY <1>6 DEF SuiteInv
  <2> QED BY <1>1, <1>2, <2>2, <2>3, <2>4, <2>5 DEF SuiteInv
<1>7. CASE RunTest(t)
  BY <1>6, <1>7 DEF RunTest
<1>8. CASE RunSubtests(t)
  <2>1. CASE failures' = failures \cup {t} /\ UNCHANGED <<outcomes, excused>>
    BY <1>1, <1>2, <1>3, <1>5, <1>8, <2>1 DEF SuiteInv, RunSubtests
  <2>2. CASE Record({t}, "passed") /\ UNCHANGED <<failures, excused>>
    BY <1>6, <1>8, <2>2 DEF RunSubtests, Outcomes, Skips
  <2> QED BY <1>8, <2>1, <2>2 DEF RunSubtests
<1> QED BY <1>4, <1>7, <1>8

LEMMA SuiteStepKeeps == ASSUME SuiteInv, SuiteStep PROVE SuiteInv'
<1>1. ASSUME UNCHANGED <<place, events>>, selected' \subseteq Tests,
             stage' \in {"idle", "load", "discover"} => stage \in {"idle", "load", "discover"},
             stage' = "run" => stage \in {"discover", "run"}
      PROVE  SuiteInv'
  <2>1. UNCHANGED <<next, current, barred, outcomes, failures, excused>>
    BY <1>1 DEF place, events
  <2>2. \A t : (Over(t)' <=> Over(t)) /\ (Bars(t)' <=> Bars(t))
    BY <2>1 DEF Over, Bars
  <2>3. stage' = "run" => \A t \in Tests :
           ~Over(t)' /\ ~Bars(t)' => t \notin DOMAIN outcomes' /\ t \notin failures'
    BY <1>1, <2>1, <2>2 DEF SuiteInv, Nothing
  <2>4. stage' = "run" /\ current' \in Classes => stage = "run"
    BY <1>1, <2>1, TestsAssumption DEF SuiteInv
  <2> QED BY <1>1, <2>1, <2>3, <2>4 DEF SuiteInv
<1>2. CASE PassOver
  <2>1. /\ next \in Nat /\ next' = next + 1 /\ stage = "run" /\ next < next'
        /\ UNCHANGED <<stage, selected, current, barred, outcomes, failures, excused>>
    BY <1>2 DEF PassOver, events, SuiteInv
  <2>2. /\ \A i \in DOMAIN Order : (i < next => i < next') /\ (i <= next => i <= next')
        /\ \A t : Bars(t)' <=> Bars(t)
    BY <2>1, OrderIs DEF Bars
  <2>3. \A t : Over(t) => Over(t)'
    BY <2>1, <2>2 DEF Over
  <2> QED BY <2>1, <2>2, <2>3 DEF SuiteInv
<1>3. CASE LoadManifest
  BY <1>1, <1>3 DEF LoadManifest
<1>4. selected \subseteq Tests
  BY DEF SuiteInv
<1>5. CASE \/ StartSuite \/ Discover \/ EndRun \/ Report \/ Abort
           \/ DriverAccepts \/ ConsumerAccepts \/ EditCheckout
  BY <1>1, <1>4, <1>5 DEF StartSuite, Discover, EndRun, Report, Abort, DriverAccepts,
                         ConsumerAccepts, EditCheckout, AllRun
<1> QED BY <1>2, <1>3, <1>5, SetUpKeeps, TearDownKeeps, TestKeeps DEF SuiteStep

LEMMA ReceiptStepKeeps == ASSUME ReceiptInv, SuiteStep PROVE ReceiptInv'
<1>1. CASE UNCHANGED <<stage, selected, outcomes, receipt>>
  BY <1>1 DEF ReceiptInv, ReceiptHolds
<1>2. CASE Report
  <2>1. /\ stage' = "reported" /\ UNCHANGED <<selected, outcomes>>
        /\ receipt'.selected = selected /\ receipt'.outcomes = outcomes
        /\ receipt'.pass = Verdict
    BY <1>2 DEF Report, events
  <2>2. Verdict => \A t \in selected :
           t \in DOMAIN outcomes /\ outcomes[t] \in {"passed", "skipped-allowed"}
    BY DEF Verdict, Unstarted
  <2> QED BY <2>1, <2>2 DEF ReceiptInv
<1>3. CASE DriverAccepts \/ ConsumerAccepts
  BY <1>3 DEF DriverAccepts, ConsumerAccepts, events, ReceiptInv, Finished, ReceiptHolds
<1>4. CASE stage' \notin Finished
  BY <1>4 DEF ReceiptInv, Finished
<1> QED
  BY <1>1, <1>2, <1>3, <1>4 DEF SuiteStep, StartSuite, LoadManifest, Discover, SetUp, TearDown,
     SetUpDue, TearDownDue, RunTest, RunSubtests, SkipBarred, Begins, Due, AllRun, PassOver,
     EndRun, Abort, EditCheckout, events, Finished

LEMMA SuiteHolds == ReviewSpec => [](SuiteInv /\ ReceiptInv)
<1>1. ReviewInit => SuiteInv /\ ReceiptInv
  BY DEF ReviewInit, SuiteInit, SuiteInv, ReceiptInv, Nothing, Finished
<1>2. SuiteInv /\ ReceiptInv /\ UNCHANGED suiteVars => SuiteInv' /\ ReceiptInv'
  BY DEF suiteVars, place, events, SuiteInv, ReceiptInv, ReceiptHolds, Over, Bars
<1>3. SuiteInv /\ ReceiptInv /\ [ReviewNext]_<<bundleVars, suiteVars>>
      => SuiteInv' /\ ReceiptInv'
  BY <1>2, SuiteStepKeeps, ReceiptStepKeeps DEF ReviewNext
<1> QED BY <1>1, <1>3, PTL DEF ReviewSpec

(* A suite the consumer accepts ran every audited test, and every failure  *)
(* that was reported for a test, by whatever fixture, body, subtest or     *)
(* tear-down, is in its outcome or was replaced by a later allowed skip    *)
(* (RecordingResult._record, execute, parse_host_python_receipt).          *)
THEOREM AcceptedSuiteHidesNothing == ReviewSpec => []AcceptedSuiteIsClean
<1>1. SuiteInv /\ ReceiptInv => AcceptedSuiteIsClean
  <2> SUFFICES ASSUME SuiteInv, ReceiptInv, stage = "accepted"
               PROVE  /\ receipt.clean /\ DOMAIN outcomes = Tests /\ selected = Tests
                      /\ failures \subseteq excused
                      /\ \A t \in excused : outcomes[t] = "skipped-allowed"
    BY DEF AcceptedSuiteIsClean
  <2>1. /\ receipt.clean /\ DOMAIN outcomes = Tests /\ selected = Tests
        /\ \A t \in Tests : outcomes[t] \in {"passed", "skipped-allowed"}
    BY DEF ReceiptInv, ReceiptHolds, Finished
  <2>2. failures \subseteq Tests /\ excused \subseteq Tests
    BY <2>1 DEF SuiteInv
  <2> QED BY <2>1, <2>2 DEF SuiteInv, Skips
<1> QED BY <1>1, SuiteHolds, PTL
=============================================================================
