------------------------ MODULE ResourceManagerProofs ------------------------
(***************************************************************************)
(* Theorems about ResourceManager, for every catalog, cap and set of       *)
(* leases and threads.                                                     *)
(***************************************************************************)
EXTENDS ResourceManager, FiniteSetTheorems, SequenceTheorems, TLAPS

\* What an eviction may take: resident entries nobody holds.
Unheld == { r \in entries : refcount[r] = 0 }

\* Making room for an acquire takes only unheld entries.
LEMMA VictimsUnheld ==
  ASSUME NEW r \in Resources
  PROVE  Victims(r) \subseteq Unheld
BY DEF Victims, Evictable, Idle, Unheld

\* So do the purge of a group, of everything, and the rollback of a transition.
LEMMA SweepsUnheld ==
  /\ \A g : GroupVictims(g) \subseteq Unheld
  /\ \A kind : OutgoingVictims(kind) \subseteq Unheld
  /\ PurgeVictims \subseteq Unheld
  /\ TypeOK => CancelVictims \subseteq Unheld
BY DEF GroupVictims, OutgoingVictims, PurgeVictims, CancelVictims, Sweep, Idle, Unheld, TypeOK

LEMMA LessType == \A a, b \in Nat : Less(a, b) \in Nat
BY DEF Less

\* How many textures of a set depend on a sprite is a natural number.
LEMMA UsersFinite ==
  ASSUME NEW V, NEW r
  PROVE  IsFiniteSet(Users(V, r)) /\ Cardinality(Users(V, r)) \in Nat
<1>1. Users(V, r) \in SUBSET Resources
  BY DEF Users, Textures
<1>2. IsFiniteSet(Resources)
  BY CatalogAssumption
<1>3. QED
  BY <1>1, <1>2, FS_Subset, FS_CardinalityType

\* An eviction preserves the types of the cache.
LEMMA EvictType ==
  ASSUME CacheTypeOK, NEW V, Evict(V)
  PROVE  CacheTypeOK'
<1>1. Undepended(V) \in [Resources -> Nat]
  BY UsersFinite, LessType DEF Undepended, CacheTypeOK
<1>2. Unpinned(V) \in [Resources -> SUBSET PinOwners]
  BY DEF Unpinned, CacheTypeOK
<1>3. Forget(V) \subseteq (entries \ V) \X (entries \ V)
  BY DEF Forget, CacheTypeOK
<1>4. refcount' \in [Resources -> Nat]
  BY DEF Evict, CacheTypeOK
<1>5. QED
  BY <1>1, <1>2, <1>3, <1>4 DEF Evict, CacheTypeOK

LEMMA FreedType ==
  ASSUME records \in [Resources -> Nat], NEW V
  PROVE  Freed(V) \in [Resources -> Nat]
BY LessType DEF Freed

\* A publication preserves the types of the cache and of the staged set.
LEMMA PublishType ==
  ASSUME TypeOK, NEW V, NEW r \in Resources, NEW b \in BOOLEAN, Publish(V, r, b)
  PROVE  CacheTypeOK' /\ (staged \subseteq entries)'
<1>1. Undepended(V) \in [Resources -> Nat]
  BY UsersFinite, LessType DEF Undepended, CacheTypeOK, TypeOK
<1>2. Unpinned(V) \in [Resources -> SUBSET PinOwners]
  BY DEF Unpinned, CacheTypeOK, TypeOK
<1>3. Forget(V) \subseteq (entries \ V) \X (entries \ V)
  BY DEF Forget, CacheTypeOK, TypeOK
<1>4. dependents' \in [Resources -> Nat]
  BY <1>1 DEF Publish
<1>5. refcount' \in [Resources -> Nat]
  BY DEF Publish, CacheTypeOK, TypeOK
<1>6. pins' \in [Resources -> SUBSET PinOwners]
  BY <1>2, ActorAssumption DEF Publish
<1>7. /\ entries' \subseteq Resources
      /\ replacement' \subseteq entries'
      /\ staged' \subseteq entries'
      /\ older' \subseteq entries' \X entries'
  BY <1>3 DEF Publish, CacheTypeOK, TypeOK
<1>8. QED
  BY <1>4, <1>5, <1>6, <1>7 DEF CacheTypeOK

\* A thread inside a loader is building a resource of the catalog.
LEMMA LoadingFrame ==
  ASSUME TypeOK, NEW t \in Threads, Loading(t)
  PROVE  /\ Head(stack[t]).id \in Resources
         /\ Head(stack[t]).replacement \in BOOLEAN
         /\ Tail(stack[t]) \in Seq(Frames)
<1>1. stack[t] \in Seq(Frames) /\ stack[t] # <<>> /\ Head(stack[t]).kind = "load"
  BY DEF TypeOK, Loading
<1>2. Head(stack[t]) \in Frames /\ Tail(stack[t]) \in Seq(Frames)
  BY <1>1, HeadTailProperties
<1>3. Head(stack[t]) \in [kind : {"load"}, id : Resources, replacement : BOOLEAN]
  BY <1>1, <1>2 DEF Frames
<1>4. QED
  BY <1>2, <1>3

LEMMA PushType ==
  ASSUME TypeOK, NEW t \in Threads, NEW f \in Frames
  PROVE  [stack EXCEPT ![t] = <<f>> \o @] \in [Threads -> Seq(Frames)]
<1>1. stack[t] \in Seq(Frames) /\ <<f>> \in Seq(Frames)
  BY DEF TypeOK
<1>2. <<f>> \o stack[t] \in Seq(Frames)
  BY <1>1, ConcatProperties
<1>3. QED
  BY <1>2 DEF TypeOK

\* A lease is lent on a resource of the catalog.
LEMMA LendType ==
  ASSUME LeaseTypeOK, NEW l \in Leases, NEW r \in Resources, Lend(l, r)
  PROVE  LeaseTypeOK'
BY DEF LeaseTypeOK, Lend

LEMMA EvictAndReleaseType ==
  ASSUME TypeOK, NEW V, EvictAndRelease(V)
  PROVE  CacheTypeOK' /\ (staged \subseteq entries)' /\ records' \in [Resources -> Nat]
<1>1. CacheTypeOK'
  BY EvictType DEF EvictAndRelease, TypeOK
<1>2. records' \in [Resources -> Nat]
  BY FreedType DEF EvictAndRelease, TypeOK
<1>3. staged' \subseteq entries'
  BY DEF EvictAndRelease, Evict, TypeOK
<1>4. QED
  BY <1>1, <1>2, <1>3

LEMMA InitTypeOK == Init => TypeOK
<1>1. <<>> \in Seq(Frames)
  BY EmptySeq
<1> SUFFICES ASSUME Init PROVE TypeOK
  OBVIOUS
<1>2. CacheTypeOK /\ staged \subseteq entries
  BY DEF Init, CacheTypeOK
<1>3. LeaseTypeOK /\ WorldTypeOK
  BY DEF Init, LeaseTypeOK, WorldTypeOK
<1>4. /\ records \in [Resources -> Nat] /\ scratchBusy \in BOOLEAN
      /\ stack \in [Threads -> Seq(Frames)]
  BY <1>1 DEF Init
<1>5. QED
  BY <1>2, <1>3, <1>4 DEF TypeOK

\* Every action preserves the types.
LEMMA NextTypeOK == TypeOK /\ [Next]_vars => TypeOK'
<1> SUFFICES ASSUME TypeOK, [Next]_vars PROVE TypeOK'
  OBVIOUS
<1> USE DEF worldVars, leaseVars, cacheVars
<1>1. ASSUME NEW l \in Leases, NEW r \in Resources, AcquireResident(l, r)
      PROVE  TypeOK'
  <2>1. LeaseTypeOK'
    BY <1>1, LendType DEF AcquireResident, TypeOK
  <2>2. CacheTypeOK'
    BY <1>1 DEF AcquireResident, TypeOK, CacheTypeOK, Forget
  <2>3. QED
    BY <1>1, <2>1, <2>2 DEF AcquireResident, TypeOK, WorldTypeOK
<1>2. ASSUME NEW l \in Leases, NEW r \in Resources, AcquireRaw(l, r)
      PROVE  TypeOK'
  <2>1. LeaseTypeOK'
    BY <1>2, LendType DEF AcquireRaw, TypeOK
  <2>2. CacheTypeOK' /\ (staged \subseteq entries)'
    BY <1>2, PublishType DEF AcquireRaw
  <2>3. Freed(Victims(r)) \in [Resources -> Nat]
    BY FreedType DEF TypeOK
  <2>4. records' \in [Resources -> Nat]
    BY <1>2, <2>3 DEF AcquireRaw
  <2>5. QED
    BY <1>2, <2>1, <2>2, <2>4 DEF AcquireRaw, TypeOK, WorldTypeOK
<1>3. ASSUME NEW r \in Resources, AcquireFails(r)
      PROVE  TypeOK'
  <2>1. CacheTypeOK' /\ (staged \subseteq entries)' /\ records' \in [Resources -> Nat]
    BY <1>3, EvictAndReleaseType DEF AcquireFails
  <2>2. QED
    BY <1>3, <2>1 DEF AcquireFails, TypeOK, WorldTypeOK, LeaseTypeOK
<1>4. ASSUME NEW t \in Threads, NEW r \in Resources, NEW b \in BOOLEAN, BeginLoad(t, r, b)
      PROVE  TypeOK'
  <2> DEFINE f == [kind |-> "load", id |-> r, replacement |-> b]
  <2>1. f \in Frames
    BY DEF Frames
  <2>2. stack' \in [Threads -> Seq(Frames)]
    BY <1>4, <2>1, PushType DEF BeginLoad
  <2>3. CacheTypeOK'
    BY <1>4, EvictType DEF BeginLoad, TypeOK
  <2>4. staged' \subseteq entries'
    BY <1>4 DEF BeginLoad, Evict, TypeOK
  <2>5. Freed(Victims(r)) \in [Resources -> Nat]
    BY FreedType DEF TypeOK
  <2>6. records' \in [Resources -> Nat]
    BY <1>4, <2>5 DEF BeginLoad
  <2>7. scratchBusy' \in BOOLEAN
    BY <1>4 DEF BeginLoad, UsesScratch
  <2>8. QED
    BY <1>4, <2>2, <2>3, <2>4, <2>6, <2>7 DEF BeginLoad, TypeOK, WorldTypeOK, LeaseTypeOK
<1>5. ASSUME NEW t \in Threads, NEW l \in Leases, EndLoad(t, l)
      PROVE  TypeOK'
  <2>1. /\ Head(stack[t]).id \in Resources
        /\ Head(stack[t]).replacement \in BOOLEAN
        /\ Tail(stack[t]) \in Seq(Frames)
    BY <1>5, LoadingFrame DEF EndLoad
  <2>2. CacheTypeOK' /\ (staged \subseteq entries)'
    BY <1>5, <2>1, PublishType DEF EndLoad
  <2>3. LeaseTypeOK'
    BY <1>5, <2>1, LendType DEF EndLoad, TypeOK
  <2>4. QED
    BY <1>5, <2>1, <2>2, <2>3 DEF EndLoad, TypeOK, WorldTypeOK
<1>6. ASSUME NEW t \in Threads, EndLoadFails(t)
      PROVE  TypeOK'
  <2>1. Head(stack[t]).id \in Resources /\ Tail(stack[t]) \in Seq(Frames)
    BY <1>6, LoadingFrame DEF EndLoadFails
  <2>2. records' \in [Resources -> Nat]
    BY <1>6, <2>1, LessType DEF EndLoadFails, TypeOK
  <2>3. QED
    BY <1>6, <2>1, <2>2 DEF EndLoadFails, TypeOK, WorldTypeOK, LeaseTypeOK, CacheTypeOK
<1>7. CASE AcquireDerivedThrows
  BY <1>7 DEF AcquireDerivedThrows, TypeOK, WorldTypeOK, LeaseTypeOK, CacheTypeOK
<1>8. ASSUME NEW t \in Threads, BeginStream(t)
      PROVE  TypeOK'
  <2>1. [kind |-> "stream", id |-> NoResource, replacement |-> FALSE] \in Frames
    BY DEF Frames
  <2>2. stack' \in [Threads -> Seq(Frames)]
    BY <1>8, <2>1, PushType DEF BeginStream
  <2>3. QED
    BY <1>8, <2>2 DEF BeginStream, TypeOK, WorldTypeOK, LeaseTypeOK, CacheTypeOK
<1>9. ASSUME NEW t \in Threads, EndStream(t)
      PROVE  TypeOK'
  <2>1. Tail(stack[t]) \in Seq(Frames)
    BY <1>9, HeadTailProperties DEF EndStream, TypeOK
  <2>2. QED
    BY <1>9, <2>1 DEF EndStream, TypeOK, WorldTypeOK, LeaseTypeOK, CacheTypeOK
<1>10. ASSUME NEW l \in Leases, ReleaseLease(l)
       PROVE  TypeOK'
  <2> DEFINE r == leaseOf[l]
  <2>1. r \in Resources
    BY <1>10 DEF ReleaseLease, TypeOK, LeaseTypeOK
  <2>2. refcount' \in [Resources -> Nat]
    BY <1>10, <2>1 DEF ReleaseLease, TypeOK, CacheTypeOK
  <2>3. older' \subseteq entries \X entries
    BY <1>10 DEF ReleaseLease, TypeOK, CacheTypeOK
  <2>4. LeaseTypeOK'
    BY <1>10 DEF ReleaseLease, TypeOK, LeaseTypeOK
  <2>5. QED
    BY <1>10, <2>2, <2>3, <2>4 DEF ReleaseLease, TypeOK, WorldTypeOK, CacheTypeOK
<1>11. ASSUME NEW r \in Resources, NEW o \in PinOwners, Pin(r, o)
       PROVE  TypeOK'
  BY <1>11 DEF Pin, TypeOK, WorldTypeOK, LeaseTypeOK, CacheTypeOK
<1>12. ASSUME NEW r \in Resources, NEW o \in PinOwners, Unpin(r, o)
       PROVE  TypeOK'
  BY <1>12 DEF Unpin, TypeOK, WorldTypeOK, LeaseTypeOK, CacheTypeOK
<1>13. ASSUME NEW g \in Groups, PurgeGroup(g)
       PROVE  TypeOK'
  <2>1. CacheTypeOK' /\ (staged \subseteq entries)' /\ records' \in [Resources -> Nat]
    BY <1>13, EvictAndReleaseType DEF PurgeGroup
  <2>2. QED
    BY <1>13, <2>1 DEF PurgeGroup, TypeOK, WorldTypeOK, LeaseTypeOK
<1>14. CASE PurgeZeroReference
  <2>1. CacheTypeOK' /\ (staged \subseteq entries)' /\ records' \in [Resources -> Nat]
    BY <1>14, EvictAndReleaseType DEF PurgeZeroReference
  <2>2. QED
    BY <1>14, <2>1 DEF PurgeZeroReference, TypeOK, WorldTypeOK, LeaseTypeOK
<1>15. ASSUME NEW g \in Groups \cup {NoGroup}, NEW kind \in TransitionKinds,
              BeginTransition(g, kind)
       PROVE  TypeOK'
  <2>1. CacheTypeOK' /\ (staged \subseteq entries)' /\ records' \in [Resources -> Nat]
    BY <1>15, EvictAndReleaseType DEF BeginTransition
  <2>2. WorldTypeOK'
    BY <1>15 DEF BeginTransition, TypeOK, WorldTypeOK
  <2>3. QED
    BY <1>15, <2>1, <2>2 DEF BeginTransition, TypeOK, LeaseTypeOK
<1>16. ASSUME NEW kind \in TransitionKinds, BeginTransitionRefused(kind)
       PROVE  TypeOK'
  <2>1. CacheTypeOK' /\ (staged \subseteq entries)' /\ records' \in [Resources -> Nat]
    BY <1>16, EvictAndReleaseType DEF BeginTransitionRefused
  <2>2. QED
    BY <1>16, <2>1 DEF BeginTransitionRefused, TypeOK, WorldTypeOK, LeaseTypeOK
<1>17. CASE CommitTransition
  <2>1. transition \in [target : Groups \cup {NoGroup}, kind : TransitionKinds]
    BY <1>17 DEF CommitTransition, TypeOK, WorldTypeOK
  <2>2. WorldTypeOK'
    BY <1>17, <2>1 DEF CommitTransition, WorldTypeOK
  <2>3. QED
    BY <1>17, <2>2 DEF CommitTransition, TypeOK, LeaseTypeOK, CacheTypeOK
<1>18. CASE CancelTransition
  <2>1. CacheTypeOK'
    BY <1>18, EvictType DEF CancelTransition, TypeOK
  <2>2. records' \in [Resources -> Nat]
    BY <1>18, FreedType DEF CancelTransition, TypeOK
  <2>3. QED
    BY <1>18, <2>1, <2>2 DEF CancelTransition, TypeOK, WorldTypeOK, LeaseTypeOK
<1>19. CASE UNCHANGED vars
  BY <1>19 DEF vars, TypeOK, WorldTypeOK, LeaseTypeOK, CacheTypeOK
<1>20. QED
  BY <1>1, <1>2, <1>3, <1>4, <1>5, <1>6, <1>7, <1>8, <1>9, <1>10, <1>11, <1>12,
     <1>13, <1>14, <1>15, <1>16, <1>17, <1>18, <1>19 DEF Next

\* Every variable of the cache has its type, whatever the catalog and the caps.
THEOREM TypeCorrect == Spec => []TypeOK
BY InitTypeOK, NextTypeOK, PTL DEF Spec

-----------------------------------------------------------------------------
(* Leases are accounted for: the refcounts are counts of leases, so what   *)
(* an eviction may take (Unheld) is nobody's.                              *)

Outstanding == { l \in Leases : leaseOf[l] # NoResource }

LEMMA HoldersFinite ==
  ASSUME NEW r
  PROVE  IsFiniteSet(Holders(r)) /\ Cardinality(Holders(r)) \in Nat
<1>1. Holders(r) \in SUBSET Leases /\ IsFiniteSet(Leases)
  BY ActorAssumption DEF Holders
<1>2. QED
  BY <1>1, FS_Subset, FS_CardinalityType

LEMMA OutstandingFinite == IsFiniteSet(Outstanding) /\ Cardinality(Outstanding) \in Nat
<1>1. Outstanding \in SUBSET Leases /\ IsFiniteSet(Leases)
  BY ActorAssumption DEF Outstanding
<1>2. QED
  BY <1>1, FS_Subset, FS_CardinalityType

\* No lease is on an entry that is unheld, nor on one that is absent.
LEMMA NobodyHolds ==
  ASSUME LeasesAccounted, NEW r \in Resources, r \in Unheld \/ r \notin entries
  PROVE  Holders(r) = {} /\ refcount[r] = 0
<1>1. CASE r \in Unheld
  <2>1. Cardinality(Holders(r)) = 0
    BY <1>1 DEF LeasesAccounted, Unheld
  <2>2. QED
    BY <1>1, <2>1, HoldersFinite, FS_EmptySet DEF Unheld
<1>2. CASE r \notin entries
  <2>1. r # NoResource
    BY CatalogAssumption
  <2>2. Holders(r) = {}
    BY <1>2, <2>1 DEF LeasesAccounted, Holders
  <2>3. QED
    BY <2>2, FS_EmptySet DEF LeasesAccounted
<1>3. QED
  BY <1>1, <1>2

\* Lending adds one lease to the resource and to the manager's count.
LEMMA LendCounts ==
  ASSUME TypeOK, NEW l \in Leases, NEW r \in Resources, Lend(l, r)
  PROVE  /\ Cardinality(Holders(r)') = Cardinality(Holders(r)) + 1
         /\ \A x \in Resources \ {r} : Holders(x)' = Holders(x)
         /\ Cardinality(Outstanding') = Cardinality(Outstanding) + 1
<1> USE DEF Lend, TypeOK, LeaseTypeOK
<1>1. r # NoResource
  BY CatalogAssumption
<1>2. Holders(r)' = Holders(r) \cup {l} /\ l \notin Holders(r)
  BY <1>1 DEF Holders
<1>3. \A x \in Resources \ {r} : Holders(x)' = Holders(x)
  BY CatalogAssumption DEF Holders
<1>4. Outstanding' = Outstanding \cup {l} /\ l \notin Outstanding
  BY <1>1 DEF Outstanding
<1>5. Cardinality(Holders(r) \cup {l}) = Cardinality(Holders(r)) + 1
  BY <1>2, HoldersFinite, FS_AddElement
<1>6. Cardinality(Outstanding \cup {l}) = Cardinality(Outstanding) + 1
  BY <1>4, OutstandingFinite, FS_AddElement
<1>7. QED
  BY <1>2, <1>3, <1>4, <1>5, <1>6

\* An eviction of unheld entries leaves the accounts as they are.
LEMMA EvictLeases ==
  ASSUME TypeOK, LeasesAccounted, NEW V \in SUBSET Unheld, Evict(V), UNCHANGED leaseVars
  PROVE  LeasesAccounted'
<1> USE DEF leaseVars
<1>1. V \subseteq Resources
  BY DEF Unheld, TypeOK, CacheTypeOK
<1>2. \A r \in Resources : refcount'[r] = refcount[r] /\ Holders(r)' = Holders(r)
  BY DEF Evict, Unheld, Holders
<1>3. \A l \in Leases : leaseOf[l] \notin V
  BY <1>1, NobodyHolds DEF Holders
<1>4. \A l \in Leases : leaseOf'[l] \in entries' \cup {NoResource}
  BY <1>3 DEF Evict, LeasesAccounted
<1>5. leases' = Cardinality(Outstanding)'
  BY DEF LeasesAccounted, Outstanding
<1>6. QED
  BY <1>2, <1>4, <1>5 DEF LeasesAccounted, Outstanding

\* A publication with its first lease, too.
LEMMA PublishLeases ==
  ASSUME TypeOK, LeasesAccounted, NEW V \in SUBSET Unheld, NEW l \in Leases,
         NEW r \in Resources \ entries, NEW b, Publish(V, r, b), Lend(l, r)
  PROVE  LeasesAccounted'
<1>1. V \subseteq Resources
  BY DEF Unheld, TypeOK, CacheTypeOK
<1>2. /\ Cardinality(Holders(r)') = Cardinality(Holders(r)) + 1
      /\ \A x \in Resources \ {r} : Holders(x)' = Holders(x)
      /\ Cardinality(Outstanding') = Cardinality(Outstanding) + 1
  BY LendCounts
<1>3. Cardinality(Holders(r)) = 0
  BY NobodyHolds, FS_EmptySet
<1>4. refcount'[r] = Cardinality(Holders(r)')
  BY <1>2, <1>3 DEF Publish
<1>5. \A x \in Resources \ {r} : refcount'[x] = refcount[x]
  BY DEF Publish, Unheld
<1>6. \A x \in Resources : refcount'[x] = Cardinality(Holders(x)')
  BY <1>2, <1>4, <1>5 DEF LeasesAccounted
<1>7. \A k \in Leases : leaseOf[k] \notin V
  BY <1>1, NobodyHolds DEF Holders
<1>8. \A k \in Leases : leaseOf'[k] \in entries' \cup {NoResource}
  BY <1>7 DEF Publish, Lend, LeasesAccounted, TypeOK, LeaseTypeOK
<1>9. leases' = Cardinality(Outstanding')
  BY <1>2 DEF LeasesAccounted, Outstanding, Lend
<1>10. QED
  BY <1>6, <1>8, <1>9 DEF LeasesAccounted, Outstanding

\* Returning a lease takes one off its resource and off the manager's count.
LEMMA ReleaseLeases ==
  ASSUME TypeOK, LeasesAccounted, NEW l \in Leases, ReleaseLease(l)
  PROVE  LeasesAccounted'
<1>0. PICK r : r = leaseOf[l]
  OBVIOUS
<1>1. r \in entries /\ r \in Resources /\ r # NoResource
  BY <1>0 DEF ReleaseLease, LeasesAccounted, TypeOK, CacheTypeOK
<1>2. l \in Holders(r) /\ l \in Outstanding
  BY <1>0, <1>1 DEF Holders, Outstanding
<1>3. refcount[r] # 0 /\ refcount[r] \in Nat
  BY <1>1, <1>2, HoldersFinite, FS_EmptySet DEF LeasesAccounted
<1>4. /\ leaseOf' = [leaseOf EXCEPT ![l] = NoResource]
      /\ leases' = leases - 1
      /\ refcount' = [refcount EXCEPT ![r] = @ - 1]
      /\ entries' = entries
  BY <1>0, <1>1, <1>3 DEF ReleaseLease
<1>5. Holders(r)' = Holders(r) \ {l}
  BY <1>1, <1>4 DEF Holders, TypeOK, LeaseTypeOK
<1>6. \A x \in Resources \ {r} : Holders(x)' = Holders(x)
  BY <1>0, <1>4, CatalogAssumption DEF Holders, TypeOK, LeaseTypeOK
<1>7. Outstanding' = Outstanding \ {l}
  BY <1>0, <1>4 DEF Outstanding, TypeOK, LeaseTypeOK
<1>8. Cardinality(Holders(r) \ {l}) = Cardinality(Holders(r)) - 1
  BY <1>2, HoldersFinite, FS_RemoveElement
<1>9. Cardinality(Outstanding \ {l}) = Cardinality(Outstanding) - 1
  BY <1>2, OutstandingFinite, FS_RemoveElement
<1>10. \A x \in Resources : refcount'[x] = Cardinality(Holders(x)')
  <2>1. refcount'[r] = Cardinality(Holders(r)')
    BY <1>1, <1>4, <1>5, <1>8 DEF LeasesAccounted, TypeOK, CacheTypeOK
  <2>2. \A x \in Resources \ {r} : refcount'[x] = Cardinality(Holders(x)')
    BY <1>4, <1>6 DEF LeasesAccounted, TypeOK, CacheTypeOK
  <2>3. QED
    BY <2>1, <2>2
<1>11. \A k \in Leases : leaseOf'[k] \in entries' \cup {NoResource}
  BY <1>4 DEF LeasesAccounted, TypeOK, LeaseTypeOK
<1>12. leases' = Cardinality(Outstanding')
  BY <1>4, <1>7, <1>9 DEF LeasesAccounted, Outstanding
<1>13. QED
  BY <1>10, <1>11, <1>12 DEF LeasesAccounted, Outstanding

LEMMA InitLeases == Init => LeasesAccounted
<1> SUFFICES ASSUME Init PROVE LeasesAccounted
  OBVIOUS
<1>1. \A r \in Resources : Holders(r) = {}
  BY CatalogAssumption DEF Init, Holders
<1>2. \A l \in Leases : leaseOf[l] = NoResource
  BY DEF Init
<1>3. { l \in Leases : leaseOf[l] # NoResource } = {}
  BY <1>2
<1>4. \A r \in Resources : refcount[r] = 0
  BY DEF Init
<1>5. leases = 0
  BY DEF Init
<1>6. QED
  BY <1>1, <1>2, <1>3, <1>4, <1>5, FS_EmptySet DEF LeasesAccounted

\* Every action keeps the accounts.
LEMMA NextLeases == TypeOK /\ LeasesAccounted /\ [Next]_vars => LeasesAccounted'
<1> SUFFICES ASSUME TypeOK, LeasesAccounted, [Next]_vars PROVE LeasesAccounted'
  OBVIOUS
<1>0. ASSUME UNCHANGED <<entries, refcount, leaseOf, leases>>
      PROVE  LeasesAccounted'
  BY <1>0 DEF LeasesAccounted, Holders
<1>1. ASSUME NEW l \in Leases, NEW r \in Resources, AcquireResident(l, r)
      PROVE  LeasesAccounted'
  <2>1. /\ Cardinality(Holders(r)') = Cardinality(Holders(r)) + 1
        /\ \A x \in Resources \ {r} : Holders(x)' = Holders(x)
        /\ Cardinality(Outstanding') = Cardinality(Outstanding) + 1
    BY <1>1, LendCounts DEF AcquireResident
  <2>2. \A x \in Resources : refcount'[x] = Cardinality(Holders(x)')
    BY <1>1, <2>1 DEF AcquireResident, LeasesAccounted, TypeOK, CacheTypeOK
  <2>3. \A k \in Leases : leaseOf'[k] \in entries' \cup {NoResource}
    BY <1>1 DEF AcquireResident, Lend, LeasesAccounted, TypeOK, LeaseTypeOK
  <2>4. leases' = Cardinality(Outstanding')
    BY <1>1, <2>1 DEF AcquireResident, Lend, LeasesAccounted, Outstanding
  <2>5. QED
    BY <2>2, <2>3, <2>4 DEF LeasesAccounted, Outstanding
<1>2. ASSUME NEW l \in Leases, NEW r \in Resources, AcquireRaw(l, r)
      PROVE  LeasesAccounted'
  BY <1>2, VictimsUnheld, PublishLeases DEF AcquireRaw
<1>3. ASSUME NEW r \in Resources, AcquireFails(r)
      PROVE  LeasesAccounted'
  BY <1>3, VictimsUnheld, EvictLeases DEF AcquireFails, EvictAndRelease
<1>4. ASSUME NEW t \in Threads, NEW r \in Resources, NEW b \in BOOLEAN, BeginLoad(t, r, b)
      PROVE  LeasesAccounted'
  BY <1>4, VictimsUnheld, EvictLeases DEF BeginLoad
<1>5. ASSUME NEW t \in Threads, NEW l \in Leases, EndLoad(t, l)
      PROVE  LeasesAccounted'
  <2>1. Head(stack[t]).id \in Resources \ entries
    BY <1>5, LoadingFrame DEF EndLoad
  <2>2. QED
    BY <1>5, <2>1, PublishLeases DEF EndLoad
<1>6. ASSUME NEW t \in Threads, EndLoadFails(t)
      PROVE  LeasesAccounted'
  BY <1>0, <1>6 DEF EndLoadFails, cacheVars, leaseVars
<1>7. CASE AcquireDerivedThrows
  BY <1>0, <1>7 DEF AcquireDerivedThrows, cacheVars, leaseVars
<1>8. ASSUME NEW t \in Threads, BeginStream(t)
      PROVE  LeasesAccounted'
  BY <1>0, <1>8 DEF BeginStream, cacheVars, leaseVars
<1>9. ASSUME NEW t \in Threads, EndStream(t)
      PROVE  LeasesAccounted'
  BY <1>0, <1>9 DEF EndStream, cacheVars, leaseVars
<1>10. ASSUME NEW l \in Leases, ReleaseLease(l)
       PROVE  LeasesAccounted'
  BY <1>10, ReleaseLeases
<1>11. ASSUME NEW r \in Resources, NEW o \in PinOwners, Pin(r, o) \/ Unpin(r, o)
       PROVE  LeasesAccounted'
  BY <1>0, <1>11 DEF Pin, Unpin, leaseVars
<1>12. ASSUME NEW g \in Groups, PurgeGroup(g)
       PROVE  LeasesAccounted'
  BY <1>12, SweepsUnheld, EvictLeases DEF PurgeGroup, EvictAndRelease
<1>13. CASE PurgeZeroReference
  BY <1>13, SweepsUnheld, EvictLeases DEF PurgeZeroReference, EvictAndRelease
<1>14. ASSUME NEW g \in Groups \cup {NoGroup}, NEW kind \in TransitionKinds,
              BeginTransition(g, kind) \/ BeginTransitionRefused(kind)
       PROVE  LeasesAccounted'
  BY <1>14, SweepsUnheld, EvictLeases
     DEF BeginTransition, BeginTransitionRefused, EvictAndRelease
<1>15. CASE CommitTransition
  BY <1>0, <1>15 DEF CommitTransition, cacheVars, leaseVars
<1>16. CASE CancelTransition
  BY <1>16, SweepsUnheld, EvictLeases DEF CancelTransition
<1>17. CASE UNCHANGED vars
  BY <1>0, <1>17 DEF vars, cacheVars, leaseVars
<1>18. QED
  BY <1>1, <1>2, <1>3, <1>4, <1>5, <1>6, <1>7, <1>8, <1>9, <1>10, <1>11, <1>12,
     <1>13, <1>14, <1>15, <1>16, <1>17 DEF Next

\* Whatever the catalog, the caps and the threads do, refcounts count leases
\* and what a lease holds is resident.
THEOREM LeasesAlwaysAccounted == Spec => []LeasesAccounted
BY InitTypeOK, NextTypeOK, InitLeases, NextLeases, PTL DEF Spec

-----------------------------------------------------------------------------
(* The cache implements LeaseCache: grants, returns and drops are what its *)
(* actions come to for the code that holds leases.                         *)

LEMMA UnheldMayDrop ==
  ASSUME TypeOK, LeasesAccounted, NEW V \in SUBSET Unheld
  PROVE  V \subseteq entries \ Promise!Held
<1>1. V \subseteq Resources
  BY DEF Unheld, TypeOK, CacheTypeOK
<1>2. \A l \in Leases : leaseOf[l] \notin V
  BY <1>1, NobodyHolds DEF Holders
<1>3. QED
  BY <1>2 DEF Promise!Held, Unheld

LEMMA EvictDrops ==
  ASSUME TypeOK, LeasesAccounted, NEW V \in SUBSET Unheld, Evict(V), UNCHANGED leaseVars
  PROVE  Promise!Next
<1>1. V \in SUBSET entries
  BY DEF Unheld
<1>2. Promise!Drop(V)
  BY UnheldMayDrop DEF Promise!Drop, Evict, leaseVars
<1>3. QED
  BY <1>1, <1>2 DEF Promise!Next

LEMMA PublishGrants ==
  ASSUME TypeOK, LeasesAccounted, NEW V \in SUBSET Unheld, NEW l \in Leases,
         NEW r \in Resources, NEW b, Publish(V, r, b), Lend(l, r)
  PROVE  Promise!Next
<1>1. V \in SUBSET entries
  BY DEF Unheld
<1>2. Promise!Grant(l, r, V)
  BY UnheldMayDrop DEF Promise!Grant, Publish, Lend
<1>3. QED
  BY <1>1, <1>2 DEF Promise!Next

LEMMA InitPromise == Init => Promise!Init
BY DEF Init, Promise!Init

\* Every action is a grant, a return, a drop or a stutter.
LEMMA NextPromise ==
  TypeOK /\ LeasesAccounted /\ [Next]_vars => [Promise!Next]_Promise!vars
<1> SUFFICES ASSUME TypeOK, LeasesAccounted, [Next]_vars
             PROVE  [Promise!Next]_Promise!vars
  OBVIOUS
<1>0. ASSUME UNCHANGED <<entries, leaseOf>>
      PROVE  UNCHANGED Promise!vars
  BY <1>0 DEF Promise!vars
<1>1. ASSUME NEW l \in Leases, NEW r \in Resources, AcquireResident(l, r)
      PROVE  Promise!Next
  <2>1. Promise!Grant(l, r, {})
    BY <1>1 DEF AcquireResident, Lend, Promise!Grant
  <2>2. QED
    BY <2>1 DEF Promise!Next
<1>2. ASSUME NEW l \in Leases, NEW r \in Resources, AcquireRaw(l, r)
      PROVE  Promise!Next
  BY <1>2, VictimsUnheld, PublishGrants DEF AcquireRaw
<1>3. ASSUME NEW r \in Resources, AcquireFails(r)
      PROVE  Promise!Next
  BY <1>3, VictimsUnheld, EvictDrops DEF AcquireFails, EvictAndRelease
<1>4. ASSUME NEW t \in Threads, NEW r \in Resources, NEW b \in BOOLEAN, BeginLoad(t, r, b)
      PROVE  Promise!Next
  BY <1>4, VictimsUnheld, EvictDrops DEF BeginLoad
<1>5. ASSUME NEW t \in Threads, NEW l \in Leases, EndLoad(t, l)
      PROVE  Promise!Next
  <2>1. Head(stack[t]).id \in Resources
    BY <1>5, LoadingFrame DEF EndLoad
  <2>2. QED
    BY <1>5, <2>1, PublishGrants DEF EndLoad
<1>6. ASSUME NEW t \in Threads, EndLoadFails(t) \/ BeginStream(t) \/ EndStream(t)
      PROVE  UNCHANGED Promise!vars
  BY <1>0, <1>6 DEF EndLoadFails, BeginStream, EndStream, cacheVars, leaseVars
<1>7. CASE AcquireDerivedThrows
  BY <1>0, <1>7 DEF AcquireDerivedThrows, cacheVars, leaseVars
<1>8. ASSUME NEW l \in Leases, ReleaseLease(l)
      PROVE  Promise!Next
  <2>1. Promise!Return(l)
    BY <1>8 DEF ReleaseLease, Promise!Return
  <2>2. QED
    BY <2>1 DEF Promise!Next
<1>9. ASSUME NEW r \in Resources, NEW o \in PinOwners, Pin(r, o) \/ Unpin(r, o)
      PROVE  UNCHANGED Promise!vars
  BY <1>0, <1>9 DEF Pin, Unpin, leaseVars
<1>10. ASSUME NEW g \in Groups, PurgeGroup(g)
       PROVE  Promise!Next
  BY <1>10, SweepsUnheld, EvictDrops DEF PurgeGroup, EvictAndRelease
<1>11. CASE PurgeZeroReference
  BY <1>11, SweepsUnheld, EvictDrops DEF PurgeZeroReference, EvictAndRelease
<1>12. ASSUME NEW g \in Groups \cup {NoGroup}, NEW kind \in TransitionKinds,
              BeginTransition(g, kind) \/ BeginTransitionRefused(kind)
       PROVE  Promise!Next
  BY <1>12, SweepsUnheld, EvictDrops
     DEF BeginTransition, BeginTransitionRefused, EvictAndRelease
<1>13. CASE CommitTransition
  BY <1>0, <1>13 DEF CommitTransition, cacheVars, leaseVars
<1>14. CASE CancelTransition
  BY <1>14, SweepsUnheld, EvictDrops DEF CancelTransition
<1>15. CASE UNCHANGED vars
  BY <1>0, <1>15 DEF vars, cacheVars, leaseVars
<1>16. QED
  BY <1>1, <1>2, <1>3, <1>4, <1>5, <1>6, <1>7, <1>8, <1>9, <1>10, <1>11, <1>12,
     <1>13, <1>14, <1>15 DEF Next

\* The cache keeps LeaseCache's promise: what a lease holds stays resident.
THEOREM KeepsPromise == Spec => LeaseCachePromise
BY InitTypeOK, NextTypeOK, InitLeases, NextLeases, InitPromise, NextPromise, PTL
   DEF Spec, LeaseCachePromise, Promise!Spec

-----------------------------------------------------------------------------
(* The pools stay within their caps.  A unit is one budget unit of one     *)
(* ledger record, so the bytes of a pool are the number of its units.      *)

AllUnits == Resources \X (1..MaxDepth + 1) \X (1..MaxCharge)
Units(p, V) == { u \in AllUnits :
                   /\ PoolOf[u[1]] = p
                   /\ u[2] <= records[u[1]] - (IF u[1] \in V THEN 1 ELSE 0)
                   /\ u[3] <= ChargeOf[u[1]] }

LEMMA AllUnitsFinite == IsFiniteSet(AllUnits)
<1> DEFINE A == 1..MaxDepth + 1
           B == 1..MaxCharge
           N == (Resources \X A) \X B
           f == [w \in N |-> <<w[1][1], w[1][2], w[2]>>]
<1>1. IsFiniteSet(Resources) /\ IsFiniteSet(A) /\ IsFiniteSet(B)
  BY CatalogAssumption, ActorAssumption, FS_Interval
<1>2. IsFiniteSet(Resources \X A)
  BY <1>1, FS_Product
<1>3. IsFiniteSet(N)
  BY <1>1, <1>2, FS_Product
<1>4. f \in [N -> AllUnits]
  BY DEF AllUnits
<1>5. ASSUME NEW u \in AllUnits
      PROVE  \E w \in N : f[w] = u
  <2>1. <<<<u[1], u[2]>>, u[3]>> \in N
    BY DEF AllUnits
  <2>2. f[<<<<u[1], u[2]>>, u[3]>>] = u
    BY <2>1 DEF AllUnits
  <2>3. QED
    BY <2>1, <2>2
<1>6. f \in Surjection(N, AllUnits)
  BY <1>4, <1>5 DEF Surjection
<1>7. QED
  BY <1>3, <1>6, FS_Surjection

LEMMA UnitsFinite ==
  ASSUME NEW p, NEW V
  PROVE  IsFiniteSet(Units(p, V)) /\ Cardinality(Units(p, V)) \in Nat
BY AllUnitsFinite, FS_Subset, FS_CardinalityType DEF Units

LEMMA BytesAreUnits == \A p, V : BytesWithout(p, V) = Cardinality(Units(p, V))
BY DEF BytesWithout, Units, AllUnits

\* Fewer records, fewer units.
LEMMA ReleaseUnits ==
  ASSUME TypeOK, NEW p, records' \in [Resources -> Nat],
         \A r \in Resources : records'[r] <= records[r]
  PROVE  BytesWithout(p, {})' <= BytesWithout(p, {})
<1>1. Units(p, {})' \in SUBSET Units(p, {})
  BY DEF Units, AllUnits, TypeOK
<1>2. Cardinality(Units(p, {})') <= Cardinality(Units(p, {}))
  BY <1>1, UnitsFinite, FS_Subset
<1>3. QED
  BY <1>2, BytesAreUnits DEF BytesWithout, Units, AllUnits

LEMMA FreedUnits ==
  ASSUME TypeOK, NEW V, records' = Freed(V), NEW p
  PROVE  BytesWithout(p, {})' <= BytesWithout(p, {})
<1>1. records' \in [Resources -> Nat]
  BY FreedType DEF TypeOK
<1>2. \A r \in Resources : records'[r] <= records[r]
  BY DEF Freed, Less, TypeOK
<1>3. QED
  BY <1>1, <1>2, ReleaseUnits

\* One more record of r, after V was released: the units are V's absence plus at
\* most the charge of r.
LEMMA RequestUnits ==
  ASSUME TypeOK, NEW V \in SUBSET Unheld, NEW r \in Resources \ entries, Fits(V, r),
         records' = [Freed(V) EXCEPT ![r] = @ + 1], PoolWithinBudget, NEW p \in Pools
  PROVE  BytesWithout(p, {})' <= CapOf[p]
<1> DEFINE more == { u \in AllUnits : /\ u[1] = r /\ PoolOf[r] = p
                                      /\ u[2] = records[r] + 1
                                      /\ u[3] <= ChargeOf[r] }
           g == [u \in more |-> u[3]]
<1>0. records' \in [Resources -> Nat]
  <2>1. Freed(V) \in [Resources -> Nat]
    BY FreedType DEF TypeOK
  <2>2. QED
    BY <2>1
<1>1. r \notin V /\ V \subseteq Resources
  BY DEF Unheld, TypeOK, CacheTypeOK
<1>2. /\ records'[r] = records[r] + 1
      /\ \A x \in Resources \ {r} :
           records'[x] = IF x \in V THEN Less(records[x], 1) ELSE records[x]
  BY <1>1 DEF Freed, TypeOK
<1>3. \A x \in Resources \ {r}, n \in 1..MaxDepth + 1 :
        n <= records'[x] => n <= records[x] - (IF x \in V THEN 1 ELSE 0)
  BY <1>2, ActorAssumption DEF Less, TypeOK
<1>4. \A n \in 1..MaxDepth + 1 :
        n <= records'[r] => n <= records[r] \/ n = records[r] + 1
  BY <1>2, ActorAssumption DEF TypeOK
<1>5. ASSUME NEW u \in Units(p, {})'
      PROVE  u \in Units(p, V) \cup more
  <2>1. /\ u \in AllUnits /\ PoolOf[u[1]] = p
        /\ u[2] <= records'[u[1]] - 0 /\ u[3] <= ChargeOf[u[1]]
    BY <1>5 DEF Units
  <2>2. u[1] \in Resources /\ u[2] \in 1..MaxDepth + 1
    BY <2>1 DEF AllUnits
  <2>3. records'[u[1]] \in Nat
    BY <1>0, <2>2
  <2>4. u[2] <= records'[u[1]]
    BY <2>1, <2>2, <2>3
  <2>5. CASE u[1] = r
    BY <1>1, <1>4, <2>1, <2>2, <2>4, <2>5 DEF Units, TypeOK
  <2>6. CASE u[1] # r
    BY <1>3, <2>1, <2>2, <2>4, <2>6 DEF Units
  <2>7. QED
    BY <2>5, <2>6
<1>6. IsFiniteSet(more) /\ Cardinality(more) \in Nat
  BY AllUnitsFinite, FS_Subset, FS_CardinalityType
<1>7. Cardinality(more) <= ChargeOf[r]
  <2>1. ChargeOf[r] \in Nat
    BY CatalogAssumption
  <2>2. \A u \in more : u[3] \in 1..ChargeOf[r]
    BY <2>1 DEF AllUnits
  <2>3. \A u, w \in more : u[3] = w[3] => u = w
    BY DEF AllUnits
  <2>4. g \in Injection(more, 1..ChargeOf[r])
    BY <2>2, <2>3 DEF Injection, IsInjective
  <2>5. IsFiniteSet(1..ChargeOf[r]) /\ Cardinality(1..ChargeOf[r]) = ChargeOf[r]
    <3>1. /\ IsFiniteSet(1..ChargeOf[r])
          /\ Cardinality(1..ChargeOf[r]) = IF 1 > ChargeOf[r] THEN 0 ELSE ChargeOf[r] - 1 + 1
      BY <2>1, FS_Interval
    <3>2. QED
      BY <2>1, <3>1
  <2>6. QED
    BY <2>4, <2>5, FS_Injection
<1>8. Cardinality(Units(p, {})') <= Cardinality(Units(p, V) \cup more)
  <2>1. IsFiniteSet(Units(p, V) \cup more)
    BY <1>6, UnitsFinite, FS_Union
  <2>2. QED
    BY <1>5, <2>1, FS_Subset
<1>9. /\ Cardinality(Units(p, V) \cup more) <= Cardinality(Units(p, V)) + Cardinality(more)
      /\ Cardinality(Units(p, V) \cup more) \in Nat
  <2>1. IsFiniteSet(Units(p, V) \cap more)
    BY <1>6, FS_Subset
  <2>2. Cardinality(Units(p, V) \cap more) \in Nat
    BY <2>1, FS_CardinalityType
  <2>3. /\ IsFiniteSet(Units(p, V) \cup more)
        /\ Cardinality(Units(p, V) \cup more)
           = Cardinality(Units(p, V)) + Cardinality(more) - Cardinality(Units(p, V) \cap more)
    BY <1>6, UnitsFinite, FS_Union
  <2>4. Cardinality(Units(p, V) \cup more) \in Nat
    BY <2>3, FS_CardinalityType
  <2>5. Cardinality(Units(p, V)) \in Nat
    BY UnitsFinite
  <2>6. QED
    BY <1>6, <2>2, <2>3, <2>4, <2>5
<1>10. Cardinality(Units(p, {})') \in Nat
  <2>1. Units(p, {})' \in SUBSET AllUnits
    BY DEF Units
  <2>2. QED
    BY <2>1, AllUnitsFinite, FS_Subset, FS_CardinalityType
<1>11. CASE p = PoolOf[r]
  <2>1. Cardinality(Units(p, V)) + ChargeOf[r] <= CapOf[p]
    BY <1>11, BytesAreUnits DEF Fits
  <2>2. CapOf[p] \in Nat /\ ChargeOf[r] \in Nat
    BY CatalogAssumption
  <2>3. Cardinality(Units(p, {})') <= CapOf[p]
    <3>1. Cardinality(Units(p, V)) \in Nat
      BY UnitsFinite
    <3>2. QED
      BY <1>6, <1>7, <1>8, <1>9, <1>10, <2>1, <2>2, <3>1
  <2>4. QED
    BY <2>3 DEF BytesWithout, Units, AllUnits
<1>12. CASE p # PoolOf[r]
  <2>1. more = {}
    BY <1>12
  <2>2. Units(p, {})' \in SUBSET Units(p, {})
    BY <1>5, <2>1 DEF Units, AllUnits, TypeOK
  <2>3. Cardinality(Units(p, {})') <= Cardinality(Units(p, {}))
    BY <2>2, UnitsFinite, FS_Subset
  <2>4. Cardinality(Units(p, {})) <= CapOf[p] /\ CapOf[p] \in Nat
    BY BytesAreUnits, CatalogAssumption DEF PoolWithinBudget
  <2>5. Cardinality(Units(p, {})') <= CapOf[p]
    BY <1>10, <2>3, <2>4, UnitsFinite
  <2>6. QED
    BY <2>5 DEF BytesWithout, Units, AllUnits
<1>13. QED
  BY <1>11, <1>12

LEMMA InitBudget == Init => PoolWithinBudget
<1> SUFFICES ASSUME Init, NEW p \in Pools PROVE BytesWithout(p, {}) <= CapOf[p]
  BY DEF PoolWithinBudget
<1>1. Units(p, {}) = {}
  BY CatalogAssumption, ActorAssumption DEF Init, Units, AllUnits
<1>2. BytesWithout(p, {}) = 0
  BY <1>1, BytesAreUnits, FS_EmptySet
<1>3. CapOf[p] \in Nat
  BY CatalogAssumption
<1>4. QED
  BY <1>2, <1>3

\* What no record is added to stays within budget.
LEMMA ReleaseBudget ==
  ASSUME TypeOK, PoolWithinBudget, records' \in [Resources -> Nat],
         \A r \in Resources : records'[r] <= records[r]
  PROVE  PoolWithinBudget'
<1> SUFFICES ASSUME NEW p \in Pools PROVE BytesWithout(p, {})' <= CapOf[p]
  BY DEF PoolWithinBudget
<1>1. BytesWithout(p, {})' <= BytesWithout(p, {}) /\ BytesWithout(p, {}) <= CapOf[p]
  BY ReleaseUnits DEF PoolWithinBudget
<1>2. BytesWithout(p, {}) \in Nat /\ BytesWithout(p, {})' \in Nat
  <2>1. Units(p, {})' \in SUBSET AllUnits
    BY DEF Units
  <2>2. Cardinality(Units(p, {})') \in Nat
    BY <2>1, AllUnitsFinite, FS_Subset, FS_CardinalityType
  <2>3. BytesWithout(p, {})' \in Nat
    BY <2>2 DEF BytesWithout, Units, AllUnits
  <2>4. Cardinality(Units(p, {})) \in Nat
    BY UnitsFinite
  <2>5. QED
    BY <2>3, <2>4, BytesAreUnits
<1>3. QED
  BY <1>1, <1>2, CatalogAssumption

LEMMA FreedBudget ==
  ASSUME TypeOK, PoolWithinBudget, NEW V, records' = Freed(V)
  PROVE  PoolWithinBudget'
<1>1. records' \in [Resources -> Nat]
  BY FreedType DEF TypeOK
<1>2. \A r \in Resources : records'[r] <= records[r]
  BY DEF Freed, Less, TypeOK
<1>3. QED
  BY <1>1, <1>2, ReleaseBudget

LEMMA NextBudget == TypeOK /\ PoolWithinBudget /\ [Next]_vars => PoolWithinBudget'
<1> SUFFICES ASSUME TypeOK, PoolWithinBudget, [Next]_vars PROVE PoolWithinBudget'
  OBVIOUS
<1>0. ASSUME UNCHANGED records
      PROVE  PoolWithinBudget'
  BY <1>0, ReleaseBudget DEF TypeOK
<1>1. ASSUME NEW l \in Leases, NEW r \in Resources, AcquireRaw(l, r)
      PROVE  PoolWithinBudget'
  BY <1>1, VictimsUnheld, RequestUnits DEF AcquireRaw, PoolWithinBudget
<1>2. ASSUME NEW r \in Resources, AcquireFails(r)
      PROVE  PoolWithinBudget'
  BY <1>2, FreedBudget DEF AcquireFails, EvictAndRelease
<1>3. ASSUME NEW t \in Threads, NEW r \in Resources, NEW b \in BOOLEAN, BeginLoad(t, r, b)
      PROVE  PoolWithinBudget'
  BY <1>3, VictimsUnheld, RequestUnits DEF BeginLoad, PoolWithinBudget
<1>4. ASSUME NEW t \in Threads, EndLoadFails(t)
      PROVE  PoolWithinBudget'
  <2>1. Head(stack[t]).id \in Resources
    BY <1>4, LoadingFrame DEF EndLoadFails
  <2>2. /\ records' \in [Resources -> Nat]
        /\ \A r \in Resources : records'[r] <= records[r]
    BY <1>4, <2>1 DEF EndLoadFails, Less, TypeOK
  <2>3. QED
    BY <2>2, ReleaseBudget
<1>5. ASSUME NEW l \in Leases, NEW r \in Resources, AcquireResident(l, r)
      PROVE  PoolWithinBudget'
  BY <1>0, <1>5 DEF AcquireResident
<1>6. ASSUME NEW t \in Threads, NEW l \in Leases, EndLoad(t, l)
      PROVE  PoolWithinBudget'
  BY <1>0, <1>6 DEF EndLoad
<1>7. ASSUME NEW t \in Threads, BeginStream(t) \/ EndStream(t)
      PROVE  PoolWithinBudget'
  BY <1>0, <1>7 DEF BeginStream, EndStream
<1>8. CASE AcquireDerivedThrows
  BY <1>0, <1>8 DEF AcquireDerivedThrows
<1>9. ASSUME NEW l \in Leases, ReleaseLease(l)
      PROVE  PoolWithinBudget'
  BY <1>0, <1>9 DEF ReleaseLease
<1>10. ASSUME NEW r \in Resources, NEW o \in PinOwners, Pin(r, o) \/ Unpin(r, o)
       PROVE  PoolWithinBudget'
  BY <1>0, <1>10 DEF Pin, Unpin
<1>11. ASSUME NEW g \in Groups, PurgeGroup(g)
       PROVE  PoolWithinBudget'
  BY <1>11, FreedBudget DEF PurgeGroup, EvictAndRelease
<1>12. CASE PurgeZeroReference
  BY <1>12, FreedBudget DEF PurgeZeroReference, EvictAndRelease
<1>13. ASSUME NEW g \in Groups \cup {NoGroup}, NEW kind \in TransitionKinds,
              BeginTransition(g, kind) \/ BeginTransitionRefused(kind)
       PROVE  PoolWithinBudget'
  BY <1>13, FreedBudget DEF BeginTransition, BeginTransitionRefused, EvictAndRelease
<1>14. CASE CommitTransition
  BY <1>0, <1>14 DEF CommitTransition
<1>15. CASE CancelTransition
  BY <1>15, FreedBudget DEF CancelTransition
<1>16. CASE UNCHANGED vars
  BY <1>0, <1>16 DEF vars
<1>17. QED
  BY <1>1, <1>2, <1>3, <1>4, <1>5, <1>6, <1>7, <1>8, <1>9, <1>10, <1>11, <1>12,
     <1>13, <1>14, <1>15, <1>16 DEF Next

\* No pool is ever above its cap, loads in progress included.
THEOREM BudgetsHold == Spec => []PoolWithinBudget
BY InitTypeOK, NextTypeOK, InitBudget, NextBudget, PTL DEF Spec

-----------------------------------------------------------------------------
(***************************************************************************)
(* Who owns a ledger record, what keeps a sprite in the cache, what a pin  *)
(* and a world change protect.  The second and the last rest on the mutex: *)
(* while one thread is in a loader nobody else changes the cache, and as   *)
(* no loader of the program calls the manager back, what acquire_derived   *)
(* checked before the loader still holds when the entry is published.      *)
(***************************************************************************)

(* The places of the frames of id r in the stacks A.                       *)
Where(A, r) == { u \in Threads \X (1..MaxDepth) : u[2] \in DOMAIN A[u[1]]
                                                  /\ A[u[1]][u[2]].id = r }

(* B is A with frame f on top of thread t's stack.                         *)
Stacked(A, t, f, B) ==
  /\ \A u \in Threads \ {t} : B[u] = A[u]
  /\ DOMAIN A[t] = 1..Len(A[t]) /\ Len(A[t]) \in Nat
  /\ DOMAIN B[t] = 1..Len(A[t]) + 1
  /\ B[t][1] = f
  /\ \A i \in 1..Len(A[t]) : B[t][i + 1] = A[t][i]

DepthInv == \A t \in Threads : Len(stack[t]) <= MaxDepth

(* A ledger record is a load's or an entry's, in any nesting of loads.     *)
OwnerInv == DepthInv /\ RecordsOwned

(* One thread at most is in a loader, and it is in no callback within it.  *)
OneLoader ==
  /\ \A t \in Threads : \A i \in DOMAIN stack[t] : stack[t][i].kind = "load" => i = 1
  /\ \A t, u \in Threads : InLoader(t) /\ InLoader(u) => t = u

(* The id being loaded is still open.                                      *)
LoadStands == \A t \in Threads : Loading(t) => ~Closed(Head(stack[t]).id)

LoaderInv == OneLoader /\ LoadStands

Quiet == \A t \in Threads : ~InLoader(t)

-----------------------------------------------------------------------------
(* Stacks.                                                                 *)

LEMMA StackLen ==
  ASSUME NEW s \in Seq(Frames)
  PROVE  Len(s) \in Nat /\ DOMAIN s = 1..Len(s)
BY LenProperties

LEMMA PushStacks ==
  ASSUME TypeOK, NEW t \in Threads, NEW f \in Frames, stack' = [stack EXCEPT ![t] = <<f>> \o @]
  PROVE  Stacked(stack, t, f, stack') /\ Head(stack'[t]) = f
<1>1. stack[t] \in Seq(Frames) /\ <<f>> \in Seq(Frames) /\ Len(<<f>>) = 1 /\ <<f>>[1] = f
  BY DEF TypeOK
<1>2. stack'[t] = <<f>> \o stack[t] /\ \A u \in Threads \ {t} : stack'[u] = stack[u]
  BY DEF TypeOK
<1>3. /\ stack'[t] \in Seq(Frames) /\ Len(stack'[t]) = 1 + Len(stack[t])
      /\ \A i \in 1..1 + Len(stack[t]) :
           stack'[t][i] = IF i <= 1 THEN <<f>>[i] ELSE stack[t][i - 1]
  BY <1>1, <1>2, ConcatProperties
<1>4. Len(stack[t]) \in Nat /\ DOMAIN stack[t] = 1..Len(stack[t])
  BY <1>1, StackLen
<1>5. DOMAIN stack'[t] = 1..Len(stack[t]) + 1
  <2>1. DOMAIN stack'[t] = 1..Len(stack'[t])
    BY <1>3, StackLen
  <2> QED BY <1>3, <1>4, <2>1
<1>6. stack'[t][1] = f
  BY <1>1, <1>3, <1>4
<1>7. \A i \in 1..Len(stack[t]) : stack'[t][i + 1] = stack[t][i]
  BY <1>3, <1>4
<1>8. Head(stack'[t]) = f
  BY <1>3, <1>6
<1> QED BY <1>2, <1>4, <1>5, <1>6, <1>7, <1>8 DEF Stacked

LEMMA PopStacks ==
  ASSUME TypeOK, NEW t \in Threads, stack[t] # <<>>, stack' = [stack EXCEPT ![t] = Tail(@)]
  PROVE  Stacked(stack', t, Head(stack[t]), stack) /\ stack[t][1] = Head(stack[t])
<1>1. stack[t] \in Seq(Frames) /\ stack'[t] = Tail(stack[t])
  BY DEF TypeOK
<1>2. \A u \in Threads \ {t} : stack'[u] = stack[u]
  BY DEF TypeOK
<1>3. /\ Tail(stack[t]) \in Seq(Frames) /\ Len(Tail(stack[t])) = Len(stack[t]) - 1
      /\ \A i \in 1..Len(Tail(stack[t])) : Tail(stack[t])[i] = stack[t][i + 1]
  BY <1>1, HeadTailProperties
<1>4. /\ Len(stack[t]) \in Nat /\ DOMAIN stack[t] = 1..Len(stack[t])
      /\ Len(stack'[t]) \in Nat /\ DOMAIN stack'[t] = 1..Len(stack'[t])
  BY <1>1, <1>3, StackLen
<1>5. stack[t][1] = Head(stack[t])
  BY <1>1
<1>6. Len(stack[t]) = Len(stack'[t]) + 1
  <2>1. Len(stack'[t]) = Len(stack[t]) - 1
    BY Zenon, <1>1, <1>3
  <2> QED BY <1>4, <2>1
<1> QED BY <1>1, <1>2, <1>3, <1>4, <1>5, <1>6 DEF Stacked

LEMMA WhereFinite ==
  ASSUME NEW A, NEW r
  PROVE  IsFiniteSet(Where(A, r)) /\ Cardinality(Where(A, r)) \in Nat
<1>1. IsFiniteSet(Threads) /\ IsFiniteSet(1..MaxDepth)
  BY ActorAssumption, FS_Interval
<1>2. IsFiniteSet(Threads \X (1..MaxDepth))
  BY <1>1, FS_Product
<1>3. Where(A, r) \in SUBSET (Threads \X (1..MaxDepth))
  BY DEF Where
<1> QED BY <1>2, <1>3, FS_Subset, FS_CardinalityType

(* A push moves the places of its thread by one and adds one.              *)
LEMMA PushCounts ==
  ASSUME NEW A, NEW B, NEW t \in Threads, NEW f, NEW r,
         Stacked(A, t, f, B), Len(A[t]) < MaxDepth
  PROVE  Cardinality(Where(B, r))
         = Cardinality(Where(A, r)) + (IF f.id = r THEN 1 ELSE 0)
<1> DEFINE T == Where(B, r) \ {<<t, 1>>}
           S == Where(A, r)
           h == [u \in S |-> IF u[1] = t THEN <<t, u[2] + 1>> ELSE u]
<1>0. MaxDepth \in Nat /\ Len(A[t]) \in Nat
  BY ActorAssumption DEF Stacked
<1>1. ASSUME NEW u \in S
      PROVE  h[u] \in T
  <2>1. u \in Threads \X (1..MaxDepth) /\ u[2] \in DOMAIN A[u[1]] /\ A[u[1]][u[2]].id = r
    BY DEF Where
  <2>2. CASE u[1] = t
    <3>1. u[2] \in 1..Len(A[t]) /\ B[t][u[2] + 1] = A[t][u[2]]
      BY <2>1, <2>2 DEF Stacked
    <3>2. u[2] + 1 \in 1..MaxDepth /\ u[2] + 1 \in 1..Len(A[t]) + 1 /\ u[2] + 1 # 1
      BY <1>0, <3>1
    <3>3. h[u] = <<t, u[2] + 1>>
      BY <2>2
    <3> QED BY <2>1, <2>2, <3>1, <3>2, <3>3 DEF Where, Stacked
  <2>3. CASE u[1] # t
    <3>1. B[u[1]] = A[u[1]] /\ h[u] = u /\ u # <<t, 1>>
      BY <2>1, <2>3 DEF Stacked
    <3> QED BY <2>1, <3>1 DEF Where
  <2> QED BY <2>2, <2>3
<1>2. ASSUME NEW u \in S, NEW w \in S, h[u] = h[w]
      PROVE  u = w
  <2>1. u \in Threads \X (1..MaxDepth) /\ w \in Threads \X (1..MaxDepth)
    BY DEF Where
  <2>2. CASE u[1] = t /\ w[1] = t
    <3>1. u[2] + 1 = w[2] + 1
      BY <1>2, <2>2
    <3> QED BY <1>0, <2>1, <2>2, <3>1
  <2> QED BY <1>2, <2>1, <2>2
<1>3. ASSUME NEW v \in T
      PROVE  \E u \in S : h[u] = v
  <2>1. v \in Threads \X (1..MaxDepth) /\ v[2] \in DOMAIN B[v[1]] /\ B[v[1]][v[2]].id = r
    BY DEF Where
  <2>2. CASE v[1] = t
    <3>1. v = <<t, v[2]>> /\ v[2] # 1 /\ v[2] \in 1..Len(A[t]) + 1
      BY <2>1, <2>2 DEF Stacked
    <3>2. v[2] - 1 \in 1..Len(A[t]) /\ v[2] - 1 \in 1..MaxDepth /\ (v[2] - 1) + 1 = v[2]
      BY <1>0, <3>1
    <3>3. B[t][v[2]] = A[t][v[2] - 1]
      BY <3>2 DEF Stacked
    <3>4. <<t, v[2] - 1>> \in S
      BY <2>1, <2>2, <3>2, <3>3 DEF Where, Stacked
    <3>5. h[<<t, v[2] - 1>>] = v
      BY <3>1, <3>2, <3>4
    <3> QED BY <3>4, <3>5
  <2>3. CASE v[1] # t
    <3>1. B[v[1]] = A[v[1]]
      BY <2>1, <2>3 DEF Stacked
    <3>2. v \in S
      BY <2>1, <3>1 DEF Where
    <3> QED BY <2>3, <3>2
  <2> QED BY <2>2, <2>3
<1>4. h \in Bijection(S, T)
  <2>1. h \in Injection(S, T)
    BY <1>1, <1>2 DEF Injection, IsInjective
  <2>2. h \in Surjection(S, T)
    BY <1>1, <1>3 DEF Surjection
  <2> QED BY <2>1, <2>2 DEF Bijection
<1>5. Cardinality(T) = Cardinality(S)
  BY <1>4, WhereFinite, FS_Bijection DEF ExistsBijection
<1>6. <<t, 1>> \in Where(B, r) <=> f.id = r
  BY <1>0 DEF Where, Stacked
<1>7. Cardinality(T) = IF <<t, 1>> \in Where(B, r) THEN Cardinality(Where(B, r)) - 1
                       ELSE Cardinality(Where(B, r))
  BY WhereFinite, FS_RemoveElement
<1> HIDE DEF T, S, h
<1>8. Cardinality(S) \in Nat /\ Cardinality(Where(B, r)) \in Nat
  BY WhereFinite DEF S
<1>9. Cardinality(Where(B, r)) = Cardinality(S) + (IF f.id = r THEN 1 ELSE 0)
  BY <1>5, <1>6, <1>7, <1>8
<1> QED BY <1>9 DEF S

LEMMA LoadsAre == \A r : LoadsOf(r) = Where(stack, r)
BY DEF LoadsOf, Where

-----------------------------------------------------------------------------
(* Records.                                                                *)

LEMMA InitOwner == Init => OwnerInv
<1> SUFFICES ASSUME Init PROVE OwnerInv
  OBVIOUS
<1>1. \A t \in Threads : stack[t] = <<>> /\ Len(stack[t]) = 0
  BY DEF Init
<1>2. DepthInv
  BY <1>1, ActorAssumption DEF DepthInv
<1>3. ASSUME NEW r \in Resources
      PROVE  LoadsOf(r) = {}
  <2>1. \A t \in Threads : DOMAIN stack[t] = {}
    BY <1>1
  <2> QED BY <2>1 DEF LoadsOf
<1>4. \A r \in Resources : Cardinality(LoadsOf(r)) = 0
  BY <1>3, FS_EmptySet
<1>5. RecordsOwned
  BY <1>4 DEF RecordsOwned, Init
<1> QED BY <1>2, <1>5 DEF OwnerInv

(* What goes had a record: the eviction frees that one.                    *)
LEMMA FreedOwned ==
  ASSUME TypeOK, RecordsOwned, NEW V \in SUBSET entries, NEW r \in Resources
  PROVE  /\ r \in V => Freed(V)[r] = records[r] - 1
         /\ r \notin V => Freed(V)[r] = records[r]
         /\ Freed(V)[r] = Cardinality(LoadsOf(r)) + (IF r \in entries \ V THEN 1 ELSE 0)
<1>1. records[r] = Cardinality(LoadsOf(r)) + (IF r \in entries THEN 1 ELSE 0)
  BY DEF RecordsOwned
<1>2. Cardinality(LoadsOf(r)) \in Nat
  BY WhereFinite, LoadsAre
<1>3. CASE r \in V
  BY <1>1, <1>2, <1>3 DEF Freed, Less
<1>4. CASE r \notin V
  BY <1>1, <1>2, <1>4 DEF Freed
<1> QED BY <1>3, <1>4

LEMMA EvictOwned ==
  ASSUME TypeOK, OwnerInv, NEW V \in SUBSET entries, entries' = entries \ V,
         records' = Freed(V), UNCHANGED stack
  PROVE  OwnerInv'
<1>1. DepthInv' /\ \A r : LoadsOf(r)' = LoadsOf(r)
  BY DEF OwnerInv, DepthInv, LoadsOf
<1>2. RecordsOwned'
  BY <1>1, FreedOwned DEF RecordsOwned, OwnerInv
<1> QED BY <1>1, <1>2 DEF OwnerInv

LEMMA UnheldResident == Unheld \subseteq entries
BY DEF Unheld

LEMMA NextOwner == TypeOK /\ OwnerInv /\ [Next]_vars => OwnerInv'
<1> SUFFICES ASSUME TypeOK, OwnerInv, [Next]_vars PROVE OwnerInv'
  OBVIOUS
<1> USE DEF worldVars, leaseVars, cacheVars
<1>0. ASSUME UNCHANGED <<entries, records, stack>>
      PROVE  OwnerInv'
  BY <1>0 DEF OwnerInv, DepthInv, RecordsOwned, LoadsOf
<1>1. ASSUME NEW l \in Leases, NEW r \in Resources, AcquireRaw(l, r)
      PROVE  OwnerInv'
  <2>1. Victims(r) \in SUBSET entries
    BY VictimsUnheld, UnheldResident
  <2>2. DepthInv' /\ \A x : LoadsOf(x)' = LoadsOf(x)
    BY <1>1 DEF AcquireRaw, OwnerInv, DepthInv, LoadsOf
  <2>3. ASSUME NEW x \in Resources
        PROVE  records'[x] = Cardinality(LoadsOf(x)) + (IF x \in entries' THEN 1 ELSE 0)
    <3>1. records'[x] = IF x = r THEN Freed(Victims(r))[x] + 1 ELSE Freed(Victims(r))[x]
      BY <1>1 DEF AcquireRaw, Freed
    <3>2. entries' = (entries \ Victims(r)) \cup {r} /\ r \notin entries
      BY <1>1 DEF AcquireRaw, Publish
    <3>3. /\ Freed(Victims(r))[x] = Cardinality(LoadsOf(x))
                                    + (IF x \in entries \ Victims(r) THEN 1 ELSE 0)
          /\ Cardinality(LoadsOf(x)) \in Nat
      BY <2>1, FreedOwned, WhereFinite, LoadsAre DEF OwnerInv
    <3> QED BY <3>1, <3>2, <3>3
  <2> QED BY <2>2, <2>3 DEF OwnerInv, RecordsOwned
<1>2. ASSUME NEW r \in Resources, AcquireFails(r)
      PROVE  OwnerInv'
  <2>1. Victims(r) \in SUBSET entries
    BY VictimsUnheld, UnheldResident
  <2> QED BY <1>2, <2>1, EvictOwned DEF AcquireFails, EvictAndRelease, Evict
<1>3. ASSUME NEW t \in Threads, NEW r \in Resources, NEW b \in BOOLEAN, BeginLoad(t, r, b)
      PROVE  OwnerInv'
  <2> DEFINE f == [kind |-> "load", id |-> r, replacement |-> b]
  <2>1. Victims(r) \in SUBSET entries
    BY VictimsUnheld, UnheldResident
  <2>2. f \in Frames
    BY DEF Frames
  <2>3. stack' = [stack EXCEPT ![t] = <<f>> \o @] /\ Len(stack[t]) < MaxDepth
    BY <1>3 DEF BeginLoad
  <2>4. Stacked(stack, t, f, stack')
    BY <2>2, <2>3, PushStacks
  <2>5. DepthInv'
    <3>1. stack'[t] = <<f>> \o stack[t] /\ stack[t] \in Seq(Frames) /\ <<f>> \in Seq(Frames)
      BY <2>2, <2>3 DEF TypeOK
    <3>2. Len(stack'[t]) = 1 + Len(stack[t]) /\ Len(stack[t]) \in Nat
      BY <3>1, StackLen, ConcatProperties
    <3>3. Len(stack'[t]) <= MaxDepth
      BY <2>3, <3>2, ActorAssumption
    <3> QED BY <2>4, <3>3 DEF DepthInv, OwnerInv, Stacked
  <2>6. ASSUME NEW x \in Resources
        PROVE  records'[x] = Cardinality(LoadsOf(x)') + (IF x \in entries' THEN 1 ELSE 0)
    <3>1. records'[x] = IF x = r THEN Freed(Victims(r))[x] + 1 ELSE Freed(Victims(r))[x]
      BY <1>3 DEF BeginLoad, Freed
    <3>2. entries' = entries \ Victims(r)
      BY <1>3 DEF BeginLoad, Evict
    <3>3. /\ Freed(Victims(r))[x] = Cardinality(LoadsOf(x))
                                    + (IF x \in entries \ Victims(r) THEN 1 ELSE 0)
          /\ Cardinality(LoadsOf(x)) \in Nat
      BY <2>1, FreedOwned, WhereFinite, LoadsAre DEF OwnerInv
    <3>4. Cardinality(Where(stack', x)) = Cardinality(Where(stack, x)) + (IF r = x THEN 1 ELSE 0)
      BY <2>3, <2>4, PushCounts
    <3>5. LoadsOf(x)' = Where(stack', x) /\ LoadsOf(x) = Where(stack, x)
      BY DEF LoadsOf, Where
    <3> QED BY <3>1, <3>2, <3>3, <3>4, <3>5
  <2> QED BY <2>5, <2>6 DEF OwnerInv, RecordsOwned
<1>4. ASSUME NEW t \in Threads, stack[t] # <<>>, stack' = [stack EXCEPT ![t] = Tail(@)]
      PROVE  /\ DepthInv'
             /\ \A x : /\ Cardinality(LoadsOf(x)) = Cardinality(LoadsOf(x)')
                                               + (IF Head(stack[t]).id = x THEN 1 ELSE 0)
                       /\ Cardinality(LoadsOf(x)) \in Nat /\ Cardinality(LoadsOf(x)') \in Nat
  <2>1. Stacked(stack', t, Head(stack[t]), stack)
    BY <1>4, PopStacks
  <2>2. Len(stack'[t]) + 1 = Len(stack[t]) /\ Len(stack'[t]) \in Nat
    <3>1. stack[t] \in Seq(Frames) /\ stack'[t] = Tail(stack[t])
      BY <1>4 DEF TypeOK
    <3>2. Len(Tail(stack[t])) = Len(stack[t]) - 1 /\ Tail(stack[t]) \in Seq(Frames)
      BY <1>4, <3>1, HeadTailProperties
    <3>3. Len(stack[t]) \in Nat /\ Len(Tail(stack[t])) \in Nat
      BY <3>1, <3>2, StackLen
    <3>4. Len(stack'[t]) = Len(stack[t]) - 1 /\ Len(stack'[t]) \in Nat
      BY Zenon, <3>1, <3>2, <3>3
    <3> QED BY <3>3, <3>4
  <2>3. Len(stack'[t]) < MaxDepth
    BY <2>2, ActorAssumption DEF OwnerInv, DepthInv
  <2>4. DepthInv'
    BY <2>1, <2>3, ActorAssumption, <2>2 DEF DepthInv, OwnerInv, Stacked
  <2>5. \A x : Cardinality(Where(stack, x)) = Cardinality(Where(stack', x))
                                               + (IF Head(stack[t]).id = x THEN 1 ELSE 0)
    BY <2>1, <2>3, PushCounts
  <2>6. \A x : LoadsOf(x)' = Where(stack', x) /\ LoadsOf(x) = Where(stack, x)
    BY DEF LoadsOf, Where
  <2> QED BY <2>4, <2>5, <2>6, WhereFinite
<1>5. ASSUME NEW t \in Threads, NEW l \in Leases, EndLoad(t, l)
      PROVE  OwnerInv'
  <2>1. stack[t] # <<>> /\ stack' = [stack EXCEPT ![t] = Tail(@)] /\ records' = records
    BY <1>5 DEF EndLoad, Loading
  <2>2. entries' = entries \cup {Head(stack[t]).id} /\ Head(stack[t]).id \notin entries
    BY <1>5 DEF EndLoad, Publish
  <2>4. \A x : /\ Cardinality(LoadsOf(x)) = Cardinality(LoadsOf(x)')
                                             + (IF Head(stack[t]).id = x THEN 1 ELSE 0)
              /\ Cardinality(LoadsOf(x)) \in Nat /\ Cardinality(LoadsOf(x)') \in Nat
    BY Zenon, <2>1, <1>4
  <2>3. ASSUME NEW x \in Resources
        PROVE  records'[x] = Cardinality(LoadsOf(x)') + (IF x \in entries' THEN 1 ELSE 0)
    <3>1. records[x] = Cardinality(LoadsOf(x)) + (IF x \in entries THEN 1 ELSE 0)
      BY DEF OwnerInv, RecordsOwned
    <3> QED BY <2>1, <2>2, <2>4, <3>1
  <2> QED BY <1>4, <2>1, <2>3 DEF OwnerInv, RecordsOwned
<1>6. ASSUME NEW t \in Threads, EndLoadFails(t)
      PROVE  OwnerInv'
  <2>1. /\ stack[t] # <<>> /\ stack' = [stack EXCEPT ![t] = Tail(@)] /\ entries' = entries
        /\ records' = [records EXCEPT ![Head(stack[t]).id] = Less(@, 1)]
    BY <1>6 DEF EndLoadFails, Loading
  <2>4. \A x : /\ Cardinality(LoadsOf(x)) = Cardinality(LoadsOf(x)')
                                             + (IF Head(stack[t]).id = x THEN 1 ELSE 0)
              /\ Cardinality(LoadsOf(x)) \in Nat /\ Cardinality(LoadsOf(x)') \in Nat
    BY Zenon, <2>1, <1>4
  <2>2. ASSUME NEW x \in Resources
        PROVE  records'[x] = Cardinality(LoadsOf(x)') + (IF x \in entries' THEN 1 ELSE 0)
    <3>1. records[x] = Cardinality(LoadsOf(x)) + (IF x \in entries THEN 1 ELSE 0)
      BY DEF OwnerInv, RecordsOwned
    <3>2. records'[x] = IF Head(stack[t]).id = x THEN Less(records[x], 1) ELSE records[x]
      BY <2>1 DEF TypeOK
    <3> QED BY <2>1, <2>4, <3>1, <3>2 DEF Less
  <2> QED BY <1>4, <2>1, <2>2 DEF OwnerInv, RecordsOwned
<1>7. ASSUME NEW t \in Threads, BeginStream(t)
      PROVE  OwnerInv'
  <2> DEFINE f == [kind |-> "stream", id |-> NoResource, replacement |-> FALSE]
  <2>1. f \in Frames
    BY DEF Frames
  <2>2. /\ stack' = [stack EXCEPT ![t] = <<f>> \o @] /\ Len(stack[t]) < MaxDepth
        /\ entries' = entries /\ records' = records
    BY <1>7 DEF BeginStream
  <2>3. Stacked(stack, t, f, stack')
    BY <2>1, <2>2, PushStacks
  <2>4. DepthInv'
    <3>1. stack'[t] = <<f>> \o stack[t] /\ stack[t] \in Seq(Frames) /\ <<f>> \in Seq(Frames)
      BY <2>1, <2>2 DEF TypeOK
    <3>2. Len(stack'[t]) = 1 + Len(stack[t]) /\ Len(stack[t]) \in Nat
      BY <3>1, StackLen, ConcatProperties
    <3>3. Len(stack'[t]) <= MaxDepth
      BY <2>2, <3>2, ActorAssumption
    <3> QED BY <2>3, <3>3 DEF DepthInv, OwnerInv, Stacked
  <2>5. ASSUME NEW x \in Resources
        PROVE  LoadsOf(x)' = Where(stack', x) /\ LoadsOf(x) = Where(stack, x)
               /\ Cardinality(Where(stack', x)) = Cardinality(Where(stack, x))
    <3>1. f.id # x
      BY CatalogAssumption
    <3>2. Cardinality(Where(stack', x)) = Cardinality(Where(stack, x)) + 0
      BY <2>2, <2>3, <3>1, PushCounts
    <3>3. LoadsOf(x)' = Where(stack', x) /\ LoadsOf(x) = Where(stack, x)
      BY DEF LoadsOf, Where
    <3> QED BY <3>2, <3>3, WhereFinite
  <2> QED BY <2>2, <2>4, <2>5 DEF OwnerInv, RecordsOwned
<1>8. ASSUME NEW t \in Threads, EndStream(t)
      PROVE  OwnerInv'
  <2>1. /\ stack[t] # <<>> /\ stack' = [stack EXCEPT ![t] = Tail(@)]
        /\ entries' = entries /\ records' = records
    BY <1>8 DEF EndStream
  <2>4. \A x : /\ Cardinality(LoadsOf(x)) = Cardinality(LoadsOf(x)')
                                             + (IF Head(stack[t]).id = x THEN 1 ELSE 0)
              /\ Cardinality(LoadsOf(x)) \in Nat /\ Cardinality(LoadsOf(x)') \in Nat
    BY Zenon, <2>1, <1>4
  <2>2. Head(stack[t]).id = NoResource
    <3>1. stack[t] \in Seq(Frames)
      BY DEF TypeOK
    <3>2. Head(stack[t]) \in Frames /\ Head(stack[t]).kind = "stream"
      BY <1>8, <2>1, <3>1, HeadTailProperties DEF EndStream
    <3> QED BY <3>2 DEF Frames
  <2>3. ASSUME NEW x \in Resources
        PROVE  Cardinality(LoadsOf(x)') = Cardinality(LoadsOf(x))
    <3>1. Head(stack[t]).id # x
      BY <2>2, CatalogAssumption
    <3> QED BY <2>4, <3>1
  <2> QED BY <1>4, <2>1, <2>3 DEF OwnerInv, RecordsOwned
<1>9. ASSUME NEW V \in SUBSET entries, EvictAndRelease(V), UNCHANGED stack
      PROVE  OwnerInv'
  BY <1>9, EvictOwned DEF EvictAndRelease, Evict
<1>10. ASSUME NEW g \in Groups, PurgeGroup(g)
       PROVE  OwnerInv'
  BY <1>9, <1>10, SweepsUnheld, UnheldResident DEF PurgeGroup
<1>11. CASE PurgeZeroReference
  BY <1>9, <1>11, SweepsUnheld, UnheldResident DEF PurgeZeroReference
<1>12. ASSUME NEW g \in Groups \cup {NoGroup}, NEW kind \in TransitionKinds, BeginTransition(g, kind)
       PROVE  OwnerInv'
  BY <1>9, <1>12, SweepsUnheld, UnheldResident DEF BeginTransition
<1>13. ASSUME NEW kind \in TransitionKinds, BeginTransitionRefused(kind)
       PROVE  OwnerInv'
  BY <1>9, <1>13, SweepsUnheld, UnheldResident DEF BeginTransitionRefused
<1>14. CASE CancelTransition
  <2>1. CancelVictims \in SUBSET entries
    BY SweepsUnheld, UnheldResident
  <2> QED BY <1>14, <2>1, EvictOwned DEF CancelTransition, Evict
<1> QED
  BY <1>0, <1>1, <1>2, <1>3, <1>5, <1>6, <1>7, <1>8, <1>10, <1>11, <1>12, <1>13, <1>14
     DEF Next, vars, AcquireResident, AcquireDerivedThrows, ReleaseLease, Pin, Unpin,
         CommitTransition

(* No failure path leaks a ledger record and none frees one twice, however *)
(* loads, streams, evictions and rollbacks nest and interleave.            *)
THEOREM RecordsAlwaysOwned == Spec => []RecordsOwned
<1>1. OwnerInv => RecordsOwned
  BY DEF OwnerInv
<1> QED BY <1>1, InitTypeOK, NextTypeOK, InitOwner, NextOwner, PTL DEF Spec

-----------------------------------------------------------------------------
(* The one loader.                                                         *)

LEMMA StackFrames ==
  ASSUME TypeOK, NEW t \in Threads
  PROVE  /\ stack[t] = <<>> => DOMAIN stack[t] = {}
         /\ stack[t] # <<>> => 1 \in DOMAIN stack[t] /\ Head(stack[t]) = stack[t][1]
<1>1. stack[t] \in Seq(Frames)
  BY DEF TypeOK
<1> QED BY <1>1

LEMMA LoadingIsIn ==
  ASSUME TypeOK, NEW t \in Threads, Loading(t)
  PROVE  InLoader(t)
BY StackFrames DEF InLoader, Loading

LEMMA QuietLoaderInv ==
  ASSUME TypeOK, Quiet
  PROVE  LoaderInv /\ \A t \in Threads : ~Loading(t)
<1>1. \A t \in Threads : ~Loading(t)
  BY LoadingIsIn DEF Quiet
<1>2. OneLoader
  BY DEF OneLoader, Quiet, InLoader
<1> QED BY <1>1, <1>2 DEF LoaderInv, LoadStands

LEMMA CallersAlone ==
  ASSUME ~LoaderMayReenter
  PROVE  (Unlocked \/ \E t \in Threads : MayCall(t)) => Quiet
BY DEF MayCall, Unlocked, Quiet

(* A stack whose load frame, if any, goes leaves nobody in a loader.       *)
LEMMA PopQuiet ==
  ASSUME TypeOK, OneLoader, NEW t \in Threads, stack[t] # <<>>,
         stack' = [stack EXCEPT ![t] = Tail(@)], \A u \in Threads \ {t} : ~InLoader(u)
  PROVE  Quiet'
<1>1. Stacked(stack', t, Head(stack[t]), stack)
  BY PopStacks
<1>2. \A i \in DOMAIN stack'[t] : stack'[t][i].kind # "load"
  <2>1. \A i \in DOMAIN stack'[t] : i \in 1..Len(stack'[t]) /\ Len(stack'[t]) \in Nat
    BY <1>1 DEF Stacked
  <2>2. \A i \in DOMAIN stack'[t] : /\ i + 1 \in DOMAIN stack[t] /\ i + 1 # 1
                                    /\ stack'[t][i] = stack[t][i + 1]
    BY <1>1, <2>1 DEF Stacked
  <2> QED BY <2>2 DEF OneLoader
<1>3. \A u \in Threads \ {t} : stack'[u] = stack[u]
  BY <1>1 DEF Stacked
<1> QED BY <1>2, <1>3 DEF Quiet, InLoader

LEMMA InitLoader == Init => LoaderInv
<1> SUFFICES ASSUME Init PROVE LoaderInv
  OBVIOUS
<1>1. Quiet
  BY DEF Init, Quiet, InLoader
<1> QED BY <1>1, InitTypeOK, QuietLoaderInv

(* What an action leaves alone, and what the others take the mutex for.    *)
QuietSteps ==
  \/ \E l \in Leases, r \in Resources : AcquireResident(l, r) \/ AcquireRaw(l, r)
  \/ \E r \in Resources : AcquireFails(r)
  \/ \E l \in Leases : ReleaseLease(l)
  \/ \E r \in Resources, o \in PinOwners : Pin(r, o) \/ Unpin(r, o)
  \/ \E g \in Groups : PurgeGroup(g)
  \/ PurgeZeroReference
  \/ \E g \in Groups \cup {NoGroup}, kind \in TransitionKinds : BeginTransition(g, kind)
  \/ \E kind \in TransitionKinds : BeginTransitionRefused(kind)
  \/ CommitTransition
  \/ CancelTransition

LEMMA QuietStepsAreQuiet ==
  ASSUME ~LoaderMayReenter, QuietSteps
  PROVE  Quiet /\ Quiet' /\ UNCHANGED stack
<1>1. Unlocked /\ UNCHANGED stack
  BY DEF QuietSteps, AcquireResident, AcquireRaw, AcquireFails, ReleaseLease, Pin, Unpin,
         PurgeGroup, PurgeZeroReference, BeginTransition, BeginTransitionRefused,
         CommitTransition, CancelTransition, leaseVars
<1>2. Quiet
  BY <1>1, CallersAlone
<1> QED BY <1>1, <1>2 DEF Quiet, InLoader

LEMMA StepsAre ==
  ASSUME [Next]_vars
  PROVE  \/ QuietSteps
         \/ \E t \in Threads, r \in Resources, b \in BOOLEAN : BeginLoad(t, r, b)
         \/ \E t \in Threads, l \in Leases : EndLoad(t, l)
         \/ \E t \in Threads : EndLoadFails(t) \/ BeginStream(t) \/ EndStream(t)
         \/ UNCHANGED <<cacheVars, staged, records, leaseVars, worldVars, stack>>
BY DEF Next, QuietSteps, vars, AcquireDerivedThrows

LEMMA NextLoader ==
  ASSUME ~LoaderMayReenter
  PROVE  TypeOK /\ LoaderInv /\ [Next]_vars => LoaderInv'
<1> SUFFICES ASSUME TypeOK, LoaderInv, [Next]_vars PROVE LoaderInv'
  OBVIOUS
<1>t. TypeOK'
  BY NextTypeOK
<1>q. Quiet' => LoaderInv'
  BY <1>t, QuietLoaderInv, PTL
<1>1. CASE QuietSteps
  BY <1>1, <1>q, QuietStepsAreQuiet
<1>2. ASSUME NEW t \in Threads, NEW r \in Resources, NEW b \in BOOLEAN, BeginLoad(t, r, b)
      PROVE  LoaderInv'
  <2> DEFINE f == [kind |-> "load", id |-> r, replacement |-> b]
  <2>1. Quiet
    BY <1>2, CallersAlone DEF BeginLoad
  <2>2. f \in Frames /\ stack' = [stack EXCEPT ![t] = <<f>> \o @] /\ ~Closed(r)
        /\ UNCHANGED worldVars
    BY <1>2 DEF BeginLoad, Frames
  <2>3. Stacked(stack, t, f, stack') /\ Head(stack'[t]) = f
    BY <2>2, PushStacks
  <2>4. \A u \in Threads \ {t} : stack'[u] = stack[u]
    BY <2>3 DEF Stacked
  <2>5. \A i \in DOMAIN stack'[t] : stack'[t][i].kind = "load" => i = 1
    <3>1. ASSUME NEW i \in DOMAIN stack'[t], i # 1
          PROVE  i - 1 \in DOMAIN stack[t] /\ stack'[t][i] = stack[t][i - 1]
      <4>1. i \in 1..Len(stack[t]) + 1 /\ Len(stack[t]) \in Nat
        BY <2>3 DEF Stacked
      <4>2. i - 1 \in 1..Len(stack[t]) /\ (i - 1) + 1 = i
        BY <3>1, <4>1
      <4> QED BY <2>3, <4>2 DEF Stacked
    <3> QED BY <2>1, <3>1 DEF Quiet, InLoader
  <2>6. \A u \in Threads \ {t} : ~InLoader(u)' /\ ~Loading(u)'
    <3>1. \A u \in Threads : ~InLoader(u) /\ ~Loading(u)
      BY <2>1, QuietLoaderInv DEF Quiet
    <3> QED BY <2>4, <3>1 DEF InLoader, Loading
  <2>7. OneLoader'
    BY <2>5, <2>6, <2>4, <2>1 DEF OneLoader, Quiet, InLoader
  <2>8. LoadStands'
    BY <2>2, <2>3, <2>6 DEF LoadStands, Closed, worldVars
  <2> QED BY <2>7, <2>8 DEF LoaderInv
<1>3. ASSUME NEW t \in Threads, EndLoadFails(t) \/ \E l \in Leases : EndLoad(t, l)
      PROVE  LoaderInv'
  <2>1. Loading(t) /\ stack[t] # <<>> /\ stack' = [stack EXCEPT ![t] = Tail(@)]
    BY <1>3 DEF EndLoad, EndLoadFails, Loading
  <2>2. \A u \in Threads \ {t} : ~InLoader(u)
    BY <2>1, LoadingIsIn DEF LoaderInv, OneLoader
  <2> QED BY <1>q, <2>1, <2>2, PopQuiet DEF LoaderInv
<1>4. ASSUME NEW t \in Threads, BeginStream(t)
      PROVE  LoaderInv'
  <2> DEFINE f == [kind |-> "stream", id |-> NoResource, replacement |-> FALSE]
  <2>1. Quiet
    BY <1>4, CallersAlone DEF BeginStream
  <2>2. f \in Frames /\ stack' = [stack EXCEPT ![t] = <<f>> \o @]
    BY <1>4 DEF BeginStream, Frames
  <2>3. Stacked(stack, t, f, stack')
    BY <2>2, PushStacks
  <2>4. \A i \in DOMAIN stack'[t] : stack'[t][i].kind # "load"
    <3>1. ASSUME NEW i \in DOMAIN stack'[t], i # 1
          PROVE  i - 1 \in DOMAIN stack[t] /\ stack'[t][i] = stack[t][i - 1]
      <4>1. i \in 1..Len(stack[t]) + 1 /\ Len(stack[t]) \in Nat
        BY <2>3 DEF Stacked
      <4>2. i - 1 \in 1..Len(stack[t]) /\ (i - 1) + 1 = i
        BY <3>1, <4>1
      <4> QED BY <2>3, <4>2 DEF Stacked
    <3>2. stack'[t][1].kind = "stream"
      BY <2>3 DEF Stacked
    <3> QED BY <2>1, <3>1, <3>2 DEF Quiet, InLoader
  <2>5. Quiet'
    BY <2>1, <2>3, <2>4 DEF Quiet, InLoader, Stacked
  <2> QED BY <1>q, <2>5
<1>5. ASSUME NEW t \in Threads, EndStream(t)
      PROVE  LoaderInv'
  <2>1. /\ stack[t] # <<>> /\ stack' = [stack EXCEPT ![t] = Tail(@)]
        /\ \A u \in Threads \ {t} : ~InLoader(u)
    BY <1>5 DEF EndStream, MayReturn
  <2> QED BY <1>q, <2>1, PopQuiet DEF LoaderInv
<1>6. CASE UNCHANGED <<cacheVars, staged, records, leaseVars, worldVars, stack>>
  BY <1>6 DEF LoaderInv, OneLoader, LoadStands, InLoader, Loading, Closed, worldVars
<1> QED BY <1>1, <1>2, <1>3, <1>4, <1>5, <1>6, StepsAre

-----------------------------------------------------------------------------
(* The old group.                                                          *)

LEMMA LessHeld ==
  ASSUME OldGroupDrained, entries' \subseteq entries, UNCHANGED worldVars,
         \A r \in entries' : refcount'[r] = refcount[r]
  PROVE  OldGroupDrained'
BY DEF OldGroupDrained, HasGroupLeases, Closed, worldVars

LEMMA EvictDrained ==
  ASSUME TypeOK, OldGroupDrained, NEW V \in SUBSET entries, Evict(V), UNCHANGED worldVars
  PROVE  OldGroupDrained'
<1>1. \A r \in entries' : refcount'[r] = refcount[r]
  BY DEF Evict, TypeOK, CacheTypeOK
<1> QED BY <1>1, LessHeld DEF Evict

LEMMA PublishDrained ==
  ASSUME TypeOK, OldGroupDrained, NEW V \in SUBSET entries, NEW r \in Resources, NEW b,
         Publish(V, r, b), ~Closed(r), UNCHANGED worldVars
  PROVE  OldGroupDrained'
<1>1. \A x \in entries' : x = r \/ (x \in entries /\ refcount'[x] = refcount[x])
  BY DEF Publish, TypeOK, CacheTypeOK
<1> QED BY <1>1 DEF OldGroupDrained, HasGroupLeases, Closed, worldVars

(* What begin_transition found of the old group holds after its purge.     *)
LEMMA BeginDrained ==
  ASSUME TypeOK, NEW kind \in TransitionKinds, NEW V \in SUBSET entries,
         MayBegin(kind), Evict(V)
  PROVE  kind # "SaveLoad" /\ activeGroup # NoGroup
         => \A r \in entries' : GroupOf[r] = activeGroup => refcount'[r] = 0
BY DEF MayBegin, HasGroupLeases, Evict, TypeOK, CacheTypeOK

LEMMA NextDrained ==
  ASSUME ~LoaderMayReenter
  PROVE  TypeOK /\ LoaderInv /\ OldGroupDrained /\ [Next]_vars => OldGroupDrained'
<1> SUFFICES ASSUME TypeOK, LoaderInv, OldGroupDrained, [Next]_vars PROVE OldGroupDrained'
  OBVIOUS
<1> USE DEF worldVars, leaseVars, cacheVars
<1>0. ASSUME UNCHANGED <<entries, refcount, worldVars>>
      PROVE  OldGroupDrained'
  BY <1>0 DEF OldGroupDrained, HasGroupLeases
<1>1. ASSUME NEW l \in Leases, NEW r \in Resources, AcquireResident(l, r)
      PROVE  OldGroupDrained'
  <2>1. \A x \in entries' : x = r \/ refcount'[x] = refcount[x]
    BY <1>1 DEF AcquireResident, TypeOK, CacheTypeOK
  <2> QED BY <1>1, <2>1 DEF AcquireResident, OldGroupDrained, HasGroupLeases, Closed
<1>2. ASSUME NEW l \in Leases, NEW r \in Resources, AcquireRaw(l, r)
      PROVE  OldGroupDrained'
  <2>1. Victims(r) \in SUBSET entries
    BY VictimsUnheld, UnheldResident
  <2> QED BY <1>2, <2>1, PublishDrained DEF AcquireRaw
<1>3. ASSUME NEW V \in SUBSET entries, Evict(V), UNCHANGED worldVars
      PROVE  OldGroupDrained'
  BY <1>3, EvictDrained
<1>4. ASSUME NEW r \in Resources, AcquireFails(r)
      PROVE  OldGroupDrained'
  <2>1. Victims(r) \in SUBSET entries
    BY VictimsUnheld, UnheldResident
  <2> QED BY <1>3, <1>4, <2>1 DEF AcquireFails, EvictAndRelease
<1>5. ASSUME NEW t \in Threads, NEW r \in Resources, NEW b \in BOOLEAN, BeginLoad(t, r, b)
      PROVE  OldGroupDrained'
  <2>1. Victims(r) \in SUBSET entries
    BY VictimsUnheld, UnheldResident
  <2> QED BY <1>3, <1>5, <2>1 DEF BeginLoad
<1>6. ASSUME NEW t \in Threads, NEW l \in Leases, EndLoad(t, l)
      PROVE  OldGroupDrained'
  <2>1. /\ Publish({}, Head(stack[t]).id, Head(stack[t]).replacement)
        /\ Loading(t) /\ UNCHANGED worldVars
    BY <1>6 DEF EndLoad
  <2>2. Head(stack[t]).id \in Resources /\ ~Closed(Head(stack[t]).id)
    BY <2>1, LoadingFrame DEF LoaderInv, LoadStands
  <2> QED BY <2>1, <2>2, PublishDrained
<1>7. ASSUME NEW l \in Leases, ReleaseLease(l)
      PROVE  OldGroupDrained'
  <2>1. \A x \in entries' : refcount'[x] = refcount[x] \/ refcount[x] # 0
    BY <1>7 DEF ReleaseLease, TypeOK, CacheTypeOK
  <2> QED BY <1>7, <2>1 DEF ReleaseLease, OldGroupDrained, HasGroupLeases
<1>8. ASSUME NEW g \in Groups, PurgeGroup(g)
      PROVE  OldGroupDrained'
  BY <1>3, <1>8, SweepsUnheld, UnheldResident DEF PurgeGroup, EvictAndRelease
<1>9. CASE PurgeZeroReference
  BY <1>3, <1>9, SweepsUnheld, UnheldResident DEF PurgeZeroReference, EvictAndRelease
<1>10. ASSUME NEW g \in Groups \cup {NoGroup}, NEW kind \in TransitionKinds, BeginTransition(g, kind)
       PROVE  OldGroupDrained'
  <2>1. OutgoingVictims(kind) \in SUBSET entries
    BY SweepsUnheld, UnheldResident
  <2>2. /\ MayBegin(kind) /\ Evict(OutgoingVictims(kind))
        /\ blockedGroup' = IF kind = "SaveLoad" THEN NoGroup ELSE activeGroup
    BY <1>10 DEF BeginTransition, EvictAndRelease
  <2> QED BY <2>1, <2>2, BeginDrained DEF OldGroupDrained, HasGroupLeases
<1>11. ASSUME NEW kind \in TransitionKinds, BeginTransitionRefused(kind)
       PROVE  OldGroupDrained'
  BY <1>11 DEF BeginTransitionRefused, OldGroupDrained
<1>12. CASE CommitTransition \/ CancelTransition
  BY <1>12 DEF CommitTransition, CancelTransition, OldGroupDrained
<1> QED
  BY <1>0, <1>1, <1>2, <1>4, <1>5, <1>6, <1>7, <1>8, <1>9, <1>10, <1>11, <1>12
     DEF Next, vars, EndLoadFails, AcquireDerivedThrows, BeginStream, EndStream, Pin, Unpin

(* From the begin of a world change to its end nobody gets hold of anything *)
(* of the old group, the load a caller was in when it began included.       *)
THEOREM OldGroupStaysDrained ==
  ASSUME ~LoaderMayReenter
  PROVE  Spec => []OldGroupDrained
<1>1. Init => OldGroupDrained
  BY DEF Init, OldGroupDrained
<1>2. TypeOK /\ LoaderInv /\ OldGroupDrained /\ [Next]_vars
      => TypeOK' /\ LoaderInv' /\ OldGroupDrained'
  BY NextTypeOK, NextLoader, NextDrained
<1> QED BY <1>1, <1>2, InitTypeOK, InitLoader, PTL DEF Spec

-----------------------------------------------------------------------------
(* Pins.                                                                   *)

LEMMA PinnedStays ==
  TypeOK /\ [Next]_vars
  => \A r \in entries \ entries' : pins[r] # {} => r \in staged /\ CancelTransition
<1> SUFFICES ASSUME TypeOK, [Next]_vars, NEW r \in entries \ entries', pins[r] # {}
             PROVE  r \in staged /\ CancelTransition
  OBVIOUS
<1> USE DEF worldVars, leaseVars, cacheVars
<1>1. \A x \in Resources : r \notin Victims(x)
  BY DEF Victims, Evictable, Idle
<1>2. /\ \A g : r \notin GroupVictims(g)
      /\ r \notin PurgeVictims
      /\ \A kind : r \notin OutgoingVictims(kind)
  BY DEF GroupVictims, PurgeVictims, OutgoingVictims, Sweep, Idle
<1>3. r \in CancelVictims => r \in staged
  BY DEF CancelVictims, Sweep
<1>4. CancelTransition
  BY <1>1, <1>2 DEF Next, vars, AcquireResident, AcquireRaw, AcquireFails, BeginLoad,
     EndLoad, EndLoadFails, AcquireDerivedThrows, BeginStream, EndStream, ReleaseLease,
     Pin, Unpin, PurgeGroup, PurgeZeroReference, BeginTransition, BeginTransitionRefused,
     CommitTransition, Publish, EvictAndRelease, Evict
<1> QED BY <1>3, <1>4 DEF CancelTransition, Evict

(* A pin keeps its entry through every eviction, purge and transition but   *)
(* the rollback of the one that brought the entry in.                       *)
THEOREM PinsHold == Spec => PinnedSurvives
BY InitTypeOK, NextTypeOK, PinnedStays, PTL DEF Spec, PinnedSurvives

-----------------------------------------------------------------------------
(* Sprites and their textures.                                             *)

Counted == \A r \in entries : dependents[r] = Cardinality(Users(entries, r))
SpritesStay == \A x \in entries \cap Textures : SpriteOf[x] \in entries
LoadingSprite ==
  \A t \in Threads : Loading(t) /\ Head(stack[t]).id \in Textures
                     => SpriteOf[Head(stack[t]).id] \in entries

(* No entry of V leaves a texture behind that depends on it.               *)
ClosedUnderUse(V) == V \in SUBSET entries /\ \A r \in V : Users(entries, r) \subseteq V

LEMMA NoUsers == \A V, r : Cardinality(Users(V, r)) = 0 => Users(V, r) = {}
BY UsersFinite, FS_EmptySet

LEMMA EvictableUnused ==
  ASSUME Counted, NEW V \in SUBSET entries, \A r \in V : dependents[r] = 0
  PROVE  ClosedUnderUse(V)
BY NoUsers DEF Counted, ClosedUnderUse

(* A sweep takes a sprite only with every texture that counts on it.       *)
LEMMA SweepClosed ==
  ASSUME TypeOK, Counted, NEW S \in SUBSET entries
  PROVE  ClosedUnderUse(Sweep(S))
<1> DEFINE free == { x \in S : dependents[x] = 0 }
<1>1. Sweep(S) \in SUBSET entries
  BY DEF Sweep
<1>2. free \subseteq Sweep(S)
  BY UsersFinite DEF Sweep
<1>3. ASSUME NEW r \in Sweep(S)
      PROVE  Users(entries, r) \subseteq free
  <2>1. r \in entries /\ dependents[r] <= Cardinality(Users(free, r))
    BY <1>3 DEF Sweep
  <2>2. Users(free, r) \in SUBSET Users(entries, r)
    BY DEF Users
  <2>3. Cardinality(Users(free, r)) <= Cardinality(Users(entries, r))
    BY <2>2, UsersFinite, FS_Subset
  <2>4. Cardinality(Users(entries, r)) = Cardinality(Users(free, r))
    BY <2>1, <2>3, UsersFinite DEF Counted
  <2>5. Users(entries, r) = Users(free, r)
    BY <2>2, <2>4, UsersFinite, FS_Subset
  <2> QED BY <2>5 DEF Users
<1> QED BY <1>1, <1>2, <1>3 DEF ClosedUnderUse

LEMMA VictimSetsClosed ==
  ASSUME TypeOK, Counted
  PROVE  /\ \A r : ClosedUnderUse(Victims(r))
         /\ \A g : ClosedUnderUse(GroupVictims(g))
         /\ \A kind : ClosedUnderUse(OutgoingVictims(kind))
         /\ ClosedUnderUse(PurgeVictims) /\ ClosedUnderUse(CancelVictims)
<1>1. \A r : Victims(r) \in SUBSET entries /\ \A e \in Victims(r) : dependents[e] = 0
  BY DEF Victims, Evictable
<1>2. \A r : ClosedUnderUse(Victims(r))
  BY <1>1, EvictableUnused
<1>3. \A g : ClosedUnderUse(GroupVictims(g))
  BY SweepClosed DEF GroupVictims
<1>4. ClosedUnderUse(PurgeVictims)
  BY SweepClosed DEF PurgeVictims
<1>5. ClosedUnderUse(CancelVictims)
  <2>1. { r \in staged : refcount[r] = 0 } \in SUBSET entries
    BY DEF TypeOK
  <2> QED BY <2>1, SweepClosed DEF CancelVictims
<1>6. ClosedUnderUse({})
  BY DEF ClosedUnderUse
<1>7. \A kind : ClosedUnderUse(OutgoingVictims(kind))
  BY <1>3, <1>6 DEF OutgoingVictims
<1> QED BY <1>2, <1>3, <1>4, <1>5, <1>7

(* What remains is counted on by what remains.                             *)
LEMMA RemainingCounted ==
  ASSUME TypeOK, Counted, NEW V, ClosedUnderUse(V), NEW r \in entries \ V
  PROVE  Undepended(V)[r] = Cardinality(Users(entries \ V, r))
<1> DEFINE U == Users(entries, r)
           W == Users(V, r)
<1>1. V \subseteq entries /\ r \in Resources /\ dependents[r] = Cardinality(U)
  BY DEF ClosedUnderUse, Counted, TypeOK, CacheTypeOK
<1>2. Users(entries \ V, r) = U \ W /\ U \cap W = W
  BY <1>1 DEF Users
<1>3. Cardinality(U \ W) = Cardinality(U) - Cardinality(U \cap W)
  BY UsersFinite, FS_Difference
<1>4. W \in SUBSET U
  BY <1>1 DEF Users
<1>5. Cardinality(W) <= Cardinality(U) /\ Cardinality(W) \in Nat /\ Cardinality(U) \in Nat
  BY <1>4, UsersFinite, FS_Subset
<1>6. Undepended(V)[r] = Less(Cardinality(U), Cardinality(W))
  BY <1>1 DEF Undepended
<1> HIDE DEF U, W
<1>7. Less(Cardinality(U), Cardinality(W)) = Cardinality(U) - Cardinality(W)
  BY <1>5 DEF Less
<1> QED BY <1>2, <1>3, <1>6, <1>7

LEMMA RemainingSprites ==
  ASSUME SpritesStay, NEW V, ClosedUnderUse(V)
  PROVE  \A x \in (entries \ V) \cap Textures : SpriteOf[x] \in entries \ V
BY DEF SpritesStay, ClosedUnderUse, Users

LEMMA EvictDepends ==
  ASSUME TypeOK, Counted, SpritesStay, NEW V, ClosedUnderUse(V), Evict(V)
  PROVE  Counted' /\ SpritesStay'
<1>1. Counted'
  BY RemainingCounted DEF Counted, Evict, Users
<1> QED BY <1>1, RemainingSprites DEF SpritesStay, Evict

LEMMA PublishDepends ==
  ASSUME TypeOK, Counted, SpritesStay, NEW V, ClosedUnderUse(V),
         NEW r \in Resources \ entries, NEW b, Publish(V, r, b),
         r \in Textures => SpriteOf[r] \in entries \ V
  PROVE  Counted' /\ SpritesStay'
<1>0. entries' = (entries \ V) \cup {r}
  BY DEF Publish
<1>1. SpritesStay'
  BY <1>0, RemainingSprites DEF SpritesStay
<1>2. \A x \in Textures : SpriteOf[x] # x
  BY CatalogAssumption DEF Textures
<1>3. ASSUME NEW x \in entries'
      PROVE  dependents'[x] = Cardinality(Users(entries', x))
  <2>0. x \in Resources
    BY <1>0 DEF TypeOK, CacheTypeOK
  <2>1. CASE x = r
    <3>1. Users(entries', x) = {}
      BY <1>0, <1>2, <2>1, RemainingSprites DEF Users
    <3> QED BY <2>0, <2>1, <3>1, FS_EmptySet DEF Publish
  <2>2. CASE x # r /\ r \in Textures /\ x = SpriteOf[r]
    <3>1. x \in entries \ V
      BY <1>0, <2>2
    <3>2. dependents'[x] = Undepended(V)[x] + 1
      BY <2>0, <2>2, <3>1 DEF Publish
    <3>3. Users(entries', x) = Users(entries \ V, x) \cup {r} /\ r \notin Users(entries \ V, x)
      BY <1>0, <2>2 DEF Users
    <3>4. Cardinality(Users(entries', x)) = Cardinality(Users(entries \ V, x)) + 1
      BY <3>3, UsersFinite, FS_AddElement
    <3> QED BY <3>1, <3>2, <3>4, RemainingCounted
  <2>3. CASE x # r /\ ~(r \in Textures /\ x = SpriteOf[r])
    <3>1. x \in entries \ V /\ dependents'[x] = Undepended(V)[x]
      BY <1>0, <2>0, <2>3 DEF Publish
    <3>2. Users(entries', x) = Users(entries \ V, x)
      BY <1>0, <2>3 DEF Users
    <3> QED BY <3>1, <3>2, RemainingCounted
  <2> QED BY <2>1, <2>2, <2>3
<1> QED BY <1>1, <1>3 DEF Counted, Users

DependInv == Counted /\ SpritesStay /\ LoadingSprite

LEMMA InitDepends == Init => DependInv
<1> SUFFICES ASSUME Init PROVE DependInv
  OBVIOUS
<1>1. Quiet
  BY DEF Init, Quiet, InLoader
<1>2. LoadingSprite
  BY <1>1, InitTypeOK, QuietLoaderInv DEF LoadingSprite
<1> QED BY <1>2 DEF DependInv, Counted, SpritesStay, Init

LEMMA QuietSprite ==
  ASSUME TypeOK, Quiet
  PROVE  LoadingSprite
BY QuietLoaderInv DEF LoadingSprite

(* Outside loaders the cache changes by an eviction or a raw publication.  *)
LEMMA QuietStepsDepend ==
  ASSUME TypeOK, Counted, SpritesStay, QuietSteps
  PROVE  Counted' /\ SpritesStay'
<1> USE DEF worldVars, leaseVars, cacheVars
<1>1. CASE UNCHANGED <<entries, dependents>>
  BY <1>1 DEF Counted, SpritesStay, Users
<1>2. ASSUME NEW l \in Leases, NEW r \in Resources, AcquireRaw(l, r)
      PROVE  Counted' /\ SpritesStay'
  <2>1. Publish(Victims(r), r, FALSE) /\ r \notin entries /\ r \notin Textures
    BY <1>2 DEF AcquireRaw, Textures
  <2> QED BY <2>1, VictimSetsClosed, PublishDepends
<1>3. ASSUME NEW V, ClosedUnderUse(V), Evict(V)
      PROVE  Counted' /\ SpritesStay'
  BY <1>3, EvictDepends
<1>4. ASSUME NEW r \in Resources, AcquireFails(r)
      PROVE  Counted' /\ SpritesStay'
  BY <1>3, <1>4, VictimSetsClosed DEF AcquireFails, EvictAndRelease
<1>5. ASSUME NEW g \in Groups, PurgeGroup(g)
      PROVE  Counted' /\ SpritesStay'
  BY <1>3, <1>5, VictimSetsClosed DEF PurgeGroup, EvictAndRelease
<1>6. CASE PurgeZeroReference
  BY <1>3, <1>6, VictimSetsClosed DEF PurgeZeroReference, EvictAndRelease
<1>7. ASSUME NEW g \in Groups \cup {NoGroup}, NEW kind \in TransitionKinds, BeginTransition(g, kind)
      PROVE  Counted' /\ SpritesStay'
  BY <1>3, <1>7, VictimSetsClosed DEF BeginTransition, EvictAndRelease
<1>8. ASSUME NEW kind \in TransitionKinds, BeginTransitionRefused(kind)
      PROVE  Counted' /\ SpritesStay'
  BY <1>3, <1>8, VictimSetsClosed DEF BeginTransitionRefused, EvictAndRelease
<1>9. CASE CancelTransition
  BY <1>3, <1>9, VictimSetsClosed DEF CancelTransition
<1> QED
  BY <1>1, <1>2, <1>4, <1>5, <1>6, <1>7, <1>8, <1>9
     DEF QuietSteps, AcquireResident, ReleaseLease, Pin, Unpin, CommitTransition

LEMMA NextDepends ==
  ASSUME ~LoaderMayReenter
  PROVE  TypeOK /\ LoaderInv /\ DependInv /\ [Next]_vars => DependInv'
<1> SUFFICES ASSUME TypeOK, LoaderInv, DependInv, [Next]_vars PROVE DependInv'
  OBVIOUS
<1> USE DEF worldVars, leaseVars, cacheVars
<1>t. TypeOK'
  BY NextTypeOK
<1>q. Quiet' => LoadingSprite'
  BY <1>t, QuietSprite, PTL
<1>u. UNCHANGED <<entries, dependents>> => Counted' /\ SpritesStay'
  BY DEF DependInv, Counted, SpritesStay, Users
<1>1. CASE QuietSteps
  BY <1>1, <1>q, QuietStepsDepend, QuietStepsAreQuiet DEF DependInv
<1>2. ASSUME NEW t \in Threads, NEW r \in Resources, NEW b \in BOOLEAN, BeginLoad(t, r, b)
      PROVE  DependInv'
  <2> DEFINE f == [kind |-> "load", id |-> r, replacement |-> b]
  <2>1. Quiet
    BY <1>2, CallersAlone DEF BeginLoad
  <2>2. f \in Frames /\ stack' = [stack EXCEPT ![t] = <<f>> \o @]
        /\ Evict(Victims(r)) /\ Derivable(r)
    BY <1>2 DEF BeginLoad, Frames
  <2>3. Counted' /\ SpritesStay'
    BY <2>2, VictimSetsClosed, EvictDepends DEF DependInv
  <2>4. Stacked(stack, t, f, stack') /\ Head(stack'[t]) = f
    BY <2>2, PushStacks
  <2>5. \A u \in Threads \ {t} : ~Loading(u)'
    <3>1. \A u \in Threads : ~Loading(u)
      BY <2>1, QuietLoaderInv
    <3> QED BY <2>4, <3>1 DEF Loading, Stacked
  <2>6. r \in Textures => SpriteOf[r] \in entries'
    <3>1. \A x \in Victims(r) : PoolOf[x] = PoolOf[r]
      BY DEF Victims, Evictable
    <3> QED BY <2>2, <3>1, CatalogAssumption DEF Derivable, Evict
  <2>7. LoadingSprite'
    BY <2>4, <2>5, <2>6 DEF LoadingSprite
  <2> QED BY <2>3, <2>7 DEF DependInv
<1>3. ASSUME NEW t \in Threads, Loading(t), stack' = [stack EXCEPT ![t] = Tail(@)]
      PROVE  Quiet'
  <2>1. \A u \in Threads \ {t} : ~InLoader(u)
    BY <1>3, LoadingIsIn DEF LoaderInv, OneLoader
  <2> QED BY <1>3, <2>1, PopQuiet DEF LoaderInv, Loading
<1>4. ASSUME NEW t \in Threads, NEW l \in Leases, EndLoad(t, l)
      PROVE  DependInv'
  <2>1. /\ Loading(t) /\ stack' = [stack EXCEPT ![t] = Tail(@)]
        /\ Head(stack[t]).id \notin entries
        /\ Publish({}, Head(stack[t]).id, Head(stack[t]).replacement)
    BY <1>4 DEF EndLoad
  <2>2. Head(stack[t]).id \in Resources \ entries
    BY <2>1, LoadingFrame
  <2>3. Head(stack[t]).id \in Textures => SpriteOf[Head(stack[t]).id] \in entries \ {}
    BY <2>1 DEF DependInv, LoadingSprite
  <2>4. ClosedUnderUse({})
    BY DEF ClosedUnderUse
  <2>5. Counted' /\ SpritesStay'
    BY <2>1, <2>2, <2>3, <2>4, PublishDepends DEF DependInv
  <2> QED BY <1>3, <1>q, <2>1, <2>5 DEF DependInv
<1>5. ASSUME NEW t \in Threads, EndLoadFails(t)
      PROVE  DependInv'
  BY <1>3, <1>5, <1>q, <1>u DEF EndLoadFails, DependInv
<1>6. ASSUME NEW t \in Threads, BeginStream(t)
      PROVE  DependInv'
  <2> DEFINE f == [kind |-> "stream", id |-> NoResource, replacement |-> FALSE]
  <2>1. Quiet /\ UNCHANGED <<entries, dependents>>
    BY <1>6, CallersAlone DEF BeginStream
  <2>2. f \in Frames /\ stack' = [stack EXCEPT ![t] = <<f>> \o @]
    BY <1>6 DEF BeginStream, Frames
  <2>3. Stacked(stack, t, f, stack') /\ Head(stack'[t]) = f
    BY <2>2, PushStacks
  <2>4. \A u \in Threads : ~Loading(u)'
    <3>1. \A u \in Threads : ~Loading(u)
      BY <2>1, QuietLoaderInv
    <3>2. ~Loading(t)'
      BY <2>3 DEF Loading
    <3> QED BY <2>3, <3>1, <3>2 DEF Loading, Stacked
  <2> QED BY <1>u, <2>1, <2>4 DEF DependInv, LoadingSprite
<1>7. ASSUME NEW t \in Threads, EndStream(t)
      PROVE  DependInv'
  <2>1. /\ stack[t] # <<>> /\ stack' = [stack EXCEPT ![t] = Tail(@)]
        /\ \A u \in Threads \ {t} : ~InLoader(u)
        /\ UNCHANGED <<entries, dependents>>
    BY <1>7 DEF EndStream, MayReturn
  <2>2. Quiet'
    BY <2>1, PopQuiet DEF LoaderInv
  <2> QED BY <1>q, <1>u, <2>1, <2>2 DEF DependInv
<1>8. CASE UNCHANGED <<cacheVars, staged, records, leaseVars, worldVars, stack>>
  BY <1>8, <1>u DEF DependInv, LoadingSprite, Loading
<1> QED BY <1>1, <1>2, <1>4, <1>5, <1>6, <1>7, <1>8, StepsAre

LEMMA DependResident == DependInv => DependenciesResident
BY DEF DependInv, Counted, SpritesStay, LoadingSprite, DependenciesResident

(* A texture's sprite is resident as long as the texture is or is being     *)
(* built, and counts it, for any cache and any interleaving of callers.     *)
THEOREM DependenciesAlwaysResident ==
  ASSUME ~LoaderMayReenter
  PROVE  Spec => []DependenciesResident
<1>1. TypeOK /\ LoaderInv /\ DependInv /\ [Next]_vars => TypeOK' /\ LoaderInv' /\ DependInv'
  BY NextTypeOK, NextLoader, NextDepends
<1> QED BY <1>1, InitTypeOK, InitLoader, InitDepends, DependResident, PTL DEF Spec

(* What a rollback leaves of its transition: what somebody still uses.      *)
LEMMA RollbackSweeps ==
  ASSUME TypeOK, Counted, CancelTransition, NEW r \in staged \cap entries', refcount[r] = 0
  PROVE  \E x \in Users(entries', r) : x \notin staged \/ refcount[x] # 0
<1> DEFINE S == { x \in staged : refcount[x] = 0 }
           free == { x \in S : dependents[x] = 0 }
<1>1. entries' = entries \ Sweep(S) /\ S \subseteq entries
  BY DEF CancelTransition, Evict, CancelVictims, TypeOK
<1>2. r \in S /\ r \notin Sweep(S) /\ r \in entries /\ dependents[r] \in Nat
  BY <1>1 DEF TypeOK, CacheTypeOK
<1>3. ~(dependents[r] <= Cardinality(Users(free, r)))
  BY <1>2 DEF Sweep
<1>4. ~(Users(entries, r) \subseteq Users(free, r))
  <2>1. ASSUME Users(entries, r) \subseteq Users(free, r)
        PROVE  Users(entries, r) = Users(free, r)
    BY <1>1, <2>1 DEF Users
  <2> QED BY <1>2, <1>3, <2>1 DEF Counted
<1>5. PICK x \in Users(entries, r) : x \notin free
  BY <1>4 DEF Users
<1>6. x \in entries /\ x \in Textures /\ SpriteOf[x] = r
  BY <1>5 DEF Users
<1>7. dependents[x] = 0
  <2>1. \A y \in Textures : SpriteOf[y] # x
    BY <1>6, CatalogAssumption DEF Textures
  <2>2. Users(entries, x) = {}
    BY <2>1 DEF Users
  <2> QED BY <1>6, <2>2, FS_EmptySet DEF Counted
<1>8. x \notin S
  BY <1>5, <1>7
<1>9. x \in Users(entries', r)
  BY <1>1, <1>6, <1>8 DEF Users, Sweep
<1> QED BY <1>8, <1>9

(* A rollback removes every entry of its transition that nobody uses, the   *)
(* sprites whose textures it removed first included.                        *)
THEOREM RollbacksRemoveStaged ==
  ASSUME ~LoaderMayReenter
  PROVE  Spec => RollbackRemovesStaged
<1>1. TypeOK /\ LoaderInv /\ DependInv /\ [Next]_vars => TypeOK' /\ LoaderInv' /\ DependInv'
  BY NextTypeOK, NextLoader, NextDepends
<1>2. TypeOK /\ DependInv /\ [Next]_vars
      => (CancelTransition
          => \A r \in staged \cap entries' :
               \/ refcount[r] # 0
               \/ \E x \in Users(entries', r) : x \notin staged \/ refcount[x] # 0)
  BY RollbackSweeps DEF DependInv
<1> QED BY <1>1, <1>2, InitTypeOK, InitLoader, InitDepends, PTL DEF Spec, RollbackRemovesStaged
=============================================================================
