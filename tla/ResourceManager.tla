--------------------------- MODULE ResourceManager ---------------------------
(***************************************************************************)
(* The central resource cache (src/common/resource_manager.cpp): raw and   *)
(* derived entries, leases, pins, per-pool budgets with LRU eviction,      *)
(* group transitions and the single scratch workspace.                     *)
(*                                                                         *)
(* Every public operation holds one recursive mutex, so an operation is    *)
(* one action, with two exceptions: acquire_derived calls its loader with  *)
(* the mutex held (BeginLoad ... EndLoad: only the calling thread can      *)
(* re-enter meanwhile) and read_stream_range calls its consumer without it *)
(* (BeginStream ... EndStream: everybody may run meanwhile).               *)
(***************************************************************************)
EXTENDS Integers, Sequences, FiniteSets

CONSTANTS
  Resources,        \* cache ids: catalog ids and derived ids
  NoResource,
  KindOf,           \* "raw", "sprite" or "texture" (the last two are derived)
  SpriteOf,         \* the sprite entry a derived texture depends on
  PoolOf, GroupOf,  \* the ledger pool and the resource group of an id
  ChargeOf,         \* budget units an entry's payload is charged
  MountPinned,      \* raw ids whose descriptor has PIN_ON_MOUNT
  Groups,           \* declared group ids; 0 is not one of them
  CapOf,            \* per pool: min(pool limit, package budget)
  MaxCharge,
  Leases,           \* ResourceLease objects
  PinOwners,
  Threads,          \* threads that use the manager
  MaxRefcount,      \* stands for the largest 32-bit count
  MaxDepth,         \* bound on nested callbacks of one thread
  LoaderMayReenter, \* a loader calls the manager back, on its own thread
  AllocatorFails    \* operator new may throw inside acquire_derived

Pools == {"Metadata", "Audio", "Sprite", "Texture", "LanguageFont"}
NoGroup == 0
\* Menu, FirstLevel and World differ only in the reserve the gate asks for.
TransitionKinds == {"World", "SaveLoad"}
NoTransition == [target |-> NoGroup, kind |-> "none"]
Textures == { r \in Resources : KindOf[r] = "texture" }
Frames == [kind : {"stream"}, id : {NoResource}, replacement : {FALSE}]
          \cup [kind : {"load"}, id : Resources, replacement : BOOLEAN]

ASSUME CatalogAssumption ==
  /\ IsFiniteSet(Resources) /\ NoResource \notin Resources
  /\ KindOf \in [Resources -> {"raw", "sprite", "texture"}]
  /\ SpriteOf \in [Textures -> { r \in Resources : KindOf[r] = "sprite" }]
  /\ PoolOf \in [Resources -> Pools]
  /\ Groups \subseteq Nat \ {NoGroup}
  /\ GroupOf \in [Resources -> Groups]
  /\ \A x \in Textures : /\ GroupOf[SpriteOf[x]] = GroupOf[x]
                         /\ PoolOf[SpriteOf[x]] # PoolOf[x]
  /\ MaxCharge \in Nat
  /\ ChargeOf \in [Resources -> 1..MaxCharge]
  /\ MountPinned \subseteq { r \in Resources : KindOf[r] = "raw" }
  /\ CapOf \in [Pools -> Nat]

ASSUME ActorAssumption ==
  /\ IsFiniteSet(Leases) /\ IsFiniteSet(Threads)
  /\ "Mount" \in PinOwners
  /\ MaxRefcount \in Nat \ {0} /\ MaxDepth \in Nat
  /\ LoaderMayReenter \in BOOLEAN /\ AllocatorFails \in BOOLEAN

VARIABLES
  entries,      \* ids in the entry map
  refcount, dependents, pins, \* of an entry; zero or empty when absent
  replacement,  \* entries created for a replacement-palette texture
  staged,       \* entries whose transaction_id is the active transaction's
  older,        \* <<a, b>>: idle a was last released before idle b
  records,      \* live ledger records per id
  leaseOf,      \* the entry each lease object holds, or NoResource
  leases,       \* the manager's own count of outstanding leases
  activeGroup, blockedGroup, transition,
  scratchBusy,
  stack         \* per thread: its callbacks in progress, innermost first

cacheVars == <<entries, refcount, dependents, pins, replacement, older>>
worldVars == <<activeGroup, blockedGroup, transition>>
leaseVars == <<leaseOf, leases>>
vars == <<cacheVars, staged, records, leaseVars, worldVars, scratchBusy, stack>>

-----------------------------------------------------------------------------
(* The mutex.  A thread inside a loader owns it.                           *)

InLoader(t) == \E i \in DOMAIN stack[t] : stack[t][i].kind = "load"

MayCall(t) ==
  /\ \A u \in Threads \ {t} : ~InLoader(u)
  /\ InLoader(t) => LoaderMayReenter

Unlocked == \E t \in Threads : MayCall(t)

\* What a thread finishing a callback needs: the mutex is its own or free.
MayReturn(t) == \A u \in Threads \ {t} : ~InLoader(u)

-----------------------------------------------------------------------------
(* Reading the cache.                                                      *)

Users(S, r) == { x \in S \cap Textures : SpriteOf[x] = r }
Idle(r) == refcount[r] = 0 /\ pins[r] = {}
Closed(r) == transition # NoTransition /\ GroupOf[r] = blockedGroup
HasGroupLeases(g) == \E r \in entries : GroupOf[r] = g /\ refcount[r] # 0
InTarget(r) == transition # NoTransition /\ GroupOf[r] = transition.target
UsesScratch(r) == KindOf[r] = "sprite"

Less(a, b) == IF b < a THEN a - b ELSE 0

\* The ledger's live bytes of a pool, were the entries V released.  One id has at
\* most one record per load in progress and one of its entry: 1 + MaxDepth.
BytesWithout(p, V) ==
  Cardinality({ u \in Resources \X (1..MaxDepth + 1) \X (1..MaxCharge) :
                  /\ PoolOf[u[1]] = p
                  /\ u[2] <= records[u[1]] - (IF u[1] \in V THEN 1 ELSE 0)
                  /\ u[3] <= ChargeOf[u[1]] })

\* MUTANT: the request's own charge is forgotten.
Fits_ForgetsRequest(V, r) == BytesWithout(PoolOf[r], V) <= CapOf[PoolOf[r]]

Fits(V, r) == BytesWithout(PoolOf[r], V) + ChargeOf[r] <= CapOf[PoolOf[r]]

-----------------------------------------------------------------------------
(* Eviction.  evict_one takes, of the evictable entries of one pool, the   *)
(* first in eviction order; acquire repeats it until the request fits or   *)
(* nothing evictable is left, so what goes is a prefix of that order.      *)

\* MUTANT: an entry somebody holds may go.
Evictable_IgnoresRefcount(p) ==
  { r \in entries : PoolOf[r] = p /\ pins[r] = {} /\ dependents[r] = 0 }

\* MUTANT: a sprite may go before its texture.
Evictable_IgnoresDependents(p) == { r \in entries : PoolOf[r] = p /\ Idle(r) }

Evictable(p) ==
  { r \in entries : PoolOf[r] = p /\ Idle(r) /\ dependents[r] = 0 }

EvictedBefore(a, b) ==
  IF PoolOf[a] = "Texture" /\ (a \in replacement) # (b \in replacement)
  THEN a \in replacement
  ELSE <<a, b>> \in older

Prefixes(p) ==
  { V \in SUBSET Evictable(p) :
      \A v \in V, e \in Evictable(p) : EvictedBefore(e, v) => e \in V }

\* The shortest prefix that makes room; all of them contain it.
Victims(r) ==
  LET enough == { V \in Prefixes(PoolOf[r]) : Fits(V, r) }
  IN  { e \in Evictable(PoolOf[r]) : \A V \in enough : e \in V }

\* What is left of S when entries go as soon as no texture depends on them.
Sweep(S) ==
  { r \in S : dependents[r] <= Cardinality(Users({ x \in S : dependents[x] = 0 }, r)) }

\* MUTANT: a group is swept without regard to pins.
GroupVictims_IgnoresPins(g) ==
  Sweep({ r \in entries : GroupOf[r] = g /\ refcount[r] = 0 })

GroupVictims(g) == Sweep({ r \in entries : GroupOf[r] = g /\ Idle(r) })
PurgeVictims == Sweep({ r \in entries : Idle(r) })
\* MUTANT: a rollback takes what escaped leases still hold.
CancelVictims_IgnoresRefcount == Sweep(staged)

\* MUTANT: a rollback passes over the entries once.
CancelVictims_OnePass == { r \in staged : refcount[r] = 0 /\ dependents[r] = 0 }

CancelVictims == Sweep({ r \in staged : refcount[r] = 0 })

Freed(V) == [r \in Resources |-> IF r \in V THEN Less(records[r], 1) ELSE records[r]]
Unpinned(V) == [r \in Resources |-> IF r \in V THEN {} ELSE pins[r]]
Undepended(V) ==
  [r \in Resources |-> IF r \in V THEN 0
                       ELSE Less(dependents[r], Cardinality(Users(V, r)))]
Forget(V) == { p \in older : p[1] \notin V /\ p[2] \notin V }

Evict(V) ==
  /\ entries' = entries \ V
  /\ refcount' = [r \in Resources |-> IF r \in V THEN 0 ELSE refcount[r]]
  /\ dependents' = Undepended(V)
  /\ pins' = Unpinned(V)
  /\ replacement' = replacement \ V
  /\ older' = Forget(V)

\* MUTANT: an evicted entry stays on the transaction's list.
EvictAndRelease_KeepsStaged(V) ==
  /\ Evict(V)
  /\ staged' = staged
  /\ records' = Freed(V)

EvictAndRelease(V) ==
  /\ Evict(V)
  /\ staged' = staged \ V
  /\ records' = Freed(V)

\* The entry of id r is published, with its first reference, after V made room.
Publish(V, r, isReplacement) ==
  /\ entries' = (entries \ V) \cup {r}
  /\ refcount' = [x \in Resources |->
                    IF x = r THEN 1 ELSE IF x \in V THEN 0 ELSE refcount[x]]
  /\ dependents' = [x \in Resources |->
                      IF x = r THEN 0
                      ELSE IF r \in Textures /\ x = SpriteOf[r] /\ x \in entries \ V
                      THEN Undepended(V)[x] + 1
                      ELSE Undepended(V)[x]]
  /\ pins' = [Unpinned(V) EXCEPT ![r] = IF r \in MountPinned THEN {"Mount"} ELSE {}]
  /\ replacement' = (replacement \ V) \cup (IF isReplacement THEN {r} ELSE {})
  /\ older' = Forget(V)
  /\ staged' = (staged \ V) \cup (IF InTarget(r) THEN {r} ELSE {})

Lend(l, r) ==
  /\ leaseOf[l] = NoResource
  /\ leaseOf' = [leaseOf EXCEPT ![l] = r]
  /\ leases' = leases + 1

-----------------------------------------------------------------------------
Init ==
  /\ entries = {}
  /\ refcount = [r \in Resources |-> 0]
  /\ dependents = [r \in Resources |-> 0]
  /\ pins = [r \in Resources |-> {}]
  /\ replacement = {} /\ staged = {} /\ older = {}
  /\ records = [r \in Resources |-> 0]
  /\ leaseOf = [l \in Leases |-> NoResource]
  /\ leases = 0
  /\ activeGroup = NoGroup /\ blockedGroup = NoGroup
  /\ transition = NoTransition
  /\ scratchBusy = FALSE
  /\ stack = [t \in Threads |-> <<>>]

(* acquire and acquire_derived find the entry resident: one more reference. *)
AcquireResident(l, r) ==
  /\ Unlocked
  /\ r \in entries /\ ~Closed(r) /\ refcount[r] < MaxRefcount
  /\ Lend(l, r)
  /\ refcount' = [refcount EXCEPT ![r] = @ + 1]
  /\ older' = Forget({r})
  /\ UNCHANGED <<entries, dependents, pins, replacement, staged, records,
                 worldVars, scratchBusy, stack>>

(* acquire reads a raw resource into a new entry. *)
AcquireRaw(l, r) ==
  LET V == Victims(r) IN
  /\ Unlocked
  /\ KindOf[r] = "raw" /\ r \notin entries /\ ~Closed(r)
  /\ Fits(V, r)
  /\ Publish(V, r, FALSE)
  /\ records' = [Freed(V) EXCEPT ![r] = @ + 1]
  /\ Lend(l, r)
  /\ UNCHANGED <<worldVars, scratchBusy, stack>>

\* acquire_derived goes past its identity, scratch and dependency checks.
Derivable(r) ==
  /\ UsesScratch(r) => ~scratchBusy
  /\ r \in Textures => SpriteOf[r] \in entries

(* An acquire that fails after making room: the pool is still too full, the *)
(* runtime gate refuses, or an allocation, the read or the hash fails.  A   *)
(* derived one that got as far as the ledger has cleared the scratch flag.  *)
AcquireFails(r) ==
  LET V == Victims(r) IN
  /\ Unlocked
  /\ r \notin entries /\ ~Closed(r)
  /\ KindOf[r] # "raw" => Derivable(r)
  /\ EvictAndRelease(V)
  /\ \/ UNCHANGED scratchBusy
     \/ KindOf[r] # "raw" /\ Fits(V, r) /\ scratchBusy' = FALSE
  /\ UNCHANGED <<leaseVars, worldVars, stack>>

(* acquire_derived up to the call of the loader. *)
BeginLoad(t, r, isReplacement) ==
  LET V == Victims(r) IN
  /\ MayCall(t) /\ Len(stack[t]) < MaxDepth
  /\ KindOf[r] # "raw" /\ r \notin entries /\ ~Closed(r) /\ Derivable(r)
  /\ isReplacement => r \in Textures
  /\ Fits(V, r)
  /\ Evict(V)
  /\ staged' = staged \ V
  /\ records' = [Freed(V) EXCEPT ![r] = @ + 1]
  /\ scratchBusy' = UsesScratch(r)
  /\ stack' = [stack EXCEPT ![t] =
                 <<[kind |-> "load", id |-> r, replacement |-> isReplacement]>> \o @]
  /\ UNCHANGED <<leaseVars, worldVars>>

Loading(t) == stack[t] # <<>> /\ Head(stack[t]).kind = "load"

(* The loader returned the planned size and the entry is published.  The   *)
(* sprite's count is raised through an iterator found before the loader    *)
(* ran: when the sprite is gone by then, the write touches no entry.       *)
EndLoad(t, l) ==
  LET f == Head(stack[t]) IN
  /\ Loading(t)
  /\ f.id \notin entries
  /\ Publish({}, f.id, f.replacement)
  /\ Lend(l, f.id)
  /\ scratchBusy' = FALSE
  /\ stack' = [stack EXCEPT ![t] = Tail(@)]
  /\ UNCHANGED <<records, worldVars>>

\* MUTANT: the failure path forgets the allocation guard.
EndLoadFails_Leaks(t) ==
  /\ Loading(t)
  /\ scratchBusy' = FALSE
  /\ stack' = [stack EXCEPT ![t] = Tail(@)]
  /\ UNCHANGED <<cacheVars, staged, records, leaseVars, worldVars>>

(* The loader failed, threw, wrote another size, or publication failed (also *)
(* because a nested acquire published the id first): the payload is freed.   *)
EndLoadFails(t) ==
  LET f == Head(stack[t]) IN
  /\ Loading(t)
  /\ records' = [records EXCEPT ![f.id] = Less(@, 1)]
  /\ scratchBusy' = FALSE
  /\ stack' = [stack EXCEPT ![t] = Tail(@)]
  /\ UNCHANGED <<cacheVars, staged, leaseVars, worldVars>>

(* An exception before the loader: the handler clears the flag, unlocked, *)
(* whoever holds the mutex or the workspace.                              *)
AcquireDerivedThrows ==
  /\ AllocatorFails
  /\ \E t \in Threads : InLoader(t) => LoaderMayReenter
  /\ scratchBusy' = FALSE
  /\ UNCHANGED <<cacheVars, staged, records, leaseVars, worldVars, stack>>

(* read_stream_range: the scratch flag is taken under the mutex, the read  *)
(* and the consumer run without it.                                        *)
BeginStream(t) ==
  /\ MayCall(t) /\ Len(stack[t]) < MaxDepth
  /\ ~scratchBusy
  /\ scratchBusy' = TRUE
  /\ stack' = [stack EXCEPT ![t] =
                 <<[kind |-> "stream", id |-> NoResource, replacement |-> FALSE]>> \o @]
  /\ UNCHANGED <<cacheVars, staged, records, leaseVars, worldVars>>

EndStream(t) ==
  /\ stack[t] # <<>> /\ Head(stack[t]).kind = "stream"
  /\ MayReturn(t)
  /\ scratchBusy' = FALSE
  /\ stack' = [stack EXCEPT ![t] = Tail(@)]
  /\ UNCHANGED <<cacheVars, staged, records, leaseVars, worldVars>>

(* ResourceLease::release, its destructor and its move assignment. *)
ReleaseLease(l) ==
  LET r == leaseOf[l]
      counted == r \in entries /\ refcount[r] # 0
  IN
  /\ Unlocked
  /\ r # NoResource
  /\ leaseOf' = [leaseOf EXCEPT ![l] = NoResource]
  /\ leases' = IF counted THEN leases - 1 ELSE leases
  /\ refcount' = IF counted THEN [refcount EXCEPT ![r] = @ - 1] ELSE refcount
  /\ older' = IF counted /\ refcount[r] = 1
              THEN older \cup { <<x, r>> : x \in { y \in entries \ {r} : refcount[y] = 0 } }
              ELSE older
  /\ UNCHANGED <<entries, dependents, pins, replacement, staged, records,
                 worldVars, scratchBusy, stack>>

Pin(r, o) ==
  /\ Unlocked
  /\ r \in entries
  /\ pins' = [pins EXCEPT ![r] = @ \cup {o}]
  /\ UNCHANGED <<entries, refcount, dependents, replacement, older, staged, records,
                 leaseVars, worldVars, scratchBusy, stack>>

Unpin(r, o) ==
  /\ Unlocked
  /\ r \in entries /\ o \in pins[r]
  /\ pins' = [pins EXCEPT ![r] = @ \ {o}]
  /\ UNCHANGED <<entries, refcount, dependents, replacement, older, staged, records,
                 leaseVars, worldVars, scratchBusy, stack>>

(* purge_group, and release_group once it found no lease in the group. *)
PurgeGroup(g) ==
  /\ Unlocked
  /\ EvictAndRelease(GroupVictims(g))
  /\ UNCHANGED <<leaseVars, worldVars, scratchBusy, stack>>

PurgeZeroReference ==
  /\ Unlocked
  /\ EvictAndRelease(PurgeVictims)
  /\ UNCHANGED <<leaseVars, worldVars, scratchBusy, stack>>

\* MUTANT: the old group's leases are not waited for.
MayBegin_IgnoresLeases(kind) == transition = NoTransition

\* begin_transition passes its checks; a save or load leaves the world alone.
MayBegin(kind) ==
  /\ transition = NoTransition
  /\ kind # "SaveLoad" /\ activeGroup # NoGroup => ~HasGroupLeases(activeGroup)

OutgoingVictims(kind) ==
  IF kind # "SaveLoad" /\ activeGroup # NoGroup THEN GroupVictims(activeGroup) ELSE {}

BeginTransition(g, kind) ==
  /\ Unlocked
  /\ MayBegin(kind)
  /\ IF kind = "SaveLoad" THEN g = activeGroup ELSE g \in Groups
  /\ EvictAndRelease(OutgoingVictims(kind))
  /\ transition' = [target |-> g, kind |-> kind]
  /\ blockedGroup' = IF kind = "SaveLoad" THEN NoGroup ELSE activeGroup
  /\ UNCHANGED <<leaseVars, activeGroup, scratchBusy, stack>>

(* The operation reserve gate refuses, after the old group was evicted. *)
BeginTransitionRefused(kind) ==
  /\ Unlocked
  /\ MayBegin(kind)
  /\ EvictAndRelease(OutgoingVictims(kind))
  /\ blockedGroup' = NoGroup
  /\ UNCHANGED <<leaseVars, activeGroup, transition, scratchBusy, stack>>

(* TransitionToken::commit.  The one live token is that of the transition. *)
CommitTransition ==
  /\ Unlocked
  /\ transition # NoTransition
  /\ activeGroup' = transition.target
  /\ blockedGroup' = NoGroup
  /\ transition' = NoTransition
  /\ staged' = {}
  /\ UNCHANGED <<cacheVars, records, leaseVars, scratchBusy, stack>>

(* TransitionToken::cancel and its destructor.  Staged entries somebody    *)
(* still holds keep a transaction id no later transition has.              *)
CancelTransition ==
  /\ Unlocked
  /\ transition # NoTransition
  /\ Evict(CancelVictims)
  /\ records' = Freed(CancelVictims)
  /\ staged' = {}
  /\ blockedGroup' = NoGroup
  /\ transition' = NoTransition
  /\ UNCHANGED <<leaseVars, activeGroup, scratchBusy, stack>>

Next ==
  \/ \E l \in Leases, r \in Resources : AcquireResident(l, r)
  \/ \E l \in Leases, r \in Resources : AcquireRaw(l, r)
  \/ \E r \in Resources : AcquireFails(r)
  \/ \E t \in Threads, r \in Resources, b \in BOOLEAN : BeginLoad(t, r, b)
  \/ \E t \in Threads, l \in Leases : EndLoad(t, l)
  \/ \E t \in Threads : EndLoadFails(t)
  \/ AcquireDerivedThrows
  \/ \E t \in Threads : BeginStream(t)
  \/ \E t \in Threads : EndStream(t)
  \/ \E l \in Leases : ReleaseLease(l)
  \/ \E r \in Resources, o \in PinOwners : Pin(r, o)
  \/ \E r \in Resources, o \in PinOwners : Unpin(r, o)
  \/ \E g \in Groups : PurgeGroup(g)
  \/ PurgeZeroReference
  \/ \E g \in Groups \cup {NoGroup}, kind \in TransitionKinds : BeginTransition(g, kind)
  \/ \E kind \in TransitionKinds : BeginTransitionRefused(kind)
  \/ CommitTransition
  \/ CancelTransition

Spec == Init /\ [][Next]_vars

-----------------------------------------------------------------------------
(* Properties.                                                             *)

\* Every variable has its type.
CacheTypeOK ==
  /\ entries \subseteq Resources
  /\ refcount \in [Resources -> Nat]
  /\ dependents \in [Resources -> Nat]
  /\ pins \in [Resources -> SUBSET PinOwners]
  /\ replacement \subseteq entries
  /\ older \subseteq entries \X entries

LeaseTypeOK ==
  /\ leaseOf \in [Leases -> Resources \cup {NoResource}]
  /\ leases \in Int

WorldTypeOK ==
  /\ activeGroup \in Groups \cup {NoGroup} /\ blockedGroup \in Groups \cup {NoGroup}
  /\ transition \in {NoTransition}
                    \cup [target : Groups \cup {NoGroup}, kind : TransitionKinds]

TypeOK ==
  /\ CacheTypeOK /\ LeaseTypeOK /\ WorldTypeOK
  /\ staged \subseteq entries
  /\ records \in [Resources -> Nat]
  /\ scratchBusy \in BOOLEAN
  /\ stack \in [Threads -> Seq(Frames)]

Holders(r) == { l \in Leases : leaseOf[l] = r }

\* "Live entries never evict" (RH07): what a lease holds is resident, the
\* entry's refcount is the number of leases on it, and the manager's own lease
\* count, which gates shutdown, is the number of leases outstanding, through
\* any order of acquires, evictions, purges, transitions and rollbacks.
LeasesAccounted ==
  /\ \A r \in Resources : refcount[r] = Cardinality(Holders(r))
  /\ \A l \in Leases : leaseOf[l] \in entries \cup {NoResource}
  /\ leases = Cardinality({ l \in Leases : leaseOf[l] # NoResource })

\* The live ledger bytes of a pool, payloads still being loaded included, are
\* never above the pool's cap.
PoolWithinBudget == \A p \in Pools : BytesWithout(p, {}) <= CapOf[p]

LoadsOf(r) == { u \in Threads \X (1..MaxDepth) :
                  /\ u[2] \in DOMAIN stack[u[1]]
                  /\ stack[u[1]][u[2]].id = r }

\* A ledger record is owned by the entry it was published in or by the load in
\* progress: no failure path leaks one, none is freed twice.
RecordsOwned ==
  \A r \in Resources :
    records[r] = Cardinality(LoadsOf(r)) + (IF r \in entries THEN 1 ELSE 0)

\* "Texture precedes sprite dependency" (RH07): a texture's sprite is resident as
\* long as the texture is or is being built, and counts its texture.
DependenciesResident ==
  /\ \A r \in entries : dependents[r] = Cardinality(Users(entries, r))
  /\ \A x \in entries \cap Textures : SpriteOf[x] \in entries
  /\ \A t \in Threads : Loading(t) /\ Head(stack[t]).id \in Textures
                        => SpriteOf[Head(stack[t]).id] \in entries

\* From the begin of a world change to its end nobody holds anything of the old
\* group: "commit leaves no live lease from the old level".
OldGroupDrained ==
  transition # NoTransition /\ blockedGroup # NoGroup => ~HasGroupLeases(blockedGroup)

\* A pinned entry is dropped by nothing but the rollback of the transition that
\* brought it in.
PinnedSurvives ==
  [][\A r \in entries \ entries' : pins[r] # {} => r \in staged /\ CancelTransition]_vars

\* A rollback removes every entry of its transition that nobody uses, sprites
\* whose textures went first included.
RollbackRemovesStaged ==
  [][CancelTransition =>
       \A r \in staged \cap entries' :
         \/ refcount[r] # 0
         \/ \E x \in Users(entries', r) : x \notin staged \/ refcount[x] # 0]_vars

\* One task at a time works in the scratch workspace.
ScratchUsers == { u \in Threads \X (1..MaxDepth) :
                    /\ u[2] \in DOMAIN stack[u[1]]
                    /\ LET f == stack[u[1]][u[2]]
                       IN  f.kind = "stream" \/ UsesScratch(f.id) }

ScratchExclusive == Cardinality(ScratchUsers) <= 1

\* The cache keeps the promise of LeaseCache.
Promise == INSTANCE LeaseCache WITH resident <- entries, holds <- leaseOf
LeaseCachePromise == Promise!Spec
=============================================================================
