------------------------- MODULE RuntimeSessionProofs -------------------------
(***************************************************************************)
(* Theorems of RuntimeSession.  A session does nothing to its manager that *)
(* the manager's own specification does not allow, so every theorem of     *)
(* ResourceManagerProofs is one of the session.  On top of it: the         *)
(* session's state, its token and the manager's transition and group agree,*)
(* and a closed session left nothing behind.                               *)
(***************************************************************************)
EXTENDS RuntimeSession, ResourceManagerProofs

-----------------------------------------------------------------------------
(* The session uses the manager as its specification says.                 *)

\* Every step of the session is a step of the manager, or none.
LEMMA SessionStepsManager ==
  TypeOK /\ [SessionNext]_<<vars, sessionVars>> => [Next]_vars
<1> SUFFICES ASSUME TypeOK, [SessionNext]_<<vars, sessionVars>> PROVE [Next]_vars
  OBVIOUS
<1> USE CatalogAssumption, ActorAssumption, GroupAssumption
<1>1. ASSUME NEW l \in Leases, NEW r \in Resources, PinResource(l, r) \/ Acquire(l, r)
      PROVE  Next
  BY <1>1 DEF PinResource, Acquire, Next
<1>2. ASSUME NEW l \in Leases, ReleasePinned(l) \/ Release(l)
      PROVE  Next
  BY <1>2 DEF ReleasePinned, Release, Next
<1>3. CASE BeginMenu
  BY <1>3 DEF BeginMenu, Next, TransitionKinds
<1>4. CASE CommitMenu \/ PrepareSucceeds \/ PrepareFails \/ FinishSaveLoad
  BY <1>4 DEF CommitMenu, PrepareSucceeds, PrepareFails, FinishSaveLoad, Next
<1>5. CASE StartFails \/ EnterRefused
  BY <1>5 DEF StartFails, EnterRefused, Next, TransitionKinds
<1>6. ASSUME NEW r \in Resources, AcquireRejected(r)
      PROVE  Next
  BY <1>6 DEF AcquireRejected, Next
<1>7. CASE UsesManager
  BY <1>7 DEF UsesManager, Next
<1>8. ASSUME NEW g \in Groups, NEW s \in Stable, Enter(g, s)
      PROVE  Next
  BY <1>8 DEF Enter, Next, TransitionKinds
<1>9. CASE TransitionThrows
  BY <1>9 DEF TransitionThrows, Next
<1>10. CASE BeginSaveLoad
  <2>1. activeGroup \in Groups \cup {NoGroup} BY DEF TypeOK, WorldTypeOK
  <2> QED BY <1>10, <2>1 DEF BeginSaveLoad, Next, TransitionKinds
<1>11. CASE Suspend \/ Resume \/ ShutdownRefused \/ ShutdownPasses
  BY <1>11 DEF Suspend, Resume, ShutdownRefused, ShutdownPasses
<1>12. CASE BeginShutdown
  BY <1>12 DEF BeginShutdown, Next
<1>13. ASSUME NEW r \in Resources, ShutdownUnpins(r)
       PROVE  Next
  BY <1>13 DEF ShutdownUnpins, Next
<1>14. CASE ShutdownPurges
  BY <1>14 DEF ShutdownPurges, Next
<1>15. CASE UNCHANGED <<vars, sessionVars>>
  BY <1>15
<1> QED BY <1>1, <1>2, <1>3, <1>4, <1>5, <1>6, <1>7, <1>8, <1>9, <1>10, <1>11, <1>12,
           <1>13, <1>14, <1>15 DEF SessionNext

LEMMA SessionKeepsManagerType == SessionSpec => []TypeOK
<1>1. SessionInit => TypeOK BY InitTypeOK DEF SessionInit
<1>2. TypeOK /\ [SessionNext]_<<vars, sessionVars>> => TypeOK'
  BY SessionStepsManager, NextTypeOK
<1> QED BY <1>1, <1>2, PTL DEF SessionSpec

\* The session's own variables keep their types too, for any clients and groups.
THEOREM SessionTypesCorrect == SessionSpec => []SessionTypeOK
<1> DEFINE OwnTypes ==
       /\ state \in States /\ oldState \in States /\ resumeState \in Stable /\ target \in Stable
       /\ saveToken \in BOOLEAN /\ passed \in BOOLEAN
       /\ mountPins \subseteq MountPinned
<1>1. SessionInit => OwnTypes BY DEF SessionInit, States, Stable
<1>2. OwnTypes /\ [SessionNext]_<<vars, sessionVars>> => OwnTypes'
  <2> SUFFICES ASSUME OwnTypes, [SessionNext]_<<vars, sessionVars>> PROVE OwnTypes'
    OBVIOUS
  <2>1. /\ Stable \subseteq States
        /\ {"Menu", "Transitioning", "Suspended", "ShuttingDown", "Error", "Closed"}
              \subseteq States
    BY DEF Stable, States
  <2>2. CASE UNCHANGED sessionVars
    BY <2>2 DEF sessionVars
  <2>3. CASE \/ CommitMenu \/ StartFails \/ PrepareSucceeds \/ PrepareFails
             \/ TransitionThrows \/ Resume \/ ShutdownRefused
    BY <2>1, <2>3 DEF CommitMenu, StartFails, PrepareSucceeds, PrepareFails, TransitionThrows,
                      Resume, ShutdownRefused, MoveTo
  <2>4. CASE BeginSaveLoad \/ FinishSaveLoad \/ Suspend \/ BeginShutdown \/ ShutdownPasses
    BY <2>1, <2>4 DEF BeginSaveLoad, FinishSaveLoad, Suspend, BeginShutdown, ShutdownPasses
  <2>5. CASE \E g \in Groups, s \in Stable : Enter(g, s)
    BY <2>1, <2>5 DEF Enter
  <2>6. CASE ShutdownPurges \/ \E r \in Resources : ShutdownUnpins(r)
    BY <2>1, <2>6 DEF ShutdownPurges, ShutdownUnpins
  <2>7. CASE \E l \in Leases, r \in Resources : PinResource(l, r)
    BY <2>7 DEF PinResource
  <2> QED
    BY <2>2, <2>3, <2>4, <2>5, <2>6, <2>7
    DEF SessionNext, ReleasePinned, BeginMenu, Acquire, AcquireRejected, Release, UsesManager,
        EnterRefused, sessionVars
<1>3. OwnTypes /\ TypeOK => SessionTypeOK BY DEF SessionTypeOK
<1> QED BY <1>1, <1>2, <1>3, SessionKeepsManagerType, PTL DEF SessionSpec

\* The session implements the manager's specification: whatever its clients,
\* callbacks, failures and shutdowns do, the manager's promises hold.
THEOREM UsesManagerCorrectly == SessionSpec => Spec
<1>1. SessionInit => Init BY DEF SessionInit
<1> QED BY <1>1, SessionStepsManager, SessionKeepsManagerType, PTL DEF SessionSpec, Spec

-----------------------------------------------------------------------------
(* State, token, transition and group.                                     *)

\* What the session goes back to is a state it can be in then.
ReturnOK ==
  /\ state \in States /\ resumeState \in Stable /\ target \in Stable
  /\ saveToken \in BOOLEAN
  /\ state = "Transitioning" => oldState \in Stable
  /\ state = "ShuttingDown" => oldState \in Stable \cup {"Suspended", "Error"}
  /\ passed => state = "ShuttingDown"

\* A save token goes with a save transition, and a world transition belongs to the
\* start or to the transition in progress.
TokenOK ==
  /\ saveToken <=> transition.kind = "SaveLoad"
  /\ transition.kind = "World" => state \in {"Starting", "Transitioning"}
  /\ state = "Transitioning" => transition.kind = "World"
  /\ state \in {"ShuttingDown", "Closed"} => transition = NoTransition
  /\ state = "Starting" => ~saveToken
  /\ state = "Starting" /\ transition # NoTransition => mountPins = MountPinned

\* A transition leads to the group of the state it leads to.
TargetOK ==
  /\ transition.kind = "SaveLoad" => transition.target = activeGroup
  /\ state = "Starting" /\ transition.kind = "World" => transition.target = MenuGroup
  /\ state = "Transitioning" =>
       /\ target = "Menu" => transition.target = MenuGroup
       /\ target = "Level" => transition.target \in LevelGroups

Agreement == ReturnOK /\ TokenOK /\ TargetOK /\ WorldMatchesGroup

\* What clients, callbacks and pins do to the manager leaves group and transition alone.
LEMMA WorldIsLeftAlone ==
  ASSUME \/ \E l \in Leases, r \in Resources : AcquireResident(l, r) \/ AcquireRaw(l, r)
         \/ \E r \in Resources : AcquireFails(r)
         \/ \E l \in Leases : ReleaseLease(l)
         \/ \E r \in Resources, o \in PinOwners : Pin(r, o) \/ Unpin(r, o)
         \/ \E g \in Groups : PurgeGroup(g)
         \/ PurgeZeroReference
  PROVE  UNCHANGED <<activeGroup, transition>>
BY DEF AcquireResident, AcquireRaw, AcquireFails, ReleaseLease, Pin, Unpin, PurgeGroup,
       PurgeZeroReference, worldVars

\* A transition that has begun is of the kind and has the target it was begun with.
LEMMA BegunTransition ==
  ASSUME NEW g, NEW kind, BeginTransition(g, kind)
  PROVE  /\ transition = NoTransition
         /\ transition' = [target |-> g, kind |-> kind] /\ activeGroup' = activeGroup
         /\ kind = "SaveLoad" => g = activeGroup
BY DEF BeginTransition, MayBegin

LEMMA RefusedTransition ==
  ASSUME NEW kind, BeginTransitionRefused(kind)
  PROVE  transition = NoTransition /\ UNCHANGED <<activeGroup, transition>>
BY DEF BeginTransitionRefused, MayBegin

\* How a transition ends.
LEMMA EndedTransition ==
  /\ CommitTransition => transition' = NoTransition /\ activeGroup' = transition.target
  /\ CancelTransition => transition' = NoTransition /\ activeGroup' = activeGroup
BY DEF CommitTransition, CancelTransition

\* No transition, a world transition or a save transition.
LEMMA TransitionKindsDiffer ==
  ASSUME TypeOK
  PROVE  /\ NoTransition.kind = "none"
         /\ transition = NoTransition <=> transition.kind = "none"
         /\ transition.kind \in {"none", "World", "SaveLoad"}
BY DEF TypeOK, WorldTypeOK, NoTransition, TransitionKinds

LEMMA InitAgreement == SessionInit => Agreement
<1>1. NoTransition.kind = "none" BY DEF NoTransition
<1> QED BY <1>1
        DEF SessionInit, Init, Agreement, ReturnOK, TokenOK, TargetOK, WorldMatchesGroup, World,
            Settled, States, Stable

\* The steps of clients and callbacks, which touch no variable of the session.
LEMMA ClientsAgree ==
  ASSUME Agreement, UNCHANGED <<activeGroup, transition>>, UNCHANGED sessionVars
  PROVE  Agreement'
BY DEF Agreement, ReturnOK, TokenOK, TargetOK, WorldMatchesGroup, World, Settled, sessionVars

\* Every step keeps state, token, transition and group in agreement.
LEMMA StepAgreement == TypeOK /\ Agreement /\ [SessionNext]_<<vars, sessionVars>> => Agreement'
<1> SUFFICES ASSUME TypeOK, Agreement, [SessionNext]_<<vars, sessionVars>>
             PROVE  Agreement'
  OBVIOUS
<1> USE GroupAssumption, TransitionKindsDiffer DEF Stable, MoveTo
<1>1. ASSUME NEW l \in Leases, NEW r \in Resources, PinResource(l, r)
      PROVE  Agreement'
  <2>1. UNCHANGED <<activeGroup, transition>> BY <1>1, WorldIsLeftAlone DEF PinResource
  <2> QED BY <1>1, <2>1
          DEF PinResource, Agreement, ReturnOK, TokenOK, TargetOK, WorldMatchesGroup, World, Settled
<1>2. CASE \/ \E l \in Leases : ReleasePinned(l) \/ Release(l)
           \/ \E l \in Leases, r \in Resources : Acquire(l, r)
           \/ \E r \in Resources : AcquireRejected(r)
  BY <1>2, WorldIsLeftAlone, ClientsAgree DEF ReleasePinned, Acquire, AcquireRejected, Release
<1>3. CASE UsesManager
  BY <1>3, WorldIsLeftAlone, ClientsAgree DEF UsesManager
<1>4. CASE BeginMenu
  BY <1>4, BegunTransition
  DEF BeginMenu, sessionVars, Agreement, ReturnOK, TokenOK, TargetOK, WorldMatchesGroup, World,
      Settled
<1>5. CASE CommitMenu
  BY <1>5, EndedTransition
  DEF CommitMenu, CommitTransition, Agreement, ReturnOK, TokenOK, TargetOK, WorldMatchesGroup,
      World, Settled, States
<1>6. CASE StartFails
  <2>1. UNCHANGED <<activeGroup, transition>>
    BY <1>6, WorldIsLeftAlone, RefusedTransition, CatalogAssumption DEF StartFails
  <2>2. transition.kind # "World"
    BY <1>6, RefusedTransition DEF StartFails, Agreement, TokenOK
  <2> QED BY <1>6, <2>1, <2>2
          DEF StartFails, Agreement, ReturnOK, TokenOK, TargetOK, WorldMatchesGroup, World, Settled,
              States
<1>7. ASSUME NEW g \in Groups, NEW s \in Stable, Enter(g, s)
      PROVE  Agreement'
  BY <1>7, BegunTransition
  DEF Enter, Agreement, ReturnOK, TokenOK, TargetOK, WorldMatchesGroup, World, Settled, States
<1>8. CASE EnterRefused
  BY <1>8, RefusedTransition, ClientsAgree DEF EnterRefused
<1>9. CASE PrepareSucceeds
  BY <1>9, EndedTransition
  DEF PrepareSucceeds, Agreement, ReturnOK, TokenOK, TargetOK, WorldMatchesGroup, World, Settled,
      States
<1>10. CASE PrepareFails
  BY <1>10, EndedTransition
  DEF PrepareFails, Agreement, ReturnOK, TokenOK, TargetOK, WorldMatchesGroup, World, Settled,
      States
<1>11. CASE TransitionThrows
  BY <1>11, EndedTransition
  DEF TransitionThrows, vars, worldVars, Agreement, ReturnOK, TokenOK, TargetOK,
      WorldMatchesGroup, World, Settled, States
<1>12. CASE BeginSaveLoad
  BY <1>12, BegunTransition
  DEF BeginSaveLoad, Agreement, ReturnOK, TokenOK, TargetOK, WorldMatchesGroup, World, Settled
<1>13. CASE FinishSaveLoad
  BY <1>13, EndedTransition
  DEF FinishSaveLoad, Agreement, ReturnOK, TokenOK, TargetOK, WorldMatchesGroup, World, Settled
<1>14. CASE Suspend
  BY <1>14
  DEF Suspend, vars, worldVars, Agreement, ReturnOK, TokenOK, TargetOK, WorldMatchesGroup, World,
      Settled, States
<1>15. CASE Resume
  BY <1>15
  DEF Resume, vars, worldVars, Agreement, ReturnOK, TokenOK, TargetOK, WorldMatchesGroup, World,
      Settled, States
<1>16. CASE BeginShutdown
  BY <1>16, EndedTransition
  DEF BeginShutdown, vars, worldVars, Agreement, ReturnOK, TokenOK, TargetOK, WorldMatchesGroup,
      World, Settled, States
<1>17. CASE ShutdownRefused
  BY <1>17
  DEF ShutdownRefused, vars, worldVars, Agreement, ReturnOK, TokenOK, TargetOK,
      WorldMatchesGroup, World, Settled, States
<1>18. CASE ShutdownPasses
  BY <1>18
  DEF ShutdownPasses, vars, worldVars, Agreement, ReturnOK, TokenOK, TargetOK,
      WorldMatchesGroup, World, Settled
<1>19. ASSUME NEW r \in Resources, ShutdownUnpins(r)
       PROVE  Agreement'
  <2>1. UNCHANGED <<activeGroup, transition>>
    BY <1>19, WorldIsLeftAlone, ActorAssumption DEF ShutdownUnpins
  <2> QED BY <1>19, <2>1
          DEF ShutdownUnpins, Agreement, ReturnOK, TokenOK, TargetOK, WorldMatchesGroup, World,
              Settled
<1>20. CASE ShutdownPurges
  <2>1. UNCHANGED <<activeGroup, transition>> BY <1>20, WorldIsLeftAlone DEF ShutdownPurges
  <2> QED BY <1>20, <2>1
          DEF ShutdownPurges, Agreement, ReturnOK, TokenOK, TargetOK, WorldMatchesGroup, World,
              Settled, States
<1>21. CASE UNCHANGED <<vars, sessionVars>>
  BY <1>21, ClientsAgree DEF vars, worldVars
<1> QED BY <1>1, <1>2, <1>3, <1>4, <1>5, <1>6, <1>7, <1>8, <1>9, <1>10, <1>11, <1>12, <1>13,
           <1>14, <1>15, <1>16, <1>17, <1>18, <1>19, <1>20, <1>21 DEF SessionNext

LEMMA AlwaysAgreement == SessionSpec => []Agreement
BY SessionKeepsManagerType, InitAgreement, StepAgreement, PTL DEF SessionSpec

\* The session's state and the manager's group agree, whatever failed.
THEOREM WorldAlwaysMatches == SessionSpec => []WorldMatchesGroup
<1>1. Agreement => WorldMatchesGroup BY DEF Agreement
<1> QED BY <1>1, AlwaysAgreement, PTL

\* The session holds its token exactly while the manager's transition is open.
THEOREM TokenAlwaysMatches == SessionSpec => []TokenMatchesTransition
<1>1. Agreement => TokenMatchesTransition BY DEF Agreement, TokenOK, TokenMatchesTransition
<1> QED BY <1>1, AlwaysAgreement, PTL

-----------------------------------------------------------------------------
(* A closed session.                                                       *)

\* A manager without a lease has given none to anybody.
LEMMA NoLeases ==
  ASSUME LeasesAccounted, leases = 0
  PROVE  \A l \in Leases : leaseOf[l] = NoResource
<1> SUFFICES ASSUME NEW l \in Leases, leaseOf[l] # NoResource PROVE FALSE
  OBVIOUS
<1>1. Cardinality(Outstanding) = 0 BY DEF LeasesAccounted, Outstanding
<1>2. Outstanding = {} BY <1>1, OutstandingFinite, FS_EmptySet
<1> QED BY <1>2 DEF Outstanding

\* The manager of a closed session is empty.
Emptied ==
  state = "Closed" =>
    leases = 0 /\ (\A r \in Resources : records[r] = 0) /\ transition = NoTransition

\* The session closes at the baseline only, and nothing happens to it afterwards.
LEMMA StepEmptied ==
  TypeOK /\ Agreement /\ Agreement' /\ Emptied /\ [SessionNext]_<<vars, sessionVars>> => Emptied'
<1> SUFFICES ASSUME TypeOK, Agreement, Agreement', Emptied,
                    [SessionNext]_<<vars, sessionVars>>, state' = "Closed"
             PROVE  Emptied'
  BY DEF Emptied
<1>1. CASE ShutdownPurges /\ state # "Closed"
  <2>1. AtBaseline
    BY <1>1 DEF ShutdownPurges, Agreement, ReturnOK, Stable
  <2>2. transition' = NoTransition BY DEF Agreement, TokenOK
  <2> QED BY <2>1, <2>2 DEF Emptied, AtBaseline
<1>2. CASE state = "Closed"
  <2>1. ~saveToken /\ ~passed
    BY <1>2, TransitionKindsDiffer DEF Agreement, TokenOK, ReturnOK
  <2>2. UNCHANGED <<leases, records, transition>>
    BY <1>2, <2>1
    DEF SessionNext, PinResource, ReleasePinned, BeginMenu, CommitMenu, StartFails, Acquire,
        Accepting, AcquireRejected, Release, UsesManager, HasManager, Enter, EnterRefused,
        PrepareSucceeds, PrepareFails, TransitionThrows, BeginSaveLoad, FinishSaveLoad, Suspend,
        Resume, BeginShutdown, ShutdownRefused, ShutdownPasses, ShutdownUnpins, ShutdownPurges,
        Stable, vars, leaseVars, worldVars
  <2> QED BY <1>2, <2>2 DEF Emptied
<1>3. CASE state # "Closed" /\ ~ShutdownPurges
  BY <1>3
  DEF SessionNext, PinResource, ReleasePinned, BeginMenu, CommitMenu, StartFails, Acquire,
      AcquireRejected, Release, UsesManager, Enter, EnterRefused, PrepareSucceeds, PrepareFails,
      TransitionThrows, BeginSaveLoad, FinishSaveLoad, Suspend, Resume, BeginShutdown,
      ShutdownRefused, ShutdownPasses, ShutdownUnpins, MoveTo, sessionVars, Stable,
      Agreement, ReturnOK
<1> QED BY <1>1, <1>2, <1>3

\* A session that reports itself closed left no lease, no record and no transition.
THEOREM ClosedIsEmpty == SessionSpec => []ClosedHoldsNothing
<1>1. SessionInit => Emptied BY DEF SessionInit, Emptied
<1>2. SessionSpec => []Emptied
  BY <1>1, SessionKeepsManagerType, AlwaysAgreement, StepEmptied, PTL DEF SessionSpec
<1>3. SessionSpec => []LeasesAccounted BY UsesManagerCorrectly, LeasesAlwaysAccounted, PTL
<1>4. LeasesAccounted /\ Emptied => ClosedHoldsNothing BY NoLeases DEF Emptied, ClosedHoldsNothing
<1> QED BY <1>2, <1>3, <1>4, PTL

-----------------------------------------------------------------------------
(* Mount pins.                                                             *)

\* A mount pin that no eviction, purge or rollback can take: its entry belongs to
\* no transition, so also a rollback leaves it.
Pinned(r) == r \in entries /\ "Mount" \in pins[r] /\ r \notin staged

PinsOK == mountPins \subseteq Resources /\ \A r \in mountPins : Pinned(r)

\* What is evicted to make room, by a purge, a group sweep or a rollback.
LEMMA PinnedIsNoVictim ==
  ASSUME NEW r, Pinned(r)
  PROVE  /\ \A q : r \notin Victims(q)
         /\ \A g : r \notin GroupVictims(g)
         /\ \A kind : r \notin OutgoingVictims(kind)
         /\ r \notin PurgeVictims /\ r \notin CancelVictims
BY DEF Pinned, Victims, Evictable, GroupVictims, OutgoingVictims, PurgeVictims, CancelVictims,
       Sweep, Idle

\* An eviction of others leaves the pin.
LEMMA EvictKeepsPin ==
  ASSUME NEW r \in Resources, Pinned(r), NEW V, r \notin V, Evict(V), staged' \subseteq staged
  PROVE  Pinned(r)'
BY DEF Pinned, Evict, Unpinned

\* So does the publication of another entry.
LEMMA PublishKeepsPin ==
  ASSUME TypeOK, NEW r \in Resources, Pinned(r), NEW V, r \notin V,
         NEW q \in Resources, q \notin entries, NEW b, Publish(V, q, b)
  PROVE  Pinned(r)'
BY DEF Pinned, Publish, Unpinned, TypeOK, CacheTypeOK

\* No step of the manager takes a mount pin but the unpin of that very entry.
LEMMA ManagerKeepsPin ==
  ASSUME TypeOK, NEW r \in Resources, Pinned(r), [Next]_vars, ~Unpin(r, "Mount")
  PROVE  Pinned(r)'
<1>0. ASSUME UNCHANGED <<entries, pins, staged>>
      PROVE  Pinned(r)'
  BY <1>0 DEF Pinned
<1>1. ASSUME NEW l \in Leases, NEW q \in Resources, AcquireRaw(l, q)
      PROVE  Pinned(r)'
  BY <1>1, PinnedIsNoVictim, PublishKeepsPin DEF AcquireRaw
<1>2. ASSUME NEW q \in Resources, AcquireFails(q)
      PROVE  Pinned(r)'
  BY <1>2, PinnedIsNoVictim, EvictKeepsPin DEF AcquireFails, EvictAndRelease
<1>3. ASSUME NEW t \in Threads, NEW q \in Resources, NEW b \in BOOLEAN, BeginLoad(t, q, b)
      PROVE  Pinned(r)'
  BY <1>3, PinnedIsNoVictim, EvictKeepsPin DEF BeginLoad
<1>4. ASSUME NEW t \in Threads, NEW l \in Leases, EndLoad(t, l)
      PROVE  Pinned(r)'
  <2>1. Head(stack[t]).id \in Resources BY <1>4, LoadingFrame DEF EndLoad
  <2>2. Head(stack[t]).id \notin entries BY <1>4 DEF EndLoad
  <2>3. Publish({}, Head(stack[t]).id, Head(stack[t]).replacement) BY <1>4 DEF EndLoad
  <2> QED BY <2>1, <2>2, <2>3, PublishKeepsPin
<1>5. ASSUME NEW q \in Resources, NEW o \in PinOwners, Pin(q, o)
      PROVE  Pinned(r)'
  BY <1>5 DEF Pin, Pinned, TypeOK, CacheTypeOK
<1>6. ASSUME NEW q \in Resources, NEW o \in PinOwners, Unpin(q, o)
      PROVE  Pinned(r)'
  <2>1. q # r \/ o # "Mount" BY <1>6
  <2> QED BY <1>6, <2>1 DEF Unpin, Pinned, TypeOK, CacheTypeOK
<1>7. ASSUME NEW g \in Groups, PurgeGroup(g)
      PROVE  Pinned(r)'
  BY <1>7, PinnedIsNoVictim, EvictKeepsPin DEF PurgeGroup, EvictAndRelease
<1>8. CASE PurgeZeroReference
  BY <1>8, PinnedIsNoVictim, EvictKeepsPin DEF PurgeZeroReference, EvictAndRelease
<1>9. ASSUME NEW g, NEW kind, BeginTransition(g, kind) \/ BeginTransitionRefused(kind)
      PROVE  Pinned(r)'
  BY <1>9, PinnedIsNoVictim, EvictKeepsPin
  DEF BeginTransition, BeginTransitionRefused, EvictAndRelease
<1>10. CASE CommitTransition
  BY <1>10 DEF CommitTransition, cacheVars, Pinned
<1>11. CASE CancelTransition
  BY <1>11, PinnedIsNoVictim, EvictKeepsPin DEF CancelTransition
<1>12. ASSUME NEW l \in Leases, NEW q \in Resources, AcquireResident(l, q) \/ ReleaseLease(l)
       PROVE  Pinned(r)'
  BY <1>0, <1>12 DEF AcquireResident, ReleaseLease
<1>13. ASSUME NEW t \in Threads, EndLoadFails(t) \/ BeginStream(t) \/ EndStream(t)
       PROVE  Pinned(r)'
  BY <1>0, <1>13 DEF EndLoadFails, BeginStream, EndStream, cacheVars
<1>14. CASE AcquireDerivedThrows \/ UNCHANGED vars
  BY <1>0, <1>14 DEF AcquireDerivedThrows, vars, cacheVars
<1> QED BY <1>1, <1>2, <1>3, <1>4, <1>5, <1>6, <1>7, <1>8, <1>9, <1>10, <1>11, <1>12, <1>13,
           <1>14 DEF Next

\* The entry that initialize has just acquired for a mount pin is pinned, and not
\* staged: no transition is open before the last of them.
LEMMA PinningPins ==
  ASSUME TypeOK, Agreement, NEW l \in Leases, NEW r \in Resources, PinResource(l, r)
  PROVE  Pinned(r)'
<1>1. transition = NoTransition
  BY DEF PinResource, Agreement, TokenOK
<1>2. staged' = staged \ Victims(r) /\ r \notin staged
  BY <1>1 DEF PinResource, AcquireRaw, Publish, InTarget, TypeOK
<1> QED BY <1>2 DEF PinResource, AcquireRaw, Publish, Pinned, Unpinned, TypeOK, CacheTypeOK

\* The session unpins for "Mount" in its shutdown only.
LEMMA NothingElseUnpins ==
  ASSUME TypeOK, NEW r \in mountPins, Pinned(r), r \in Resources,
         [SessionNext]_<<vars, sessionVars>>, \A q \in Resources : ~ShutdownUnpins(q)
  PROVE  ~Unpin(r, "Mount")
<1> SUFFICES ASSUME Unpin(r, "Mount") PROVE FALSE
  OBVIOUS
<1>1. /\ "Mount" \in pins[r] /\ "Mount" \notin pins'[r]
      /\ UNCHANGED <<leaseOf, activeGroup, blockedGroup, transition>>
  BY DEF Unpin, TypeOK, CacheTypeOK, leaseVars, worldVars
<1>2. ASSUME NEW V, r \notin V, Evict(V) PROVE FALSE
  BY <1>1, <1>2 DEF Evict, Unpinned
<1>3. ASSUME NEW l \in Leases, NEW q \in Resources, AcquireResident(l, q) \/ AcquireRaw(l, q)
      PROVE  FALSE
  <2>1. Lend(l, q) BY <1>3 DEF AcquireResident, AcquireRaw
  <2>2. leaseOf[l] = NoResource /\ leaseOf'[l] = q BY <2>1 DEF Lend, TypeOK, LeaseTypeOK
  <2> QED BY <1>1, <2>2, CatalogAssumption
<1>4. ASSUME NEW l \in Leases, ReleaseLease(l)
      PROVE  FALSE
  BY <1>1, <1>4 DEF ReleaseLease, TypeOK, LeaseTypeOK
<1>5. ASSUME NEW q, AcquireFails(q)
      PROVE  FALSE
  BY <1>2, <1>5, PinnedIsNoVictim DEF AcquireFails, EvictAndRelease
<1>6. ASSUME NEW q \in Resources, NEW o \in PinOwners \ {"Mount"}, Pin(q, o) \/ Unpin(q, o)
      PROVE  FALSE
  BY <1>1, <1>6 DEF Pin, Unpin, TypeOK, CacheTypeOK
<1>7. ASSUME NEW g, PurgeGroup(g) \/ PurgeZeroReference
      PROVE  FALSE
  BY <1>2, <1>7, PinnedIsNoVictim DEF PurgeGroup, PurgeZeroReference, EvictAndRelease
<1>8. ASSUME NEW g, NEW kind, BeginTransition(g, kind) \/ BeginTransitionRefused(kind)
      PROVE  FALSE
  BY <1>2, <1>8, PinnedIsNoVictim DEF BeginTransition, BeginTransitionRefused, EvictAndRelease
<1>9. CASE CommitTransition \/ CancelTransition
  BY <1>1, <1>9 DEF CommitTransition, CancelTransition
<1>10. CASE UNCHANGED vars
  BY <1>1, <1>10 DEF vars, cacheVars
<1>11. CASE \E l \in Leases, q \in Resources : PinResource(l, q) \/ Acquire(l, q)
  BY <1>3, <1>11 DEF PinResource, Acquire
<1>12. CASE \E l \in Leases : ReleasePinned(l) \/ Release(l)
  BY <1>4, <1>12 DEF ReleasePinned, Release
<1>13. CASE StartFails \/ EnterRefused \/ \E q \in Resources : AcquireRejected(q)
  BY <1>5, <1>8, <1>13 DEF StartFails, EnterRefused, AcquireRejected
<1>14. CASE UsesManager
  BY <1>6, <1>7, <1>14 DEF UsesManager
<1>15. CASE BeginMenu \/ BeginSaveLoad \/ \E g \in Groups, s \in Stable : Enter(g, s)
  BY <1>8, <1>15 DEF BeginMenu, BeginSaveLoad, Enter
<1>16. CASE \/ CommitMenu \/ PrepareSucceeds \/ PrepareFails \/ TransitionThrows
            \/ FinishSaveLoad \/ BeginShutdown
  BY <1>9, <1>10, <1>16
  DEF CommitMenu, PrepareSucceeds, PrepareFails, TransitionThrows, FinishSaveLoad, BeginShutdown
<1>17. CASE Suspend \/ Resume \/ ShutdownRefused \/ ShutdownPasses
  BY <1>10, <1>17 DEF Suspend, Resume, ShutdownRefused, ShutdownPasses, vars
<1>18. CASE ShutdownPurges
  BY <1>7, <1>18 DEF ShutdownPurges
<1> QED BY <1>10, <1>11, <1>12, <1>13, <1>14, <1>15, <1>16, <1>17, <1>18 DEF SessionNext

\* Every step of the session keeps the pins it has to give back.
LEMMA StepPins ==
  TypeOK /\ Agreement /\ PinsOK /\ [SessionNext]_<<vars, sessionVars>> => PinsOK'
<1> SUFFICES ASSUME TypeOK, Agreement, PinsOK, [SessionNext]_<<vars, sessionVars>>
             PROVE  PinsOK'
  OBVIOUS
<1>1. [Next]_vars BY SessionStepsManager
<1>2. ASSUME NEW l \in Leases, NEW r \in Resources, PinResource(l, r)
      PROVE  PinsOK'
  <2>1. Pinned(r)' BY <1>2, PinningPins
  <2>2. ASSUME NEW q \in mountPins PROVE Pinned(q)'
    <3>1. ~Unpin(q, "Mount")
      BY <1>2 DEF PinResource, AcquireRaw, Unpin, Lend, leaseVars, TypeOK, LeaseTypeOK
    <3> QED BY <1>1, <3>1, ManagerKeepsPin DEF PinsOK
  <2> QED BY <1>2, <2>1, <2>2 DEF PinsOK, PinResource
<1>3. ASSUME NEW r \in Resources, ShutdownUnpins(r)
      PROVE  PinsOK'
  <2>1. ASSUME NEW q \in mountPins, q # r PROVE Pinned(q)'
    BY <1>3, <2>1 DEF ShutdownUnpins, Unpin, PinsOK, Pinned, TypeOK, CacheTypeOK
  <2> QED BY <1>3, <2>1 DEF PinsOK, ShutdownUnpins
<1>4. CASE /\ \A l \in Leases, r \in Resources : ~PinResource(l, r)
           /\ \A r \in Resources : ~ShutdownUnpins(r)
  <2>1. UNCHANGED mountPins
    BY <1>4
    DEF SessionNext, ReleasePinned, BeginMenu, CommitMenu, StartFails, Acquire, AcquireRejected,
        Release, UsesManager, Enter, EnterRefused, PrepareSucceeds, PrepareFails,
        TransitionThrows, BeginSaveLoad, FinishSaveLoad, Suspend, Resume, BeginShutdown,
        ShutdownRefused, ShutdownPasses, ShutdownPurges, MoveTo, sessionVars
  <2>2. ASSUME NEW q \in mountPins PROVE Pinned(q)'
    BY <1>1, <1>4, NothingElseUnpins, ManagerKeepsPin DEF PinsOK
  <2> QED BY <2>1, <2>2 DEF PinsOK
<1> QED BY <1>2, <1>3, <1>4

\* What the session has to unpin is resident and pinned: no unpin of its shutdown can
\* fail, whatever happened to the cache since the start.
THEOREM MountPinsAreReal == SessionSpec => []MountPinsReal
<1>1. SessionInit => PinsOK BY DEF SessionInit, PinsOK
<1>2. PinsOK => MountPinsReal BY DEF PinsOK, Pinned, MountPinsReal
<1> QED BY <1>1, <1>2, SessionKeepsManagerType, AlwaysAgreement, StepPins, PTL DEF SessionSpec
=============================================================================
