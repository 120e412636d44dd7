---------------------------- MODULE RuntimeSession ----------------------------
(***************************************************************************)
(* The session that owns the mounted bundle and its resource manager       *)
(* (src/common/runtime_session.cpp): mount pins, menu and level            *)
(* transitions with their prepare callback, the save/load transaction,     *)
(* suspend and resume, and the shutdown that must end at the baseline.     *)
(* Its operations are calls of the manager, modelled by ResourceManager.   *)
(*                                                                         *)
(* One thread calls the session.  It is not locked while it runs a prepare *)
(* callback (state "Transitioning") or waits for its clients to quiesce    *)
(* (state "ShuttingDown"), so clients acquire and release meanwhile.       *)
(***************************************************************************)
EXTENDS ResourceManager

CONSTANTS MenuGroup,    \* the group of the menu
          LevelGroups   \* the groups levels are given by their identity

ASSUME GroupAssumption ==
  /\ MenuGroup \in Groups
  /\ LevelGroups \subseteq Groups \ {MenuGroup}

States == {"Starting", "Menu", "Transitioning", "Level", "Suspended",
           "ShuttingDown", "Error", "Closed"}
Stable == {"Menu", "Level"}

VARIABLES
  state,
  oldState,     \* what a transition or a shutdown goes back to when it fails
  resumeState,  \* what a resume goes back to
  target,       \* what the transition in progress leads to
  saveToken,    \* the session holds the token of a save or a load
  mountPins,    \* the mount pins it has to give back
  passed        \* the shutdown has quiesced its clients and seen no lease

sessionVars == <<state, oldState, resumeState, target, saveToken, mountPins, passed>>

SessionInit ==
  /\ Init
  /\ state = "Starting" /\ oldState = "Starting"
  /\ resumeState = "Menu" /\ target = "Menu"
  /\ saveToken = FALSE /\ mountPins = {} /\ passed = FALSE

MoveTo(s) ==
  /\ state' = s
  /\ UNCHANGED <<oldState, resumeState, target, saveToken, mountPins, passed>>

-----------------------------------------------------------------------------
(* initialize: every mount-pinned resource is acquired and released, then  *)
(* the menu group is entered.  Nobody else has the session yet.            *)

PinResource(l, r) ==
  /\ state = "Starting" /\ leases = 0
  /\ r \in MountPinned \ mountPins
  /\ AcquireRaw(l, r)
  /\ mountPins' = mountPins \cup {r}
  /\ UNCHANGED <<state, oldState, resumeState, target, saveToken, passed>>

ReleasePinned(l) ==
  /\ state = "Starting"
  /\ ReleaseLease(l)
  /\ UNCHANGED sessionVars

BeginMenu ==
  /\ state = "Starting" /\ leases = 0 /\ mountPins = MountPinned
  /\ BeginTransition(MenuGroup, "World")
  /\ UNCHANGED sessionVars

CommitMenu ==
  /\ state = "Starting"
  /\ CommitTransition
  /\ MoveTo("Menu")

StartFails ==
  /\ state = "Starting" /\ leases = 0
  /\ \/ \E r \in MountPinned \ mountPins : AcquireFails(r)
     \/ mountPins = MountPinned /\ BeginTransitionRefused("World")
  /\ MoveTo("Error")

-----------------------------------------------------------------------------
(* Clients.                                                                *)

Accepting == state \in Stable \cup {"Transitioning"}

Acquire(l, r) ==
  /\ Accepting
  /\ AcquireResident(l, r) \/ AcquireRaw(l, r)
  /\ UNCHANGED sessionVars

AcquireRejected(r) ==
  /\ Accepting
  /\ AcquireFails(r)
  /\ UNCHANGED sessionVars

Release(l) ==
  /\ state \notin {"Starting", "Closed"}
  /\ ReleaseLease(l)
  /\ UNCHANGED sessionVars

\* A prepare callback and the operation of save_or_load get the manager itself;
\* they pin for an owner of their own, by default the session.
HasManager == state = "Transitioning" \/ (state \in Stable /\ saveToken)

UsesManager ==
  /\ HasManager
  /\ \/ \E r \in Resources, o \in PinOwners \ {"Mount"} : Pin(r, o) \/ Unpin(r, o)
     \/ \E g \in Groups : PurgeGroup(g)
     \/ PurgeZeroReference
  /\ UNCHANGED sessionVars

-----------------------------------------------------------------------------
(* Transitions.                                                            *)

\* enter_menu and enter_level up to the prepare callback.
Enter(g, s) ==
  /\ state \in Stable
  /\ g \in IF s = "Menu" THEN {MenuGroup} ELSE LevelGroups
  /\ BeginTransition(g, "World")
  /\ state' = "Transitioning" /\ oldState' = state /\ target' = s
  /\ UNCHANGED <<resumeState, saveToken, mountPins, passed>>

\* The manager refuses after it evicted the old group; the state is put back.
EnterRefused ==
  /\ state \in Stable
  /\ BeginTransitionRefused("World")
  /\ UNCHANGED sessionVars

PrepareSucceeds ==
  /\ state = "Transitioning"
  /\ CommitTransition
  /\ MoveTo(target)

\* MUTANT: a failed prepare does not put the old state back.
PrepareFails_StateAdvanced ==
  /\ state = "Transitioning"
  /\ CancelTransition
  /\ MoveTo(target)

PrepareFails ==
  /\ state = "Transitioning"
  /\ CancelTransition
  /\ MoveTo(oldState)

\* The trace cannot grow: before the transition, after its end, or after its
\* rollback, which also the token's destructor runs.
TransitionThrows ==
  /\ AllocatorFails
  /\ \/ (state \in Stable /\ UNCHANGED vars)
     \/ state = "Transitioning" /\ (CommitTransition \/ CancelTransition)
  /\ MoveTo("Error")

-----------------------------------------------------------------------------
(* Saves and loads.                                                        *)

BeginSaveLoad ==
  /\ state \in Stable /\ ~saveToken
  /\ BeginTransition(activeGroup, "SaveLoad")
  /\ saveToken' = TRUE
  /\ UNCHANGED <<state, oldState, resumeState, target, mountPins, passed>>

\* MUTANT: the token is kept after its transition ended.
FinishSaveLoad_KeepsToken ==
  /\ saveToken
  /\ CommitTransition \/ CancelTransition
  /\ UNCHANGED sessionVars

\* Whatever the state is by then: also suspended.
FinishSaveLoad ==
  /\ saveToken
  /\ CommitTransition \/ CancelTransition
  /\ saveToken' = FALSE
  /\ UNCHANGED <<state, oldState, resumeState, target, mountPins, passed>>

-----------------------------------------------------------------------------
(* Suspending and shutting down.                                           *)

Suspend ==
  /\ state \in Stable
  /\ state' = "Suspended" /\ resumeState' = state
  /\ UNCHANGED <<vars, oldState, target, saveToken, mountPins, passed>>

Resume ==
  /\ state = "Suspended"
  /\ MoveTo(resumeState)
  /\ UNCHANGED vars

\* The save or load in progress is rolled back, then the clients are quiesced.
BeginShutdown ==
  /\ state \in Stable \cup {"Suspended", "Error"}
  /\ IF saveToken THEN CancelTransition ELSE UNCHANGED vars
  /\ state' = "ShuttingDown" /\ oldState' = state /\ saveToken' = FALSE
  /\ UNCHANGED <<resumeState, target, mountPins, passed>>

\* A client does not quiesce, or leases are outstanding.
ShutdownRefused ==
  /\ state = "ShuttingDown" /\ ~passed
  /\ MoveTo(oldState)
  /\ UNCHANGED vars

\* Nothing else runs from here to the end of the shutdown.
ShutdownPasses ==
  /\ state = "ShuttingDown" /\ ~passed
  /\ leases = 0
  /\ passed' = TRUE
  /\ UNCHANGED <<vars, state, oldState, resumeState, target, saveToken, mountPins>>

ShutdownUnpins(r) ==
  /\ passed /\ r \in mountPins
  /\ Unpin(r, "Mount")
  /\ mountPins' = mountPins \ {r}
  /\ UNCHANGED <<state, oldState, resumeState, target, saveToken, passed>>

\* MUTANT: the baseline is compared in the number of leases only.
AtBaseline_OnlyLeases == leases' = 0

\* ledger_at_baseline, of the manager as it is after the step.
AtBaseline == entries' = {} /\ leases' = 0 /\ \A r \in Resources : records'[r] = 0

ShutdownPurges ==
  /\ passed /\ mountPins = {}
  /\ PurgeZeroReference
  /\ state' = IF AtBaseline THEN "Closed" ELSE oldState
  /\ passed' = FALSE
  /\ UNCHANGED <<oldState, resumeState, target, saveToken, mountPins>>

SessionNext ==
  \/ \E l \in Leases, r \in Resources : PinResource(l, r)
  \/ \E l \in Leases : ReleasePinned(l)
  \/ BeginMenu \/ CommitMenu \/ StartFails
  \/ \E l \in Leases, r \in Resources : Acquire(l, r)
  \/ \E r \in Resources : AcquireRejected(r)
  \/ \E l \in Leases : Release(l)
  \/ UsesManager
  \/ \E g \in Groups, s \in Stable : Enter(g, s)
  \/ EnterRefused \/ PrepareSucceeds \/ PrepareFails \/ TransitionThrows
  \/ BeginSaveLoad \/ FinishSaveLoad
  \/ Suspend \/ Resume
  \/ BeginShutdown \/ ShutdownRefused \/ ShutdownPasses
  \/ \E r \in Resources : ShutdownUnpins(r)
  \/ ShutdownPurges

SessionSpec == SessionInit /\ [][SessionNext]_<<vars, sessionVars>>

-----------------------------------------------------------------------------
(* Properties.                                                             *)

\* Every variable has its type.
SessionTypeOK ==
  /\ TypeOK
  /\ state \in States /\ oldState \in States /\ resumeState \in Stable /\ target \in Stable
  /\ saveToken \in BOOLEAN /\ passed \in BOOLEAN
  /\ mountPins \subseteq MountPinned

\* What the session has to unpin is resident and mount-pinned, whatever
\* transitions, purges and rollbacks did meanwhile: no unpin of shutdown fails.
MountPinsReal == \A r \in mountPins : r \in entries /\ "Mount" \in pins[r]

\* The world the session says it is in, was in before the operation in progress,
\* or will resume to.
Settled == IF state \in {"Transitioning", "ShuttingDown"} THEN oldState ELSE state
World == IF Settled = "Suspended" THEN resumeState ELSE Settled

\* The session's state and the manager's group agree after every mixture of failed
\* transitions, saves, suspends and refused shutdowns.
WorldMatchesGroup ==
  /\ World = "Menu" => activeGroup = MenuGroup
  /\ World = "Level" => activeGroup \in LevelGroups

\* The manager's transition is open exactly while the session holds its token: a
\* save or load from its begin to its finish, a world change while the callback
\* runs; none outlives a shutdown.
TokenMatchesTransition ==
  /\ saveToken <=> transition.kind = "SaveLoad"
  /\ transition.kind = "World" => state \in {"Starting", "Transitioning"}
  /\ state = "Transitioning" => transition.kind = "World"

\* "Explicit error or fully closed": a closed session left no lease to a client
\* and no record in the ledger.
ClosedHoldsNothing ==
  state = "Closed" =>
    /\ \A l \in Leases : leaseOf[l] = NoResource
    /\ \A r \in Resources : records[r] = 0
    /\ transition = NoTransition

=============================================================================
