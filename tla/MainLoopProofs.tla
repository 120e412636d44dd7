--------------------------- MODULE MainLoopProofs ---------------------------
(***************************************************************************)
(* What the main loop does between two frames: it applies the decisions of *)
(* the lifecycle controller, and it handles the samples of the input       *)
(* queue.                                                                  *)
(*                                                                         *)
(* A suspended game is quiet and a running one has everything back, for    *)
(* every set of worlds and speeds and any bits in any order.  Between two  *)
(* ticks both follow from what the controller last decided; while a        *)
(* decision is being applied, the invariant says which of devices, session *)
(* and world still belong to the old state and which already to the new.   *)
(*                                                                         *)
(* An input epoch that was cut is never continued, for every set of        *)
(* buttons and any length of queue: a cut leaves a cancellation behind     *)
(* until the tick has found it, and the mapper knows of every control      *)
(* whether it has been up since.                                           *)
(***************************************************************************)
EXTENDS Lifecycle, InputPipeline, TLAPS

-----------------------------------------------------------------------------
(* Lifecycle.                                                              *)

DevicesAlive == audioSuspended = FALSE /\ samplerPaused = FALSE /\ session = "Stable"
DevicesQuiet == audioSuspended = TRUE /\ samplerPaused = TRUE /\ session = "Suspended"

WorldAlive == /\ suspendedWorld = NoWorld
              /\ world # NoWorld => speed = chosenSpeed
WorldQuiet == /\ suspendedWorld = world
              /\ world # NoWorld => speed = "Pause" /\ savedSpeed = chosenSpeed

(* The controller is in critical I/O only while a save is being written,   *)
(* so a signal is never handled inside it and nothing is deferred.         *)
Undeferred ==
    /\ pc \in {"idle", "signals", "periodic", "apply", "save", "saving", "dispatch", "exit"}
    /\ after \in {"idle", "signals"}
    /\ ctl \in {"Running", "Suspended", "ExitPending"}
    /\ decision \in Decisions /\ isResume \in BOOLEAN
    /\ ioDepth = (IF pc = "saving" THEN 1 ELSE 0)
    /\ deferredExit = FALSE /\ deferredSave = FALSE
    /\ pc \in {"apply", "save", "saving", "dispatch"} /\ decision.exit = TRUE =>
          ctl = "ExitPending"
    /\ pc = "exit" => ctl = "ExitPending"
    /\ pc = "periodic" => ctl = "Running"

Applying == {"apply", "save", "saving", "dispatch", "exit"}

(* A running game: a resume has reached nothing, the devices or everything.*)
RunningOK ==
    /\ pc \notin Applying => DevicesAlive /\ WorldAlive
    /\ pc = "apply" =>
          /\ decision.pause = FALSE
          /\ \/ decision.resume = FALSE /\ DevicesAlive /\ WorldAlive
             \/ /\ decision.resume = TRUE /\ decision.autosave = FALSE /\ isResume = TRUE
                /\ DevicesQuiet /\ WorldQuiet
    /\ pc = "save" => decision.pause = FALSE /\ DevicesAlive /\ WorldAlive
    /\ pc = "saving" => /\ decision.pause = FALSE /\ audioSuspended = FALSE /\ WorldAlive
    /\ pc = "dispatch" => /\ decision.pause = FALSE /\ DevicesAlive
                          /\ WorldAlive \/ (isResume = TRUE /\ WorldQuiet)

(* A suspended game: a pause has reached nothing, the devices or all.  No  *)
(* save is begun, since the session is suspended before it is asked for.   *)
SuspendedOK ==
    /\ pc # "saving"
    /\ pc \notin Applying => DevicesQuiet /\ WorldQuiet
    /\ pc = "apply" =>
          /\ decision.resume = FALSE /\ isResume = FALSE
          /\ \/ decision.pause = TRUE /\ DevicesAlive /\ WorldAlive
             \/ decision.pause = FALSE /\ DevicesQuiet /\ WorldQuiet
    /\ pc \in {"save", "dispatch"} =>
          /\ isResume = FALSE /\ DevicesQuiet
          /\ \/ decision.pause = TRUE /\ WorldAlive
             \/ decision.pause = FALSE /\ WorldQuiet

LifecycleInv == /\ Undeferred
                /\ ctl = "Running" => RunningOK
                /\ ctl = "Suspended" => SuspendedOK

LEMMA NothingDecides ==
    /\ Nothing \in Decisions
    /\ Nothing.pause = FALSE /\ Nothing.resume = FALSE
    /\ Nothing.autosave = FALSE /\ Nothing.exit = FALSE
BY DEF Nothing, Decisions

LEMMA InitHolds == Init => LifecycleInv
<1> SUFFICES ASSUME Init
             PROVE  LifecycleInv
  OBVIOUS
<1>1. Undeferred
  BY NothingDecides DEF Init, Undeferred
<1>2. RunningOK
  BY DEF Init, RunningOK, DevicesAlive, WorldAlive, Applying
<1> QED BY <1>1, <1>2 DEF Init, LifecycleInv

LEMMA PropertiesFollow == LifecycleInv => QuietWhenSuspended /\ AliveWhenRunning
BY DEF LifecycleInv, RunningOK, SuspendedOK, QuietWhenSuspended, AliveWhenRunning,
       DevicesAlive, DevicesQuiet, WorldAlive, WorldQuiet, Applying

(* What the controller decides, with no critical I/O around it.            *)
LEMMA SignalDecides ==
    ASSUME NEW s \in Signals, Signal(s), Undeferred, ioDepth = 0
    PROVE  /\ ioDepth' = 0 /\ deferredSave' = FALSE /\ deferredExit' = FALSE
           /\ decision' \in Decisions
           /\ decision'.exit = TRUE => ctl' = "ExitPending"
           /\ ctl' \in {"Running", "Suspended", "ExitPending"}
           /\ ctl' = "Running" =>
                 \/ ctl = "Running" /\ decision' = Nothing
                 \/ /\ ctl = "Suspended" /\ s \in {"Restore", "Wake"}
                    /\ decision'.pause = FALSE /\ decision'.resume = TRUE
                    /\ decision'.autosave = FALSE
           /\ ctl' = "Suspended" =>
                 \/ ctl = "Suspended" /\ decision' = Nothing /\ s \notin {"Restore", "Wake"}
                 \/ /\ ctl = "Running" /\ s \notin {"Restore", "Wake"}
                    /\ decision'.pause = TRUE /\ decision'.resume = FALSE
<1>0. InIo = FALSE
  BY DEF InIo
<1>1. CASE SignalSuspend(s)
  BY <1>0, <1>1 DEF SignalSuspend, Undeferred, Nothing, Decisions
<1>2. CASE SignalResume(s)
  BY <1>0, <1>2 DEF SignalResume, Undeferred, Nothing, Decisions
<1>3. CASE SignalExit(s)
  BY <1>0, <1>3 DEF SignalExit, Undeferred, Nothing, Decisions
<1>4. CASE SignalIgnored(s)
  BY <1>0, <1>4 DEF SignalIgnored, Undeferred, Nothing, Decisions, controllerVars, Signals
<1> QED BY <1>1, <1>2, <1>3, <1>4 DEF Signal

LEMMA StepHolds == LifecycleInv /\ [Next]_vars => LifecycleInv'
<1> SUFFICES ASSUME LifecycleInv, [Next]_vars
             PROVE  LifecycleInv'
  OBVIOUS
<1> USE DEF LifecycleInv
<1>1. ASSUME NEW s \in Signals, AptHook(s)
      PROVE  LifecycleInv'
  BY <1>1 DEF AptHook, controllerVars, threadVars, deviceVars, worldVars, Undeferred,
     RunningOK, SuspendedOK, DevicesAlive, DevicesQuiet, WorldAlive, WorldQuiet, Applying
<1>2. ASSUME NEW s \in Speeds, ChooseSpeed(s)
      PROVE  LifecycleInv'
  BY <1>2 DEF ChooseSpeed, Playing, controllerVars, threadVars, deviceVars, Undeferred,
     RunningOK, SuspendedOK, DevicesAlive, WorldAlive, Applying
<1>3. ASSUME NEW w \in Worlds \cup {NoWorld}, ChangeWorld(w)
      PROVE  LifecycleInv'
  BY <1>3 DEF ChangeWorld, Playing, controllerVars, threadVars, deviceVars, Undeferred,
     RunningOK, SuspendedOK, DevicesAlive, WorldAlive, Applying
<1>4. CASE PlayerSaves
  BY <1>4 DEF PlayerSaves, Playing, controllerVars, deviceVars, worldVars, Undeferred, Nothing,
     Decisions, RunningOK, SuspendedOK, DevicesAlive, WorldAlive, Applying
<1>5. CASE TickBegin
  BY <1>5 DEF TickBegin, controllerVars, deviceVars, worldVars, Undeferred, RunningOK,
     SuspendedOK, DevicesAlive, DevicesQuiet, WorldAlive, WorldQuiet, Applying
<1>6. ASSUME NEW s \in Signals, HandleSignal(s)
      PROVE  LifecycleInv'
  <2>1. /\ pc = "signals" /\ pc' = "apply" /\ after' = "signals" /\ Signal(s)
        /\ isResume' = (s \in {"Restore", "Wake"}) /\ isResume' \in BOOLEAN
        /\ UNCHANGED <<deviceVars, session, worldVars>>
    BY <1>6 DEF HandleSignal
  <2>2. ioDepth = 0 /\ Undeferred
    BY <2>1 DEF Undeferred
  <2>3. /\ s \in {"Restore", "Wake"} => isResume' = TRUE
        /\ s \notin {"Restore", "Wake"} => isResume' = FALSE
    BY <2>1
  <2>4. Undeferred'
    BY <2>1, <2>2, SignalDecides DEF Undeferred
  <2>5. /\ DevicesAlive => DevicesAlive'
        /\ DevicesQuiet => DevicesQuiet'
        /\ WorldAlive => WorldAlive'
        /\ WorldQuiet => WorldQuiet'
    BY <2>1 DEF DevicesAlive, DevicesQuiet, WorldAlive, WorldQuiet, deviceVars, worldVars
  <2>6. /\ ctl = "Running" => DevicesAlive' /\ WorldAlive'
        /\ ctl = "Suspended" => DevicesQuiet' /\ WorldQuiet'
    BY <2>1, <2>5 DEF RunningOK, SuspendedOK, Applying
  <2>7. ctl' = "Running" => RunningOK'
    <3>1. ctl' = "Running" =>
             \/ ctl = "Running" /\ decision' = Nothing
             \/ /\ ctl = "Suspended" /\ isResume' = TRUE
                /\ decision'.pause = FALSE /\ decision'.resume = TRUE
                /\ decision'.autosave = FALSE
      BY <2>1, <2>2, <2>3, SignalDecides
    <3> QED BY <2>1, <2>6, <3>1, NothingDecides DEF RunningOK, Applying
  <2>8. ctl' = "Suspended" => SuspendedOK'
    <3>1. ctl' = "Suspended" =>
             /\ isResume' = FALSE
             /\ \/ ctl = "Suspended" /\ decision' = Nothing
                \/ ctl = "Running" /\ decision'.pause = TRUE /\ decision'.resume = FALSE
      BY <2>1, <2>2, <2>3, SignalDecides
    <3> QED BY <2>1, <2>6, <3>1, NothingDecides DEF SuspendedOK, Applying
  <2> QED BY <2>4, <2>7, <2>8
<1>7. CASE SignalsHandled
  <2>1. /\ pc = "signals" /\ pc' \in {"idle", "periodic"}
        /\ pc' = "periodic" => ctl = "Running"
        /\ UNCHANGED <<controllerVars, after, decision, isResume, deviceVars, session,
                       worldVars>>
    BY <1>7 DEF SignalsHandled
  <2> QED BY <2>1 DEF controllerVars, deviceVars, worldVars, Undeferred, RunningOK,
     SuspendedOK, DevicesAlive, DevicesQuiet, WorldAlive, WorldQuiet, Applying
<1>8. ASSUME NEW due \in BOOLEAN, Periodic(due)
      PROVE  LifecycleInv'
  <2>1. /\ pc = "periodic" /\ pc' = "apply" /\ after' = "idle" /\ isResume' = FALSE
        /\ ctl' = ctl /\ ioDepth' = ioDepth
        /\ UNCHANGED <<deviceVars, session, worldVars>>
    BY <1>8 DEF Periodic, ControllerTick
  <2>2. ctl = "Running" /\ InIo = FALSE
    BY <2>1 DEF Undeferred, InIo
  <2>3. /\ deferredSave' = FALSE /\ deferredExit' = FALSE
        /\ decision' \in Decisions
        /\ decision'.pause = FALSE /\ decision'.resume = FALSE /\ decision'.exit = FALSE
    BY <1>8, <2>2 DEF Periodic, ControllerTick, Undeferred, Nothing, Decisions
  <2> QED BY <2>1, <2>2, <2>3 DEF deviceVars, worldVars, Undeferred, RunningOK, SuspendedOK,
     DevicesAlive, WorldAlive, Applying
<1>9. CASE ApplyDevices
  <2>1. /\ pc = "apply"
        /\ pc' = IF decision.autosave THEN "save" ELSE "dispatch"
        /\ UNCHANGED <<after, decision, isResume, ctl, ioDepth, deferredSave, deferredExit,
                       world, speed, suspendedWorld, savedSpeed, chosenSpeed>>
    BY <1>9 DEF ApplyDevices, Goto, controllerVars, worldVars
  <2>2. /\ decision.pause \in BOOLEAN /\ decision.resume \in BOOLEAN
        /\ decision.autosave \in BOOLEAN
    BY DEF Undeferred, Decisions
  <2>3. decision.pause = FALSE /\ decision.resume = FALSE /\ DevicesAlive => DevicesAlive'
    BY <1>9 DEF ApplyDevices, DevicesAlive
  <2>4. decision.pause = FALSE /\ decision.resume = FALSE /\ DevicesQuiet => DevicesQuiet'
    BY <1>9 DEF ApplyDevices, DevicesQuiet
  <2>5. decision.pause = FALSE /\ decision.resume = TRUE /\ DevicesQuiet => DevicesAlive'
    BY <1>9 DEF ApplyDevices, DevicesQuiet, DevicesAlive
  <2>6. decision.pause = TRUE /\ DevicesAlive => DevicesQuiet'
    BY <1>9 DEF ApplyDevices, DevicesQuiet, DevicesAlive
  <2>7. Undeferred'
    BY <2>1, <2>2 DEF Undeferred
  <2>8. (WorldAlive => WorldAlive') /\ (WorldQuiet => WorldQuiet')
    BY <2>1 DEF WorldAlive, WorldQuiet
  <2>9. ctl' = "Running" => RunningOK'
    BY <2>1, <2>2, <2>3, <2>5, <2>8 DEF RunningOK, Applying
  <2>10. ctl' = "Suspended" => SuspendedOK'
    BY <2>1, <2>2, <2>4, <2>6, <2>8 DEF SuspendedOK, Applying
  <2> QED BY <2>7, <2>9, <2>10
<1>10. CASE SaveBegins
  BY <1>10 DEF SaveBegins, Goto, worldVars, Undeferred, RunningOK, SuspendedOK,
     DevicesAlive, DevicesQuiet, WorldAlive, Applying
<1>11. CASE SaveNotBegun
  BY <1>11 DEF SaveNotBegun, Goto, controllerVars, deviceVars, worldVars, Undeferred,
     RunningOK, SuspendedOK, DevicesAlive, DevicesQuiet, WorldAlive, WorldQuiet, Applying
<1>12. CASE SaveEnds
  <2>1. /\ pc = "saving" /\ pc' = "dispatch" /\ ioDepth' = ioDepth - 1 /\ session' = "Stable"
        /\ UNCHANGED <<after, decision, isResume, ctl, deferredSave, deferredExit,
                       audioSuspended, worldVars>>
    BY <1>12 DEF SaveEnds, Goto
  <2>2. ioDepth = 1
    BY <2>1 DEF Undeferred
  <2>3. ~(ioDepth > 1)
    BY <2>2
  <2>4. samplerPaused' = FALSE
    BY <1>12, <2>3 DEF SaveEnds
  <2> QED BY <2>1, <2>2, <2>4 DEF worldVars, Undeferred, RunningOK, SuspendedOK,
     DevicesAlive, WorldAlive, Applying
<1>13. CASE DispatchWorld
  <2>1. /\ pc = "dispatch"
        /\ pc' = IF decision.exit THEN "exit" ELSE after
        /\ UNCHANGED <<after, decision, isResume, ctl, ioDepth, deferredSave, deferredExit,
                       audioSuspended, samplerPaused, session>>
    BY <1>13 DEF DispatchWorld, Goto, controllerVars, deviceVars
  <2>2. decision.pause \in BOOLEAN /\ decision.exit \in BOOLEAN
    BY DEF Undeferred, Decisions
  <2>3. decision.pause = TRUE /\ WorldAlive => WorldQuiet'
    BY <1>13 DEF DispatchWorld, PauseWorld, WorldAlive, WorldQuiet, worldVars
  <2>4. decision.pause = FALSE /\ isResume = FALSE /\ WorldQuiet => WorldQuiet'
    BY <1>13 DEF DispatchWorld, WorldQuiet, worldVars
  <2>5. decision.pause = FALSE /\ isResume = FALSE /\ WorldAlive => WorldAlive'
    BY <1>13 DEF DispatchWorld, WorldAlive, worldVars
  <2>6. decision.pause = FALSE /\ isResume = TRUE /\ (WorldAlive \/ WorldQuiet) => WorldAlive'
    BY <1>13 DEF DispatchWorld, ResumeWorld, WorldAlive, WorldQuiet
  <2>7. (DevicesAlive => DevicesAlive') /\ (DevicesQuiet => DevicesQuiet')
    BY <2>1 DEF DevicesAlive, DevicesQuiet
  <2>8. Undeferred' /\ pc' \in {"exit", "idle", "signals"} /\ (ctl # "ExitPending" => pc' # "exit")
    BY <2>1, <2>2 DEF Undeferred
  <2>9. ctl' = "Running" => RunningOK'
    BY <2>1, <2>2, <2>5, <2>6, <2>7, <2>8 DEF RunningOK, Undeferred, Applying
  <2>10. ctl' = "Suspended" => SuspendedOK'
    BY <2>1, <2>2, <2>3, <2>4, <2>7, <2>8 DEF SuspendedOK, Applying
  <2> QED BY <2>8, <2>9, <2>10
<1>14. CASE RequestExit
  BY <1>14 DEF RequestExit, Goto, controllerVars, deviceVars, worldVars, Undeferred
<1>15. CASE UNCHANGED vars
  BY <1>15 DEF vars, controllerVars, threadVars, deviceVars, worldVars, Undeferred,
     RunningOK, SuspendedOK, DevicesAlive, DevicesQuiet, WorldAlive, WorldQuiet, Applying
<1> QED
  BY <1>1, <1>2, <1>3, <1>4, <1>5, <1>6, <1>7, <1>8, <1>9, <1>10, <1>11, <1>12, <1>13,
     <1>14, <1>15 DEF Next, TickStep

(* Between the ticks of a suspended game nothing plays, samples or holds   *)
(* the session, and the world stands still (apply_lifecycle_decision).     *)
THEOREM SuspendedIsQuiet == Spec => []QuietWhenSuspended
BY InitHolds, StepHolds, PropertiesFollow, PTL DEF Spec

(* Whatever bits came in whatever order, a running game has sound, input,  *)
(* its session and the player's speed (apply_lifecycle_decision).          *)
THEOREM RunningIsAlive == Spec => []AliveWhenRunning
BY InitHolds, StepHolds, PropertiesFollow, PTL DEF Spec

-----------------------------------------------------------------------------
(* Input.                                                                  *)

(* Snapshots as the sampler makes them.                                    *)
Entries == [held : SUBSET Controls, edge : BOOLEAN]
InputTypes ==
  /\ hardware \in SUBSET Controls
  /\ sampled # NoSample => sampled \in SUBSET Controls
  /\ queue \in Seq(Entries)
  /\ phase \in {"idle", "drain", "popped", "dispatched"}
  /\ phase = "popped" => sample \in SUBSET Controls
  /\ cancellation \in BOOLEAN /\ pressed \in BOOLEAN /\ inputOff \in BOOLEAN
  /\ sampleCut \in BOOLEAN /\ pressCut \in BOOLEAN /\ foreign \in BOOLEAN

(* Whoever cuts the epoch under a sample in hand, or under a press the UI  *)
(* still knows, leaves a cancellation behind for the tick to find.         *)
CutsCancel ==
  /\ sampleCut => phase = "popped" /\ cancellation
  /\ foreign => phase = "popped"
  /\ pressed /\ ~inputOff /\ (pressCut \/ foreign) => cancellation

(* A control is blocked, was remembered by the mapper, or has been seen up *)
(* since the epoch began: none is unaccounted for.                         *)
HeldIsKnown == ~cancellation /\ ~inputOff =>
  /\ Controls \subseteq blocked \cup remembered
                          \cup (IF phase = "popped" THEN fresh ELSE seenUp)
  /\ phase = "popped" => Controls \ sample \subseteq seenUp

InputInv == InputTypes /\ PressRemembered /\ CutsCancel /\ HeldIsKnown

LEMMA InitInput == InputInit => InputInv
<1> SUFFICES ASSUME InputInit PROVE InputInv
  OBVIOUS
<1>1. InputTypes
  <2>1. queue \in Seq(Entries)
    BY DEF InputInit
  <2>2. QED
    BY <2>1 DEF InputInit, InputTypes, Controls
<1>2. PressRemembered /\ CutsCancel /\ HeldIsKnown
  BY DEF InputInit, PressRemembered, CutsCancel, HeldIsKnown
<1>3. QED
  BY <1>1, <1>2 DEF InputInv

LEMMA FailedMapper ==
  \A r, b, f : \A p \in BOOLEAN :
     LET m == [Mapper(r, b, p, f) EXCEPT !.failed = TRUE]
     IN  m.remembered = r /\ m.pressed = p /\ m.failed = TRUE
BY DEF Mapper

(* Every outcome of a cancellation keeps the press of the UI known to the  *)
(* mapper, and without a failure it leaves no press and blocks everything. *)
LEMMA CancelledOutcomes ==
  ASSUME NEW r, NEW b, NEW p \in BOOLEAN, p => Pen \in r,
         NEW m \in Cancelled(r, b, p)
  PROVE  /\ m = Mapper(m.remembered, m.blocked, m.pressed, m.failed)
         /\ m.pressed \in BOOLEAN /\ m.failed \in BOOLEAN
         /\ m.pressed => Pen \in m.remembered
         /\ m.failed \/ (~m.pressed /\ m.blocked = Controls)
<1>1. CASE m = Mapper({}, Controls, FALSE, FALSE)
  BY <1>1 DEF Mapper
<1>2. CASE m = Mapper({}, Controls, IF Pen \in r THEN FALSE ELSE p, TRUE)
  BY <1>2 DEF Mapper
<1>3. ASSUME Pen \in r, NEW q \in {p, FALSE}, m = Mapper(r, b, q, TRUE)
      PROVE  /\ m = Mapper(m.remembered, m.blocked, m.pressed, m.failed)
             /\ m.pressed \in BOOLEAN /\ m.failed = TRUE
             /\ m.pressed => Pen \in m.remembered
  BY <1>3 DEF Mapper
<1>4. \/ m = Mapper({}, Controls, FALSE, FALSE)
      \/ m = Mapper({}, Controls, IF Pen \in r THEN FALSE ELSE p, TRUE)
      \/ Pen \in r /\ \E q \in {p, FALSE} : m = Mapper(r, b, q, TRUE)
  BY DEF Cancelled
<1>5. QED
  BY <1>1, <1>2, <1>3, <1>4

LEMMA CancelKeeps ==
  ASSUME InputTypes, PressRemembered, CancelInput
  PROVE  /\ PressRemembered' /\ pressed' \in BOOLEAN /\ inputOff' \in BOOLEAN
         /\ inputOff' \/ (~pressed' /\ blocked' = Controls)
         /\ inputOff => inputOff'
<1>1. PICK m \in Cancelled(remembered, blocked, pressed) : Becomes(m)
  BY DEF CancelInput
<1>2. pressed \in BOOLEAN /\ inputOff \in BOOLEAN /\ (pressed => Pen \in remembered)
  BY DEF InputTypes, PressRemembered
<1>3. /\ m.pressed \in BOOLEAN /\ m.failed \in BOOLEAN
      /\ m.pressed => Pen \in m.remembered
      /\ m.failed \/ (~m.pressed /\ m.blocked = Controls)
  BY <1>2, CancelledOutcomes
<1>4. QED
  BY <1>1, <1>2, <1>3 DEF Becomes, PressRemembered

(* A cut with a cancellation asked for settles everything the cut can touch.*)
LEMMA CutKeeps ==
  ASSUME Cut, cancellation' = TRUE, pressed' \in BOOLEAN, foreign \in BOOLEAN
  PROVE  /\ CutsCancel' /\ HeldIsKnown'
         /\ sampleCut' \in BOOLEAN /\ pressCut' \in BOOLEAN /\ foreign' \in BOOLEAN
BY DEF Cut, InHand, CutsCancel, HeldIsKnown

LEMMA PushKeeps ==
  ASSUME InputInv, NEW held \in SUBSET Controls, Push(held),
         UNCHANGED <<hardware, phase, sample, remembered, blocked, pressed, inputOff>>
  PROVE  /\ queue' \in Seq(Entries) /\ cancellation' \in BOOLEAN
         /\ CutsCancel' /\ HeldIsKnown'
         /\ sampleCut' \in BOOLEAN /\ pressCut' \in BOOLEAN /\ foreign' \in BOOLEAN
<1> USE DEF InputInv, InputTypes
<1>1. Entry(held) \in Entries
  BY DEF Entry, Entries
<1>2. CASE /\ Mergeable(held)
           /\ queue' = [queue EXCEPT ![Len(queue)].held = held]
           /\ UNCHANGED <<cancellation, historyVars>>
  <2>1. Len(queue) \in DOMAIN queue /\ queue[Len(queue)] \in Entries
    BY <1>2 DEF Mergeable
  <2>2. [queue[Len(queue)] EXCEPT !.held = held] \in Entries
    BY <2>1 DEF Entries
  <2>3. queue' \in Seq(Entries)
    BY <1>2, <2>1, <2>2
  <2>4. QED
    BY <1>2, <2>3 DEF historyVars, CutsCancel, HeldIsKnown
<1>3. CASE Len(queue) = Capacity /\ Overflow(held)
  <2>1. queue' \in Seq(Entries)
    BY <1>1, <1>3 DEF Overflow
  <2>2. QED
    BY <1>3, <2>1, CutKeeps DEF Overflow
<1>4. CASE /\ Len(queue) < Capacity
           /\ queue' = Append(queue, Entry(held))
           /\ UNCHANGED <<cancellation, historyVars>>
  <2>1. queue' \in Seq(Entries)
    BY <1>1, <1>4
  <2>2. QED
    BY <1>4, <2>1 DEF historyVars, CutsCancel, HeldIsKnown
<1>5. QED
  BY <1>2, <1>3, <1>4 DEF Push

(* Emptying the queue with the cancellation left standing, after one that  *)
(* was carried out or in any other step that keeps the mapper's promise.   *)
LEMMA DiscardKeeps ==
  ASSUME InputInv, Discard(TRUE), pressed' \in BOOLEAN
  PROVE  /\ queue' \in Seq(Entries) /\ cancellation' \in BOOLEAN
         /\ CutsCancel' /\ HeldIsKnown'
         /\ sampleCut' \in BOOLEAN /\ pressCut' \in BOOLEAN /\ foreign' \in BOOLEAN
BY CutKeeps DEF Discard, InputInv, InputTypes

(* However far an action got, a press the UI shows is known to the mapper. *)
LEMMA HalfWayOutcomes ==
  ASSUME InputTypes, PressRemembered, NEW held, NEW h \in HalfWay(held)
  PROVE  h[2] \in BOOLEAN /\ (h[2] => Pen \in h[1])
<1> DEFINE now == Effective(held)
           buttons == now \ {Pen}
<1>1. pressed \in BOOLEAN /\ (pressed => Pen \in remembered)
  BY DEF InputTypes, PressRemembered
<1>2. CASE h = <<buttons \cup ({Pen} \cap remembered), pressed>>
  BY <1>1, <1>2
<1>3. CASE h = <<now, PenAfter(held)>>
  BY <1>1, <1>3 DEF PenAfter, Presses
<1>4. ASSUME Pen \in Presses(held), NEW p \in BOOLEAN, h = <<now, p>>
      PROVE  h[2] \in BOOLEAN /\ (h[2] => Pen \in h[1])
  BY <1>4 DEF Presses
<1>5. ASSUME NEW p \in {pressed, FALSE}, h = <<buttons \cup {Pen}, p>>
      PROVE  h[2] \in BOOLEAN /\ (h[2] => Pen \in h[1])
  BY <1>1, <1>5
<1>6. \/ h = <<buttons \cup ({Pen} \cap remembered), pressed>>
      \/ h = <<now, PenAfter(held)>>
      \/ Pen \in Presses(held) /\ \E p \in BOOLEAN : h = <<now, p>>
      \/ \E p \in {pressed, FALSE} : h = <<buttons \cup {Pen}, p>>
  BY Zenon DEF HalfWay
<1>7. QED
  BY <1>2, <1>3, <1>4, <1>5, <1>6

LEMMA StepInput == InputInv /\ [InputNext]_inputVars => InputInv'
<1> SUFFICES ASSUME InputInv, [InputNext]_inputVars PROVE InputInv'
  OBVIOUS
<1> USE DEF InputInv
<1>1. ASSUME NEW held \in SUBSET Controls, Hold(held) PROVE InputInv'
  BY <1>1 DEF Hold, InputTypes, PressRemembered, CutsCancel, HeldIsKnown, queueVars, tickVars,
              mapperVars, historyVars
<1>2. CASE SamplerRead
  BY <1>2 DEF SamplerRead, InputTypes, PressRemembered, CutsCancel, HeldIsKnown, queueVars,
              tickVars, mapperVars, historyVars
<1>3. CASE SamplerPush
  <2>1. sampled \in SUBSET Controls
    BY <1>3 DEF SamplerPush, InputTypes
  <2>2. CASE paused
    BY <1>3, <2>2 DEF SamplerPush, InputTypes, PressRemembered, CutsCancel, HeldIsKnown,
                      queueVars, tickVars, mapperVars, historyVars
  <2>3. CASE ~paused
    <3>1. Push(sampled)
      BY <1>3, <2>3 DEF SamplerPush
    <3>2. UNCHANGED <<hardware, phase, sample, remembered, blocked, pressed, inputOff>>
      BY <1>3 DEF SamplerPush, tickVars, mapperVars
    <3>3. QED
      BY <1>3, <2>1, <3>1, <3>2, PushKeeps DEF SamplerPush, InputTypes, PressRemembered
  <2>4. QED
    BY <2>2, <2>3
<1>4. ASSUME NEW p \in BOOLEAN, Interrupt(p) PROVE InputInv'
  BY <1>4, CancelKeeps, DiscardKeeps DEF Interrupt, tickVars, InputTypes
<1>5. CASE DrainBegin
  <2>1. CASE cancellation
    BY <1>5, <2>1, CancelKeeps DEF DrainBegin, InputTypes, CutsCancel, HeldIsKnown
  <2>2. CASE ~cancellation
    BY <1>5, <2>2 DEF DrainBegin, InputTypes, PressRemembered, CutsCancel, HeldIsKnown, mapperVars
  <2>3. QED
    BY <2>1, <2>2
<1>6. CASE Pop
  <2>1. Head(queue) \in Entries /\ Tail(queue) \in Seq(Entries)
    BY <1>6 DEF Pop, InputTypes
  <2>2. sample' \in SUBSET Controls /\ queue' \in Seq(Entries)
    BY <1>6, <2>1 DEF Pop, Entries
  <2>3. QED
    BY <1>6, <2>2 DEF Pop, InputTypes, PressRemembered, CutsCancel, HeldIsKnown, mapperVars
<1>7. CASE DrainEnds
  BY <1>7 DEF DrainEnds, TickEnds, InputTypes, PressRemembered, CutsCancel, HeldIsKnown,
              queueVars, mapperVars, historyVars
<1>8. CASE Reset
  BY <1>8, CancelKeeps, DiscardKeeps DEF Reset, TickEnds, InputTypes
<1>9. ASSUME NEW changed \in BOOLEAN, NEW discards \in BOOLEAN, Dispatch(changed, discards)
      PROVE  InputInv'
  <2>1. PressRemembered' /\ pressed' \in BOOLEAN
    BY <1>9 DEF Dispatch, PenAfter, Presses, Effective, PressRemembered, InputTypes
  <2>2. CASE discards
    BY <1>9, <2>1, <2>2, DiscardKeeps DEF Dispatch, InputTypes
  <2>3. CASE ~discards
    BY <1>9, <2>1, <2>3 DEF Dispatch, InputTypes, CutsCancel, HeldIsKnown, Effective, Ignored,
                            PenAfter, Presses, queueVars
  <2>4. QED
    BY <2>2, <2>3
<1>10. CASE DispatchFails
  <2>1. PICK h \in HalfWay(sample) :
           \E m \in Cancelled(h[1], Ignored(sample), h[2]) : Becomes([m EXCEPT !.failed = TRUE])
    BY <1>10 DEF DispatchFails
  <2>2. h[2] \in BOOLEAN /\ (h[2] => Pen \in h[1])
    BY <2>1, HalfWayOutcomes
  <2>3. PICK m \in Cancelled(h[1], Ignored(sample), h[2]) : Becomes([m EXCEPT !.failed = TRUE])
    BY <2>1
  <2>4. /\ m = Mapper(m.remembered, m.blocked, m.pressed, m.failed)
        /\ m.pressed \in BOOLEAN /\ (m.pressed => Pen \in m.remembered)
    BY <2>2, CancelledOutcomes
  <2>5. PressRemembered' /\ pressed' \in BOOLEAN /\ inputOff' = TRUE
    <3>1. LET n == [m EXCEPT !.failed = TRUE]
          IN  n.remembered = m.remembered /\ n.pressed = m.pressed /\ n.failed = TRUE
      BY <2>4, FailedMapper
    <3>2. /\ remembered' = m.remembered /\ pressed' = m.pressed
          /\ inputOff' = (inputOff \/ TRUE)
      BY <2>3, <3>1 DEF Becomes
    <3>3. QED
      BY <2>4, <3>2 DEF PressRemembered
  <2>6. /\ UNCHANGED <<hardware, sampled, queue, cancellation, pressCut>>
        /\ phase' = "idle" /\ sampleCut' = FALSE /\ foreign' = FALSE
    BY <1>10 DEF DispatchFails, TickEnds, queueVars
  <2>7. QED
    BY <2>5, <2>6 DEF InputTypes, CutsCancel, HeldIsKnown
<1>11. CASE AfterDispatch
  <2>1. CASE cancellation \/ ownerChanged
    <3>1. CancelInput /\ Discard(FALSE) /\ phase' = "idle"
          /\ UNCHANGED <<hardware, sampled, paused>>
      BY <1>11, <2>1 DEF AfterDispatch, TickEnds
    <3>2. /\ PressRemembered' /\ pressed' \in BOOLEAN /\ inputOff' \in BOOLEAN
          /\ inputOff' \/ (~pressed' /\ blocked' = Controls)
      BY <3>1, CancelKeeps
    <3>3. /\ queue' = <<>> /\ cancellation' = FALSE
          /\ sampleCut' = FALSE /\ pressCut' = pressed' /\ foreign' = FALSE
      BY <3>1 DEF Discard, Cut, InHand
    <3>4. CutsCancel' /\ HeldIsKnown'
      BY <3>1, <3>2, <3>3 DEF CutsCancel, HeldIsKnown
    <3>5. InputTypes'
      <4>1. queue' \in Seq(Entries)
        BY <3>3
      <4>2. QED
        BY <3>1, <3>2, <3>3, <4>1 DEF InputTypes
    <3>6. QED
      BY <3>2, <3>4, <3>5
  <2>2. CASE ~(cancellation \/ ownerChanged)
    BY <1>11, <2>2 DEF AfterDispatch, InputTypes, PressRemembered, CutsCancel, HeldIsKnown,
                       queueVars, mapperVars, historyVars
  <2>3. QED
    BY <2>1, <2>2
<1>12. CASE UNCHANGED inputVars
  BY <1>12 DEF inputVars, InputTypes, PressRemembered, CutsCancel, HeldIsKnown, queueVars,
               tickVars, mapperVars, historyVars
<1>13. QED
  BY <1>1, <1>2, <1>3, <1>4, <1>5, <1>6, <1>7, <1>8, <1>9, <1>10, <1>11, <1>12
  DEF InputNext, DrainStep

LEMMA InputInvariance == InputSpec => []InputInv
BY InitInput, StepInput, PTL DEF InputSpec

(* The mapper remembers the pen whenever the UI was told of a press, also  *)
(* when a dispatch or a cancellation failed half way (cancel, dispatch).   *)
THEOREM PressAlwaysRemembered == InputSpec => []PressRemembered
BY InputInvariance, PTL DEF InputInv

(* A press is ended by its own drag only: no sample of another epoch is    *)
(* handled as its release (epoch check of the tick's drain).               *)
THEOREM DragsStayInEpoch == InputSpec => PressWithinEpoch
<1>1. InputInv /\ [InputNext]_inputVars
        => [Handled /\ pressed /\ ~pressed' /\ ~inputOff => ~foreign]_inputVars
  <2> SUFFICES ASSUME InputInv, InputNext, Handled, pressed, ~inputOff PROVE ~foreign
    BY DEF inputVars
  <2>1. ~cancellation
    BY DEF Handled, InputNext, Hold, SamplerRead, SamplerPush, Interrupt, DrainBegin, DrainStep,
           Pop, DrainEnds, Reset, TickEnds, Dispatch, DispatchFails, AfterDispatch, tickVars
  <2>2. QED
    BY <2>1 DEF InputInv, CutsCancel
<1>2. QED
  BY <1>1, InputInvariance, PTL DEF InputSpec, PressWithinEpoch

(* What was held across a cut is not pressed again: a handled sample only  *)
(* presses controls that were seen up since (the mapper's blocked set).    *)
THEOREM HeldIsNotReplayed == InputSpec => NothingReplayed
<1>1. InputInv /\ [InputNext]_inputVars
        => [Handled /\ ~inputOff => Presses(sample) \subseteq fresh]_inputVars
  <2> SUFFICES ASSUME InputInv, InputNext, Handled, ~inputOff PROVE Presses(sample) \subseteq fresh
    BY DEF inputVars
  <2>1. ~cancellation
    BY DEF Handled, InputNext, Hold, SamplerRead, SamplerPush, Interrupt, DrainBegin, DrainStep,
           Pop, DrainEnds, Reset, TickEnds, Dispatch, DispatchFails, AfterDispatch, tickVars
  <2>2. QED
    BY <2>1 DEF InputInv, InputTypes, HeldIsKnown, Handled, Presses, Effective, Ignored
<1>2. QED
  BY <1>1, InputInvariance, PTL DEF InputSpec, NothingReplayed
=============================================================================
