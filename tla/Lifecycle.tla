------------------------------ MODULE Lifecycle ------------------------------
(***************************************************************************)
(* What HOME, the lid and a close request do to the game: the APT hook     *)
(* sets bits at any moment, tick() of the main thread takes them, asks     *)
(* LifecycleController (src/common/lifecycle.cpp) for a decision per bit   *)
(* in a fixed order, and applies each decision to audio, input sampling,   *)
(* the resource session, the save path and the Lua world                   *)
(* (src/3ds/runtime_3ds.cpp, lua/3ds/platform.lua).  Assets are those of a *)
(* mounted bundle ("th3ds" mode), where autosaves are enabled.             *)
(*                                                                         *)
(* The main thread's work is a sequence of steps; between any two of them  *)
(* the hook may set another bit.                                           *)
(***************************************************************************)
EXTENDS Naturals

CONSTANTS Worlds, NoWorld, Speeds   \* "Pause" is one of the speeds

ASSUME WorldAssumption == NoWorld \notin Worlds /\ {"Pause", "Normal"} \subseteq Speeds

Signals == {"Suspend", "Sleep", "Restore", "Wake", "Exit"}
\* process_lifecycle handles a bit only after those before it.
Earlier == [s \in Signals |->
             CASE s = "Suspend" -> {}
               [] s = "Sleep"   -> {"Suspend"}
               [] s = "Restore" -> {"Suspend", "Sleep"}
               [] s = "Wake"    -> {"Suspend", "Sleep", "Restore"}
               [] s = "Exit"    -> Signals \ {"Exit"}]

Decisions == [pause : BOOLEAN, resume : BOOLEAN, autosave : BOOLEAN, exit : BOOLEAN]
Nothing == [pause |-> FALSE, resume |-> FALSE, autosave |-> FALSE, exit |-> FALSE]

VARIABLES
  \* LifecycleController
  ctl,           \* "Running", "Suspended" or "ExitPending"
  ioDepth,       \* critical I/O sections entered
  deferredSave, deferredExit,
  \* the runtime
  pending,       \* bits the APT hook has set
  taken,         \* bits of this tick that are still to be handled
  pc,            \* where the main thread is; "idle" between ticks
  after,         \* where it goes on once a decision is applied
  decision, isResume,
  audioSuspended, samplerPaused, inputFailed,
  quits,         \* SDL_QUIT events pushed
  session,       \* the resource session: see RuntimeSession
  \* the Lua platform
  world, speed, suspendedWorld, savedSpeed,
  chosenSpeed    \* the speed the player last chose

controllerVars == <<ctl, ioDepth, deferredSave, deferredExit>>
threadVars == <<pc, after, decision, isResume, taken>>
deviceVars == <<audioSuspended, samplerPaused>>
worldVars == <<world, speed, suspendedWorld, savedSpeed, chosenSpeed>>
vars == <<controllerVars, pending, threadVars, deviceVars, inputFailed, quits, session, worldVars>>

Init ==
  /\ ctl = "Running" /\ ioDepth = 0 /\ deferredSave = FALSE /\ deferredExit = FALSE
  /\ pending = {} /\ taken = {} /\ pc = "idle" /\ after = "idle"
  /\ decision = Nothing /\ isResume = FALSE
  /\ audioSuspended = FALSE /\ samplerPaused = FALSE /\ inputFailed = FALSE
  /\ quits = 0 /\ session = "Stable"
  /\ world = NoWorld /\ speed = "Normal" /\ chosenSpeed = "Normal"
  /\ suspendedWorld = NoWorld /\ savedSpeed = "Normal"

-----------------------------------------------------------------------------
(* LifecycleController.                                                    *)

InIo == ioDepth > 0

SignalSuspend(s) ==
  /\ s \in {"Suspend", "Sleep"} /\ ctl = "Running"
  /\ ctl' = "Suspended"
  /\ deferredSave' = (deferredSave \/ InIo)
  /\ decision' = [Nothing EXCEPT !.pause = TRUE, !.autosave = ~InIo]
  /\ UNCHANGED <<ioDepth, deferredExit>>

\* MUTANT: a wake-up also takes back an exit.
SignalResume_RevivesExit(s) ==
  /\ s \in {"Restore", "Wake"} /\ ctl # "Running"
  /\ ctl' = "Running"
  /\ decision' = [Nothing EXCEPT !.resume = TRUE]
  /\ UNCHANGED <<ioDepth, deferredSave, deferredExit>>

SignalResume(s) ==
  /\ s \in {"Restore", "Wake"} /\ ctl = "Suspended"
  /\ ctl' = "Running"
  /\ decision' = [Nothing EXCEPT !.resume = TRUE]
  /\ UNCHANGED <<ioDepth, deferredSave, deferredExit>>

SignalExit(s) ==
  /\ s = "Exit" /\ ctl # "ExitPending"
  /\ ctl' = "ExitPending"
  /\ deferredSave' = (deferredSave \/ InIo)
  /\ deferredExit' = (deferredExit \/ InIo)
  /\ decision' = [Nothing EXCEPT !.pause = TRUE, !.autosave = ~InIo, !.exit = ~InIo]
  /\ UNCHANGED ioDepth

SignalIgnored(s) ==
  /\ \/ s \in {"Suspend", "Sleep"} /\ ctl # "Running"
     \/ s \in {"Restore", "Wake"} /\ ctl # "Suspended"
     \/ s = "Exit" /\ ctl = "ExitPending"
  /\ decision' = Nothing
  /\ UNCHANGED controllerVars

Signal(s) == SignalSuspend(s) \/ SignalResume(s) \/ SignalExit(s) \/ SignalIgnored(s)

\* LifecycleController::tick; due: the periodic autosave's time has come.
ControllerTick(due) ==
  LET late == deferredSave \/ (due /\ ctl = "Running" /\ InIo) IN
  /\ deferredSave' = (late /\ InIo)
  /\ deferredExit' = (deferredExit /\ InIo)
  /\ decision' = [Nothing EXCEPT
                    !.autosave = ~InIo /\ (late \/ (due /\ ctl = "Running")),
                    !.exit = ~InIo /\ deferredExit]
  /\ UNCHANGED <<ctl, ioDepth>>

-----------------------------------------------------------------------------
(* The APT hook and the player.                                            *)

AptHook(s) ==
  /\ pending' = pending \cup {s}
  /\ UNCHANGED <<controllerVars, threadVars, deviceVars, inputFailed, quits, session, worldVars>>

\* Input reaches the game only from a tick that runs.
Playing == pc = "idle" /\ ctl = "Running" /\ ~inputFailed

ChooseSpeed(s) ==
  /\ Playing /\ world # NoWorld
  /\ speed' = s /\ chosenSpeed' = s
  /\ UNCHANGED <<controllerVars, pending, threadVars, deviceVars, inputFailed, quits, session,
                 world, suspendedWorld, savedSpeed>>

ChangeWorld(w) ==
  /\ Playing /\ w # world
  /\ world' = w /\ speed' = "Normal" /\ chosenSpeed' = "Normal"
  /\ UNCHANGED <<controllerVars, pending, threadVars, deviceVars, inputFailed, quits, session,
                 suspendedWorld, savedSpeed>>

PlayerSaves ==
  /\ Playing
  /\ pc' = "save" /\ after' = "idle" /\ decision' = Nothing /\ isResume' = FALSE
  /\ UNCHANGED <<controllerVars, taken, pending, deviceVars, inputFailed, quits, session,
                 worldVars>>

-----------------------------------------------------------------------------
(* tick.                                                                   *)

\* process_lifecycle takes the bits; when there are any, input is cancelled,
\* which may fail for good.
TickBegin ==
  /\ pc = "idle" /\ ~inputFailed
  /\ pc' = "signals" /\ taken' = pending /\ pending' = {}
  /\ inputFailed' \in (IF pending = {} THEN {FALSE} ELSE BOOLEAN)
  /\ UNCHANGED <<controllerVars, after, decision, isResume, deviceVars, quits, session, worldVars>>

\* MUTANT: the bits are an else-if chain, one of them is handled in a tick.
HandleSignal_ElseIf(s) ==
  /\ pc = "signals"
  /\ s \in taken /\ taken \cap Earlier[s] = {}
  /\ Signal(s)
  /\ isResume' = (s \in {"Restore", "Wake"})
  /\ taken' = {}
  /\ pc' = "apply" /\ after' = "signals"
  /\ UNCHANGED <<pending, deviceVars, inputFailed, quits, session, worldVars>>

HandleSignal(s) ==
  /\ pc = "signals"
  /\ s \in taken /\ taken \cap Earlier[s] = {}
  /\ Signal(s)
  /\ isResume' = (s \in {"Restore", "Wake"})
  /\ taken' = taken \ {s}
  /\ pc' = "apply" /\ after' = "signals"
  /\ UNCHANGED <<pending, deviceVars, inputFailed, quits, session, worldVars>>

\* The rest of the tick runs only while the game does; its input may fail.
SignalsHandled ==
  /\ pc = "signals" /\ taken = {}
  /\ \/ (inputFailed \/ ctl # "Running") /\ pc' = "idle" /\ UNCHANGED inputFailed
     \/ ~inputFailed /\ ctl = "Running"
        /\ \/ pc' = "periodic" /\ UNCHANGED inputFailed
           \/ pc' = "idle" /\ inputFailed' = TRUE
  /\ UNCHANGED <<controllerVars, pending, after, decision, isResume, taken, deviceVars, quits,
                 session, worldVars>>

Periodic(due) ==
  /\ pc = "periodic"
  /\ ControllerTick(due)
  /\ isResume' = FALSE
  /\ pc' = "apply" /\ after' = "idle"
  /\ UNCHANGED <<pending, taken, deviceVars, inputFailed, quits, session, worldVars>>

-----------------------------------------------------------------------------
(* apply_lifecycle_decision.                                               *)

Goto(from, to) == pc = from /\ pc' = to /\ UNCHANGED <<after, decision, isResume, taken>>

\* MUTANT: the sampler is left paused by a resume.
ApplyDevices_ForgetsSampler ==
  /\ Goto("apply", IF decision.autosave THEN "save" ELSE "dispatch")
  /\ audioSuspended' = (decision.pause \/ (audioSuspended /\ ~decision.resume))
  /\ samplerPaused' = (samplerPaused \/ (decision.pause /\ ~audioSuspended))
  /\ session' = IF decision.pause /\ session = "Stable" THEN "Suspended"
                ELSE IF decision.resume /\ session = "Suspended" THEN "Stable"
                ELSE session
  /\ UNCHANGED <<controllerVars, pending, inputFailed, quits, worldVars>>

\* Audio, the input sampler and the resource session are suspended or resumed.
ApplyDevices ==
  /\ Goto("apply", IF decision.autosave THEN "save" ELSE "dispatch")
  /\ audioSuspended' = (decision.pause \/ (audioSuspended /\ ~decision.resume))
  /\ samplerPaused' = IF decision.pause /\ ~audioSuspended THEN TRUE
                      ELSE IF decision.resume /\ audioSuspended THEN FALSE
                      ELSE samplerPaused
  /\ session' = IF decision.pause /\ session = "Stable" THEN "Suspended"
                ELSE IF decision.resume /\ session = "Suspended" THEN "Stable"
                ELSE session
  /\ UNCHANGED <<controllerVars, pending, inputFailed, quits, worldVars>>

\* App.save: save-begin of the session, then the critical I/O section.
SaveBegins ==
  /\ Goto("save", "saving")
  /\ world # NoWorld /\ session = "Stable"
  /\ session' = "Saving" /\ ioDepth' = ioDepth + 1
  /\ samplerPaused' = (samplerPaused \/ ~InIo)
  /\ UNCHANGED <<ctl, deferredSave, deferredExit, pending, audioSuspended, inputFailed, quits,
                 worldVars>>

\* MUTANT: a section that was never entered is left, which samples again.
SaveNotBegun_EndsIo ==
  /\ Goto("save", "dispatch")
  /\ world = NoWorld \/ session # "Stable"
  /\ samplerPaused' = (samplerPaused /\ world = NoWorld)
  /\ UNCHANGED <<controllerVars, pending, audioSuspended, inputFailed, quits, session, worldVars>>

\* There is no world, or the session refuses and App.save raises an error.
SaveNotBegun ==
  /\ Goto("save", "dispatch")
  /\ world = NoWorld \/ session # "Stable"
  /\ UNCHANGED <<controllerVars, pending, deviceVars, inputFailed, quits, session, worldVars>>

\* The save was committed or failed: both leave the section, then end the
\* session's transaction.
SaveEnds ==
  /\ Goto("saving", "dispatch")
  /\ session' = "Stable" /\ ioDepth' = ioDepth - 1
  /\ samplerPaused' = (samplerPaused /\ ioDepth > 1)
  /\ UNCHANGED <<ctl, deferredSave, deferredExit, pending, audioSuspended, inputFailed, quits,
                 worldVars>>

PauseWorld ==
  IF world # NoWorld /\ suspendedWorld = NoWorld
  THEN /\ savedSpeed' = speed /\ suspendedWorld' = world /\ speed' = "Pause"
       /\ UNCHANGED <<world, chosenSpeed>>
  ELSE UNCHANGED worldVars

\* MUTANT: the world runs on at normal speed.
ResumeWorld_AtNormal ==
  /\ speed' = IF world # NoWorld /\ world = suspendedWorld THEN "Normal" ELSE speed
  /\ suspendedWorld' = NoWorld
  /\ UNCHANGED <<world, savedSpeed, chosenSpeed>>

ResumeWorld ==
  /\ speed' = IF world # NoWorld /\ world = suspendedWorld THEN savedSpeed ELSE speed
  /\ suspendedWorld' = NoWorld
  /\ UNCHANGED <<world, savedSpeed, chosenSpeed>>

\* The Lua world is paused or resumed.
DispatchWorld ==
  /\ Goto("dispatch", IF decision.exit THEN "exit" ELSE after)
  /\ IF decision.pause THEN PauseWorld
     ELSE IF isResume THEN ResumeWorld ELSE UNCHANGED worldVars
  /\ UNCHANGED <<controllerVars, pending, deviceVars, inputFailed, quits, session>>

\* The session is shut down, which leases may prevent, and SDL_QUIT is pushed.
RequestExit ==
  /\ Goto("exit", after)
  /\ session' \in {session, "Closed"}
  /\ quits' = quits + 1
  /\ UNCHANGED <<controllerVars, pending, deviceVars, inputFailed, worldVars>>

TickStep ==
  \/ \E s \in Signals : HandleSignal(s)
  \/ SignalsHandled
  \/ \E due \in BOOLEAN : Periodic(due)
  \/ ApplyDevices \/ SaveBegins \/ SaveNotBegun \/ SaveEnds
  \/ DispatchWorld \/ RequestExit

Next ==
  \/ \E s \in Signals : AptHook(s)
  \/ \E s \in Speeds : ChooseSpeed(s)
  \/ \E w \in Worlds \cup {NoWorld} : ChangeWorld(w)
  \/ PlayerSaves
  \/ TickBegin \/ TickStep

\* The frame loop calls tick in every frame, whatever the player does between
\* two ticks, and a step of the main thread does not wait for anything.
Fairness == SF_vars(TickBegin) /\ WF_vars(TickStep)

Spec == Init /\ [][Next]_vars /\ Fairness

-----------------------------------------------------------------------------
(* Properties.                                                             *)

\* "The game pauses by itself": between the ticks of a suspended game nothing
\* plays, samples, or holds the session, and the world stands still.
QuietWhenSuspended ==
  pc = "idle" /\ ctl = "Suspended" =>
    /\ audioSuspended /\ samplerPaused /\ session = "Suspended"
    /\ world # NoWorld => speed = "Pause"

\* "After it resumes, input, sound and game speed are normal": whatever bits came
\* in whatever order, a running game has everything back and the player's speed.
AliveWhenRunning ==
  pc = "idle" /\ ctl = "Running" =>
    /\ ~audioSuspended /\ ~samplerPaused /\ session = "Stable"
    /\ world # NoWorld => speed = chosenSpeed

\* A close request is answered while input works; after an input failure tick
\* returns before it looks at the bits.
ExitIsAnswered == "Exit" \in pending ~> quits > 0 \/ inputFailed

\* Suspend save and exit save: an autosave that was decided finds the session
\* ready to begin it.
AutosaveCanBegin == pc = "save" /\ decision.autosave /\ world # NoWorld => session = "Stable"
=============================================================================
