---------------------------- MODULE InputPipeline ----------------------------
(***************************************************************************)
(* How the pen and the buttons reach the game: a sampler thread reads the  *)
(* hardware and pushes snapshots into a bounded queue                      *)
(* (include/cth3ds/input_collector_3ds.hpp, input_queue.hpp); the tick of  *)
(* the main thread drains the queue through the mapper                     *)
(* (src/common/input_mapper.cpp, src/3ds/runtime_3ds.cpp) into the Lua UI. *)
(* When snapshots are dropped - the queue is full, the game pauses, the UI *)
(* is replaced - the queue asks for a cancellation, and the mapper takes   *)
(* back the press of the pen and ignores what is held until it is let go.  *)
(*                                                                         *)
(* A step of the main thread is one call under the queue's lock with the   *)
(* main thread's own work up to the next; between two steps the sampler    *)
(* may push.  Time is left out: whether a snapshot is more than two        *)
(* seconds old, or may be merged with its predecessor, is open.            *)
(***************************************************************************)
EXTENDS Naturals, Sequences

CONSTANTS Buttons, Pen,  \* what can be held
          NoSample,      \* no snapshot
          Capacity,      \* snapshots in the queue (256)
          DrainLimit     \* snapshots a tick handles (64)

ASSUME InputAssumption ==
  /\ Pen \notin Buttons
  /\ Capacity \in Nat \ {0} /\ DrainLimit \in Nat \ {0}

Controls == Buttons \cup {Pen}

VARIABLES
  hardware,      \* the controls held now
  sampled,       \* what the sampler has read and not pushed yet
  paused,        \* the sampler is paused
  queue,         \* entries: the controls held, and whether they had changed
  previous,      \* what was pushed last in this epoch
  cancellation,  \* a cancellation is asked for
  phase, drained, \* where the tick is, and how many snapshots it has taken
  sample,        \* the snapshot in hand
  ownerChanged,  \* handling it replaced the UI's owner
  remembered,    \* the mapper: what it has pressed
  blocked,       \* the mapper: ignored until it is let go
  pressed,       \* the pen is down in the Lua UI
  inputOff,      \* input is off for good
  \* History, for the properties.  A cut is a drop of snapshots.
  seenUp,        \* controls popped as let go since the last cut
  fresh,         \* those of them popped before the snapshot in hand
  sampleCut,     \* a cut came since the snapshot in hand was pushed
  pressCut,      \* a cut came since the press of the pen was pushed
  foreign        \* the snapshot in hand is from a later epoch than the press

queueVars == <<queue, previous, cancellation>>
mapperVars == <<remembered, blocked, pressed>>
tickVars == <<phase, drained, sample, ownerChanged>>
historyVars == <<seenUp, fresh, sampleCut, pressCut, foreign>>
inputVars == <<hardware, sampled, paused, queueVars, tickVars, mapperVars, inputOff, historyVars>>

\* The sampler has been started and the queue discarded.
InputInit ==
  /\ hardware \in SUBSET Controls /\ sampled = NoSample /\ paused = FALSE
  /\ queue = <<>> /\ previous = NoSample /\ cancellation = TRUE
  /\ phase = "idle" /\ drained = 0 /\ sample = NoSample /\ ownerChanged = FALSE
  /\ remembered = {} /\ blocked = {} /\ pressed = FALSE /\ inputOff = FALSE
  /\ seenUp = {} /\ fresh = {}
  /\ sampleCut = FALSE /\ pressCut = FALSE /\ foreign = FALSE

-----------------------------------------------------------------------------
(* The queue.                                                              *)

\* What a drop of snapshots means for the history.
InHand == phase' = "popped"
Cut ==
  /\ seenUp' = {}
  /\ sampleCut' = InHand /\ pressCut' = pressed'
  /\ fresh' = (IF InHand THEN fresh ELSE {}) /\ foreign' = (InHand /\ foreign)

Entry(held) == [held |-> held, edge |-> held # previous]
Tail1 == queue[Len(queue)]

\* An unchanged snapshot may be merged with an unchanged one.
Mergeable(held) == queue # <<>> /\ held = previous /\ ~Tail1.edge

\* MUTANT: the full queue is emptied without a word.
Overflow_Silent(held) ==
  /\ queue' = <<Entry(held)>>
  /\ UNCHANGED cancellation
  /\ Cut

\* A full queue is emptied: the main thread must cancel before this snapshot.
Overflow(held) ==
  /\ queue' = <<Entry(held)>>
  /\ cancellation' = TRUE
  /\ Cut

Push(held) ==
  /\ previous' = held
  /\ \/ /\ Mergeable(held)
        /\ queue' = [queue EXCEPT ![Len(queue)].held = held]
        /\ UNCHANGED <<cancellation, historyVars>>
     \/ Len(queue) = Capacity /\ Overflow(held)
     \/ /\ Len(queue) < Capacity
        /\ queue' = Append(queue, Entry(held))
        /\ UNCHANGED <<cancellation, historyVars>>

\* The queue is emptied and a new epoch begins; cancel says whether the request
\* for a cancellation is left standing.
Discard(cancel) ==
  /\ queue' = <<>> /\ previous' = NoSample /\ cancellation' = cancel
  /\ Cut

-----------------------------------------------------------------------------
(* The hardware and the sampler thread.                                    *)

Hold(held) ==
  /\ held # hardware /\ hardware' = held
  /\ UNCHANGED <<sampled, paused, queueVars, tickVars, mapperVars, inputOff, historyVars>>

\* The pause is looked at before the hardware is read ...
SamplerRead ==
  /\ sampled = NoSample /\ ~paused
  /\ sampled' = hardware
  /\ UNCHANGED <<hardware, paused, queueVars, tickVars, mapperVars, inputOff, historyVars>>

\* ... and again under the lock.
SamplerPush ==
  /\ sampled # NoSample /\ sampled' = NoSample
  /\ UNCHANGED <<hardware, paused, tickVars, mapperVars, inputOff>>
  /\ IF paused THEN UNCHANGED <<queueVars, historyVars>> ELSE Push(sampled)

-----------------------------------------------------------------------------
(* The mapper and the Lua UI.                                              *)

Mapper(r, b, p, f) == [remembered |-> r, blocked |-> b, pressed |-> p, failed |-> f]

Becomes(m) ==
  /\ remembered' = m.remembered /\ blocked' = m.blocked /\ pressed' = m.pressed
  /\ inputOff' = (inputOff \/ m.failed)

\* MUTANT: what is held is not ignored after a cancellation.
Cancelled_Unblocked(r, b, p) == { Mapper({}, {}, FALSE, FALSE) }

\* MUTANT: the mapper forgets the press before the UI has taken it back.
Cancelled_ForgetsFirst(r, b, p) ==
  { Mapper({}, Controls, FALSE, FALSE) }
  \cup (IF Pen \in r THEN { Mapper({}, b, p, TRUE) } ELSE {})

\* MUTANT: the mapper is reset, the UI is not told.
Cancelled_Quietly(r, b, p) == { Mapper({}, Controls, p, FALSE) }

\* cancel_input: the UI takes back the press, the mapper is reset and ignores
\* what is held.  The mapper's release may fail, and then keeps the mapper as it
\* was; so may the clearing of the pointer that follows in any case.
Cancelled(r, b, p) ==
  { Mapper({}, Controls, FALSE, FALSE),
    Mapper({}, Controls, IF Pen \in r THEN FALSE ELSE p, TRUE) }
  \cup (IF Pen \in r THEN { Mapper(r, b, q, TRUE) : q \in {p, FALSE} } ELSE {})

CancelInput == \E m \in Cancelled(remembered, blocked, pressed) : Becomes(m)

Ignored(held) == blocked \cap held
Effective(held) == held \ Ignored(held)
Presses(held) == Effective(held) \ remembered

PenAfter(held) ==
  IF Pen \in Presses(held) THEN TRUE
  ELSE IF Pen \in remembered \ Effective(held) THEN FALSE ELSE pressed

\* What the mapper remembers and the UI shows when an action of a snapshot fails:
\* the movement, the press, the release, or something after them.
HalfWay(held) ==
  LET now == Effective(held)
      buttons == now \ {Pen}
  IN  { <<buttons \cup ({Pen} \cap remembered), pressed>>, <<now, PenAfter(held)>> }
      \cup (IF Pen \in Presses(held) THEN { <<now, p>> : p \in BOOLEAN } ELSE {})
      \cup (IF Pen \in remembered \ now
            THEN { <<buttons \cup {Pen}, p>> : p \in {pressed, FALSE} } ELSE {})

-----------------------------------------------------------------------------
(* The main thread.                                                        *)

\* The tick is over; nothing that is local to it survives.
TickEnds ==
  /\ phase' = "idle" /\ drained' = 0 /\ sample' = NoSample /\ ownerChanged' = FALSE

\* A lifecycle bit: input is discarded and cancelled, and the sampler paused (p)
\* or run.
Interrupt(p) ==
  /\ phase = "idle" /\ ~inputOff
  /\ UNCHANGED <<hardware, sampled, tickVars>>
  /\ CancelInput
  /\ Discard(TRUE)
  /\ paused' = p

\* A cancellation that fails here turns input off from the next tick on.
DrainBegin ==
  /\ phase = "idle" /\ ~inputOff /\ ~paused
  /\ phase' = "drain"
  /\ cancellation' = FALSE
  /\ IF cancellation THEN CancelInput ELSE UNCHANGED <<mapperVars, inputOff>>
  /\ pressCut' = (pressCut /\ pressed')
  /\ UNCHANGED <<hardware, sampled, paused, queue, previous, drained, sample, ownerChanged,
                 seenUp, fresh, sampleCut, foreign>>

Pop ==
  /\ phase = "drain" /\ drained < DrainLimit /\ queue # <<>>
  /\ sample' = Head(queue).held /\ queue' = Tail(queue)
  /\ fresh' = seenUp /\ seenUp' = seenUp \cup (Controls \ sample')
  /\ drained' = drained + 1 /\ phase' = "popped"
  /\ foreign' = pressCut
  /\ UNCHANGED <<hardware, sampled, paused, previous, cancellation, ownerChanged, mapperVars,
                 inputOff, sampleCut, pressCut>>

DrainEnds ==
  /\ phase = "drain" /\ (drained = DrainLimit \/ queue = <<>>)
  /\ TickEnds
  /\ UNCHANGED <<hardware, sampled, paused, queueVars, mapperVars, inputOff, historyVars>>

\* Snapshots were dropped behind the one in hand, or it is too old.
Reset ==
  /\ phase = "popped"
  /\ TickEnds /\ CancelInput
  /\ Discard(TRUE)
  /\ UNCHANGED <<hardware, sampled, paused>>

\* The mapper's actions reach the UI; changed: one of them replaced the UI's owner;
\* discards: one of them saved a game or opened the keyboard, which pauses the
\* sampler for a while.
Dispatch(changed, discards) ==
  /\ phase = "popped" /\ ~cancellation
  /\ remembered' = Effective(sample) /\ blocked' = Ignored(sample)
  /\ pressed' = PenAfter(sample)
  /\ phase' = "dispatched" /\ sample' = NoSample /\ ownerChanged' = changed
  /\ IF discards THEN Discard(TRUE)
     ELSE /\ pressCut' = (pressed' /\ IF Pen \in Presses(sample) THEN sampleCut ELSE pressCut)
          /\ sampleCut' = FALSE /\ foreign' = FALSE /\ fresh' = {}
          /\ UNCHANGED <<queueVars, seenUp>>
  /\ UNCHANGED <<hardware, sampled, paused, drained, inputOff>>

\* An action fails: input is cancelled and off for good.
DispatchFails ==
  /\ phase = "popped" /\ ~cancellation
  /\ \E h \in HalfWay(sample) :
       \E m \in Cancelled(h[1], Ignored(sample), h[2]) :
         Becomes([m EXCEPT !.failed = TRUE])
  /\ TickEnds
  /\ sampleCut' = FALSE /\ foreign' = FALSE /\ fresh' = {}
  /\ UNCHANGED <<hardware, sampled, paused, queueVars, seenUp, pressCut>>

AfterDispatch ==
  /\ phase = "dispatched"
  /\ IF cancellation \/ ownerChanged
     THEN TickEnds /\ CancelInput /\ Discard(FALSE)
     ELSE /\ phase' = "drain"
          /\ UNCHANGED <<queueVars, drained, sample, ownerChanged, mapperVars, inputOff,
                         historyVars>>
  /\ UNCHANGED <<hardware, sampled, paused>>

DrainStep ==
  \/ Pop \/ DrainEnds \/ Reset \/ DispatchFails \/ AfterDispatch
  \/ \E changed, discards \in BOOLEAN : Dispatch(changed, discards)

InputNext ==
  \/ \E held \in SUBSET Controls : Hold(held)
  \/ SamplerRead \/ SamplerPush
  \/ \E p \in BOOLEAN : Interrupt(p)
  \/ DrainBegin \/ DrainStep

\* The sampler's loop and the main loop run on; reading the hardware succeeds again
\* and again, and so does coming to a tick whatever interrupts come between.
InputFairness ==
  /\ SF_inputVars(SamplerRead) /\ WF_inputVars(SamplerPush)
  /\ SF_inputVars(DrainBegin) /\ WF_inputVars(DrainStep)

InputSpec == InputInit /\ [][InputNext]_inputVars /\ InputFairness

-----------------------------------------------------------------------------
(* Properties.                                                             *)

Handled == phase = "popped" /\ phase' = "dispatched"

\* "Main must cancel the drag before this new sample": the pen that is let go in
\* the UI, which activates what is under it, was pressed in the same epoch.  No
\* drag spans dropped snapshots.  (A cancellation at the begin of a tick that fails
\* turns input off only from the next tick on.)
PressWithinEpoch ==
  [][Handled /\ pressed /\ ~pressed' /\ ~inputOff
       => ~foreign]_inputVars

\* "Do not replay held input": a control that acts was pushed as let go since the
\* last cut before it was pushed as held.  What was held over a pause, a full
\* queue or a change of owner does nothing until it is let go.  (A snapshot that the
\* sampler read before the cut and pushed after it counts as one of after it: nothing
\* in the code tells it from those.)
NothingReplayed ==
  [][Handled /\ ~inputOff
       => Presses(sample) \subseteq fresh]_inputVars

\* "Retain the outstanding release if the bridge fails": a press the UI shows is
\* remembered by the mapper, also when a release or a cancellation has failed.
PressRemembered == pressed => Pen \in remembered

\* A pen that stays off the screen is let go in the UI too, whatever was dropped,
\* unless input has failed.
PenLiftArrives == <>[](Pen \notin hardware) => <>[](pressed => inputOff)
=============================================================================
