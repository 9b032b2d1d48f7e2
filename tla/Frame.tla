--------------------------------- MODULE Frame ---------------------------------
(***************************************************************************)
(* Application, Input and a Toggle together: the frame loop polls the      *)
(* window's events into Input, clears Input when simulatedTimer says so,   *)
(* and updates the objects, one of which has a Toggle under the pointer:   *)
(* a root, or an object below one.                                         *)
(*                                                                         *)
(* Each action of Application.tla is here with what it does to Input.      *)
(***************************************************************************)
EXTENDS Application

LOCAL INSTANCE SequencesExt  \* ToSet

CONSTANTS Keys, Buttons, Unknown,
          Left,     \* Toggle::button
          ToggleOn, \* the object that has the Toggle
          MaxPolls  \* bound of the model: events

ASSUME FrameAssumption ==
    /\ Left \in Buttons /\ ToggleOn \in Objects /\ MaxPolls \in Nat
    /\ Unknown \notin Buttons

VARIABLES input,   \* Application's input
          value,   \* Toggle::value, which no constructor sets
          thrown,  \* an exception has left start()
          before,  \* value when the frame began
          pressed, \* the events of this frame that pressed a key or a button
          cleared, \* input._update() was called in this frame
          served,  \* the simulated objects that had a turn in this frame
          aRound,  \* this frame's turns are one for each simulated object
          rested,  \* the objects that were not enabled at some time in this frame
          polls    \* what the bound counts

I == INSTANCE Input

memory    == <<before, pressed, cleared, served, aRound, rested>>
frameVars == <<vars, input, value, thrown, memory, polls>>

FrameInit ==
    /\ Init
    /\ I!Init
    /\ value \in BOOLEAN
    /\ before = value /\ pressed = {} /\ cleared = FALSE /\ served = {} /\ aRound = FALSE
    /\ rested = {} /\ polls = 0

\* The objects whose turns update the one that has the Toggle: itself and, by
\* _update() going on to the children, the root above it
Turners == {o \in Objects : o = ToggleOn \/ ToggleOn \in Below(o)}

-----------------------------------------------------------------------------
(* Faulty variants.  No specification uses them: each takes the place of the  *)
(* definition it is named after, to see that a property notices.              *)

\* the interval of the other list
ClearDue_Emulated == simulatedTimer >= Emulated

\* off by a tick
ClearDue_Early == simulatedTimer >= Simulated - 1

\* the button held instead of the button just pressed
ToggleUpdate_Held(o) ==
    IF o \in Turners \cap enabled /\ ToggleOn \in enabled /\ Left \in input.buttons
    THEN value' = ~value ELSE UNCHANGED value

-----------------------------------------------------------------------------
FIterate ==
    /\ Iterate
    /\ before' = value /\ pressed' = {} /\ cleared' = FALSE /\ served' = {} /\ aRound' = FALSE
    /\ rested' = Objects \ enabled
    /\ UNCHANGED <<input, value, thrown, polls>>

\* if(simulatedTimer >= simulatedTargetDeltaTime) input._update()
ClearDue == simulatedTimer >= Simulated

\* The quadtree manager, and the event handler up to its loop
FRefresh ==
    /\ Refresh
    /\ cleared' = ClearDue
    /\ IF ClearDue THEN I!Update ELSE UNCHANGED <<input, thrown>>
    /\ UNCHANGED <<value, before, pressed, served, aRound, rested, polls>>

\* One round of the loop over the events
Poll(e) ==
    /\ at = "events" /\ polls < MaxPolls
    /\ I!Poll(e)
    /\ pressed' = pressed \cup IF e.type \in {"KeyPressed", "MouseButtonPressed"}
                               THEN {e} ELSE {}
    /\ polls' = polls + 1
    /\ UNCHANGED <<vars, value, before, cleared, served, aRound, rested>>

\* The end of the loop, or the event Closed
FEvents ==
    /\ Events
    /\ UNCHANGED <<input, value, thrown, memory, polls>>

Rests == rested' = rested \cup (Objects \ enabled')

\* OnUpdate() may ask for the buttons as well.
FBegin ==
    /\ Begin /\ Rests
    /\ aRound' = (SimulatedDue /\ simulatedTimer >= Simulated
                              /\ simulatedTimer < Simulated + SimulatedInterval)
    /\ UNCHANGED <<input, thrown>> \/ \E b \in Buttons : I!GetButtonUp(b)
    /\ UNCHANGED <<value, before, pressed, cleared, served, polls>>

\* Toggle::Update(), and Button's with a callback in place of the value.  A change the
\* turn makes to a child's enabled comes before its update or after it.
ToggleUpdate(o) ==
    \/ /\ o \in Turners \cap enabled
       /\ ToggleOn \in enabled \cup enabled'
       /\ value' = IF Left \in input.buttonsPressed THEN ~value ELSE value
    \/ /\ o \notin Turners \cap enabled
          \/ (o # ToggleOn /\ ToggleOn \notin enabled \cap enabled')
       /\ UNCHANGED value

FUpdateSimulated ==
    /\ UpdateSimulated /\ Rests
    /\ LET o == gameObjectsSimulated[Wrapped(simulatedIT, gameObjectsSimulated) + 1]
       IN  ToggleUpdate(o) /\ served' = served \cup {o}
    /\ UNCHANGED <<input, thrown, before, pressed, cleared, aRound, polls>>

FUpdateEmulated ==
    /\ UpdateEmulated /\ Rests
    /\ ToggleUpdate(gameObjectsEmulated[Wrapped(emulatedIT, gameObjectsEmulated) + 1])
    /\ UNCHANGED <<input, thrown, before, pressed, cleared, served, aRound, polls>>

FRest ==
    /\ EndSimulated \/ Collide \/ TimeManager
    /\ UNCHANGED <<input, value, thrown, memory, polls>>

FrameNext ==
    /\ ~thrown
    /\ \/ FIterate \/ FRefresh \/ FEvents \/ FBegin
       \/ \E e \in I!Events : Poll(e)
       \/ FUpdateSimulated \/ FUpdateEmulated \/ FRest

FrameSpec == FrameInit /\ [][FrameNext]_frameVars

-----------------------------------------------------------------------------
(* Properties *)

FrameTypeOK ==
    /\ TypeOK
    /\ I!TypeOK
    /\ value \in BOOLEAN /\ before \in BOOLEAN
    /\ pressed \subseteq I!Events
    /\ cleared \in BOOLEAN /\ aRound \in BOOLEAN
    /\ served \subseteq Objects /\ rested \subseteq Objects
    /\ polls \in 0 .. MaxPolls

\* With the types, what FlagTellsList says: whatever is pressed, the scripts of a root
\* learn from simulated which list it is in, and those of an object in range below a
\* root in range that they are.
ListsAndFlags == FrameTypeOK /\ FlagTellsList

\* A button let go ends the program as long as buttonsReleased has no entries; but
\* no object has been updated until then: the timer that calls for the first
\* input._update() is as old as the one that first fills the lists.
ReleaseSafe == (\E o \in Roots : since[o] # Never) => input.entries = Buttons

PressedBy(type) == {e.code : e \in {p \in pressed : p.type = type}}

\* After a frame as long as simulatedTargetDeltaTime, what scripts see pressed was
\* pressed just now, whatever turns the frames before it left undone.
PressIsFresh ==
    (at \in {"update", "simulated", "emulated"} /\ deltaTime >= Simulated)
        => /\ input.keysPressed \subseteq PressedBy("KeyPressed")
           /\ input.buttonsPressed \subseteq PressedBy("MouseButtonPressed")

\* What is polled in a frame that began with input._update() is not lost on any
\* object in range: the same timer gives each of them a turn in that frame, before
\* the flags can be cleared again.
EventsReachAll == (at = "emulated" /\ cleared) => ToSet(gameObjectsSimulated) \subseteq served

\* The objects in range whose turns update the Toggle
Clicking == Turners \cap ToSet(gameObjectsSimulated)

\* In a frame with one turn for each object in range, a click turns a Toggle over just
\* once by these turns if its object is a root in range, or alone in range; but twice,
\* which is not at all, if its root is in range as well.  (The turns of those emulated
\* may do so again, if one of the two is among them.)
OneFlipPerClick ==
    (/\ aRound
     /\ ({ToggleOn} \cup Clicking) \cap rested = {}
     /\ \/ at = "simulated" /\ ~SimulatedDue
        \/ at = "emulated" /\ Turners \cap ToSet(gameObjectsEmulated) = {})
        => (value # before <=>
               Left \in PressedBy("MouseButtonPressed") /\ \E o \in Clicking : Clicking = {o})
=============================================================================
