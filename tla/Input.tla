--------------------------------- MODULE Input ---------------------------------
(***************************************************************************)
(* Input (p2d.hpp:1002-1176): the state of the keys and of the mouse       *)
(* buttons, as scripts read it, and what the events of the window do to    *)
(* it.  Input calls nothing and is called by one thread, so its operations *)
(* are operators on one record; Frame.tla says who calls them and when.    *)
(*                                                                         *)
(* A map of flags is the set of those that are true.  The maps have all    *)
(* their entries from _setup() on, except buttonsReleased: _setup() fills  *)
(* buttonsPressed twice.  The pointer and the typed text are left out.     *)
(***************************************************************************)
EXTENDS FiniteSets

CONSTANTS Keys,    \* 0 .. KeyCount - 1
          Buttons, \* 0 .. ButtonCount - 1
          Unknown  \* sf::Keyboard::Unknown, -1: the code of a key SFML has no name for

\* entries are the entries of buttonsReleased.
Inputs == [keys : SUBSET Keys, keysPressed : SUBSET Keys, keysReleased : SUBSET Keys,
           buttons : SUBSET Buttons, buttonsPressed : SUBSET Buttons,
           buttonsReleased : SUBSET Buttons, entries : SUBSET Buttons]

\* _setup()
Setup == [keys |-> {}, keysPressed |-> {}, keysReleased |-> {},
          buttons |-> {}, buttonsPressed |-> {}, buttonsReleased |-> {}, entries |-> {}]

Events == [type : {"KeyPressed", "KeyReleased"}, code : Keys \cup {Unknown}]
          \cup [type : {"MouseButtonPressed", "MouseButtonReleased"}, code : Buttons]

-----------------------------------------------------------------------------
(* Faulty variants.  No specification uses them: each takes the place of the  *)
(* definition it is named after, to see that a property notices.              *)

\* a key that is pressed stays so until it is released
Cleared_KeepsPressed(in) ==
    [in EXCEPT !.keysReleased = {}, !.buttonsPressed = {}, !.buttonsReleased = {},
               !.entries = Buttons]

\* buttonsPressed twice, as in _setup()
Cleared_ButtonsPressedTwice(in) ==
    [in EXCEPT !.keysPressed = {}, !.keysReleased = {}, !.buttonsPressed = {}]

\* the buttons are forgotten
Cleared_KeysOnly(in) == [in EXCEPT !.keysPressed = {}, !.keysReleased = {}, !.entries = Buttons]

-----------------------------------------------------------------------------
\* _update(): operator[] makes the entries that are not there
Cleared(in) ==
    [in EXCEPT !.keysPressed = {}, !.keysReleased = {}, !.buttonsPressed = {},
               !.buttonsReleased = {}, !.entries = Buttons]

\* GetButtonUp(): operator[] again
Asked(in, b) == [in EXCEPT !.entries = @ \cup {b}]

\* at() throws out_of_range, and nothing catches it.
Throws(in, e) ==
    \/ e.code = Unknown
    \/ e.type = "MouseButtonReleased" /\ e.code \notin in.entries

\* _poll(): what it has done when it returns, or throws.  (In an event of the mouse,
\* event.key.code is the same word as event.mouseButton.button.)
Polled(in, e) ==
    IF e.code = Unknown THEN in
    ELSE CASE e.type = "KeyPressed"          -> [in EXCEPT !.keys = @ \cup {e.code},
                                                           !.keysPressed = @ \cup {e.code}]
           [] e.type = "KeyReleased"         -> [in EXCEPT !.keys = @ \ {e.code},
                                                           !.keysReleased = @ \cup {e.code}]
           [] e.type = "MouseButtonPressed"  -> [in EXCEPT !.buttons = @ \cup {e.code},
                                                           !.buttonsPressed = @ \cup {e.code}]
           [] e.type = "MouseButtonReleased" -> [in EXCEPT !.buttons = @ \ {e.code},
                                                           !.buttonsReleased = @ \cup ({e.code} \cap in.entries)]

-----------------------------------------------------------------------------
(* Its calls *)

VARIABLES input,
          thrown  \* an exception has left _poll()

Init == input = Setup /\ thrown = FALSE

Update == input' = Cleared(input) /\ UNCHANGED thrown

GetButtonUp(b) == input' = Asked(input, b) /\ UNCHANGED thrown

Poll(e) == input' = Polled(input, e) /\ thrown' = Throws(input, e)

\* What is held down
Down == [keys |-> input.keys, buttons |-> input.buttons]

-----------------------------------------------------------------------------
(* Properties *)

TypeOK == input \in Inputs /\ thrown \in BOOLEAN

\* Of what was down before and is down now, the flags tell what happened in between.
Told(before, now, pressed, released) ==
    /\ now \ before \subseteq pressed
    /\ before \ now \subseteq released
    /\ pressed \ now \subseteq released
    /\ released \cap now \subseteq pressed

\* Whoever looks can tell from the flags what has happened since the last _update(), when
\* held was down: that a key is no longer up, or no longer down, and also that it was
\* tapped, or let go for a moment, though nothing else is left of that.  (Of a tap that
\* an _update() cuts in two the flags that are left are those of the second half.)
TapsVisible(held) ==
    ~thrown =>
        /\ Told(held.keys, input.keys, input.keysPressed, input.keysReleased)
        /\ Told(held.buttons, input.buttons, input.buttonsPressed, input.buttonsReleased)
=============================================================================
