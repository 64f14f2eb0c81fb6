------------------------------ MODULE Keyboards ------------------------------
(***************************************************************************)
(* Which keys the client with the keyboard focus believes to be down       *)
(* (src/main.c): several keyboards feed one seat, a binding consumes its   *)
(* press but never the release, and a surface that takes the focus is told *)
(* of the keys held on the seat's keyboard at that moment.                 *)
(*                                                                         *)
(* wlroots updates a keyboard's set of held keys before it calls           *)
(* keyboard_handle_key, and releases what is held on a keyboard that goes  *)
(* away.  Modifiers and key symbols are left out: a binding matches or not.*)
(***************************************************************************)
EXTENDS Quitting

CONSTANTS
  Keyboard,  \* identities of keyboards
  Key,
  Client     \* surfaces that may take the keyboard focus

ASSUME KeyboardAssumption == Nothing \notin Client \cup Keyboard

VARIABLES
  plugged,       \* the keyboards the compositor listens to
  keycodes,      \* wlr_keyboard->keycodes
  seatKeyboard,  \* the keyboard of the seat
  focus,         \* the surface with the keyboard focus
  pressed        \* the keys that surface was told are down

kvars == << plugged, keycodes, seatKeyboard, focus, pressed >>

-----------------------------------------------------------------------------

EnterWith(c, keys) ==
  /\ focus' = c
  /\ pressed' = IF c = focus THEN pressed ELSE IF c = Nothing THEN {} ELSE keys

(* wlr_seat_keyboard_notify_enter, or clear_focus; it does nothing for the *)
(* surface that has the focus.                                             *)
Enter(c) ==
  EnterWith(c, IF seatKeyboard' = Nothing THEN {} ELSE keycodes'[seatKeyboard'])

(* focus_toplevel and the callbacks that clear the focus, a click on a     *)
(* layer surface, the end of a surface                                     *)
FocusMoves(c) ==
  /\ UNCHANGED << plugged, keycodes, seatKeyboard, quitting >>
  /\ Enter(c)

(* server_new_input *)
Plug(k) ==
  /\ k \notin plugged
  /\ plugged' = plugged \cup {k}
  /\ seatKeyboard' = k
  /\ UNCHANGED << keycodes, focus, pressed, quitting >>

(* The release of every held key is dispatched before the keyboard goes.   *)
Unplug(k) ==
  /\ k \in plugged
  /\ plugged' = plugged \ {k}
  /\ keycodes' = [keycodes EXCEPT ![k] = {}]
  /\ pressed' = IF quitting THEN pressed ELSE pressed \ keycodes[k]
  /\ seatKeyboard' = IF seatKeyboard = k \/ (keycodes[k] # {} /\ ~quitting)
                     THEN Nothing ELSE seatKeyboard
  /\ UNCHANGED << focus, quitting >>

-----------------------------------------------------------------------------
(* keyboard_handle_key *)

(* Once the display is to be terminated keys are not looked at any more.   *)
Ignored ==
  quitting /\ UNCHANGED << plugged, seatKeyboard, focus, pressed, quitting >>

(* What try_bindings may do to the focus, or a binding that quits *)
Binding ==
  \/ \E c \in Client \cup {Nothing} : Enter(c) /\ quitting' = FALSE
  \/ RequestTerminate /\ UNCHANGED << focus, pressed >>

Forward(keys) ==
  /\ pressed' = IF focus = Nothing THEN {} ELSE keys
  /\ UNCHANGED << focus, quitting >>

KeyPress(k, x) ==
  /\ k \in plugged /\ x \notin keycodes[k]
  /\ keycodes' = [keycodes EXCEPT ![k] = @ \cup {x}]
  /\ \/ Ignored
     \/ /\ ~quitting
        /\ seatKeyboard' = k /\ UNCHANGED plugged
        /\ Binding \/ Forward(pressed \cup {x})

(* Mutant: a keyboard that is not the seat's any more is not listened to. *)
KeyReleaseOfSeat(k, x) ==
  /\ k \in plugged /\ x \in keycodes[k]
  /\ keycodes' = [keycodes EXCEPT ![k] = @ \ {x}]
  /\ \/ Ignored
     \/ /\ ~quitting
        /\ seatKeyboard' = k /\ UNCHANGED plugged
        /\ Forward(IF seatKeyboard = k THEN pressed \ {x} ELSE pressed)

KeyRelease(k, x) ==
  /\ k \in plugged /\ x \in keycodes[k]
  /\ keycodes' = [keycodes EXCEPT ![k] = @ \ {x}]
  /\ \/ Ignored
     \/ /\ ~quitting
        /\ seatKeyboard' = k /\ UNCHANGED plugged
        /\ Forward(pressed \ {x})

-----------------------------------------------------------------------------

KInit ==
  /\ plugged = {} /\ keycodes = [k \in Keyboard |-> {}] /\ seatKeyboard = Nothing
  /\ focus = Nothing /\ pressed = {}
  /\ quitting = FALSE

KNext ==
  \/ \E c \in Client \cup {Nothing} : FocusMoves(c)
  \/ \E k \in Keyboard :
        \/ Plug(k) \/ Unplug(k)
        \/ \E x \in Key : KeyPress(k, x) \/ KeyRelease(k, x)

KSpec == KInit /\ [][KNext]_<< kvars, quitting >>

-----------------------------------------------------------------------------
(* Properties *)

(* Every variable holds a value of its kind, and only plugged keyboards    *)
(* have keys down.                                                         *)
KTypeOK ==
  /\ plugged \in SUBSET Keyboard
  /\ keycodes \in [Keyboard -> SUBSET Key]
  /\ \A k \in Keyboard \ plugged : keycodes[k] = {}
  /\ seatKeyboard \in plugged \cup {Nothing}
  /\ focus \in Client \cup {Nothing}
  /\ pressed \in SUBSET Key
  /\ quitting \in BOOLEAN

(* No client is left with a key that nobody holds: presses that bindings   *)
(* consume, bindings that move the focus while their key is down, other    *)
(* keyboards and keyboards pulled out with keys down (keyboard_handle_key).*)
NoStuckKeys == quitting \/ \A x \in pressed : \E k \in plugged : x \in keycodes[k]
=============================================================================
