---------------------------- MODULE PointerInput ----------------------------
(***************************************************************************)
(* Which button presses and releases reach the seat, and so the clients    *)
(* (src/main.c): mouse buttons under interactive grabs, and the pointer    *)
(* that touch contacts and tablet pens emulate over surfaces that take no  *)
(* touch or tablet events.                                                 *)
(*                                                                         *)
(* What lies under the cursor is chosen at every event.  Motion, focus and *)
(* the placing of windows are in other modules; a grabbed window may       *)
(* disappear at any time.                                                  *)
(***************************************************************************)
EXTENDS FiniteSets

CONSTANTS
  Mouse,     \* pointer devices, all of which move the one cursor
  Finger,    \* touch contacts
  NoFinger

ASSUME NoFingerAssumption == NoFinger \notin Finger

VARIABLES
  grab,       \* server->grab
  swallow,    \* server->swallow_left_release
  held,       \* << mouse, button >> of the buttons physically down
  touching,   \* the fingers on the screen
  points,     \* the fingers whose down a client got as a touch event
  emulated,   \* touch_pointer_emu_id while touch_pointer_emu is set
  tip,        \* whether the pen is down, and how that was delivered
  penButton,  \* whether the pen's button is down
  down        \* << device, button >> the seat was last told are pressed

vars == << grab, swallow, held, touching, points, emulated, tip, penButton, down >>

mouse == << grab, swallow, held >>
touch == << touching, points, emulated >>
pen   == << tip, penButton >>

Button == {"left", "right"}
Device == {"mouse", "touch", "pen"}

(* wlr_seat_pointer_notify_button, with the kind of device it is for *)
NotifyPressed(device, button)  == down' = down \cup {<< device, button >>}
NotifyReleased(device, button) == down' = down \ {<< device, button >>}

-----------------------------------------------------------------------------
(* Grabs *)

BeginGrab(kind, swallowLeft) == grab' = kind /\ swallow' = swallowLeft

(* Mutant: begin_resize leaves the flag as it was. *)
RequestResizeStale ==
  BeginGrab("resize", swallow) /\ UNCHANGED << held, touch, pen, down >>

(* toplevel_request_move and toplevel_request_resize: no pressed button is *)
(* asked for.                                                              *)
RequestMove   == BeginGrab("move", FALSE)   /\ UNCHANGED << held, touch, pen, down >>
RequestResize == BeginGrab("resize", FALSE) /\ UNCHANGED << held, touch, pen, down >>

(* toplevel_unmap and toplevel_destroy of the grabbed window *)
GrabbedGone ==
  /\ grab # "none"
  /\ grab' = "none" /\ swallow' = FALSE
  /\ UNCHANGED << held, touch, pen, down >>

-----------------------------------------------------------------------------
(* Mouse buttons (server_cursor_button) *)

(* With Super over a window, or on a resize edge: the press is not         *)
(* forwarded.                                                              *)
GrabPress(m, kind) ==
  /\ << m, "left" >> \notin held
  /\ held' = held \cup {<< m, "left" >>}
  /\ BeginGrab(kind, TRUE)
  /\ UNCHANGED << touch, pen, down >>

Press(m, b) ==
  /\ << m, b >> \notin held
  /\ held' = held \cup {<< m, b >>}
  /\ NotifyPressed("mouse", b)
  /\ UNCHANGED << grab, swallow, touch, pen >>

(* Mutant: any release is swallowed while the flag is set. *)
ReleaseSwallowingAny(m, b) ==
  /\ << m, b >> \in held
  /\ held' = held \ {<< m, b >>}
  /\ grab' = "none"
  /\ IF grab # "none" /\ swallow
     THEN swallow' = FALSE /\ UNCHANGED down
     ELSE NotifyReleased("mouse", b) /\ UNCHANGED swallow
  /\ UNCHANGED << touch, pen >>

(* Any button's release ends a grab. *)
Release(m, b) ==
  /\ << m, b >> \in held
  /\ held' = held \ {<< m, b >>}
  /\ grab' = "none"
  /\ IF grab # "none" /\ b = "left" /\ swallow
     THEN swallow' = FALSE /\ UNCHANGED down
     ELSE NotifyReleased("mouse", b) /\ UNCHANGED swallow
  /\ UNCHANGED << touch, pen >>

-----------------------------------------------------------------------------
(* Touch *)

(* server_cursor_touch_down over a surface that accepts touch *)
TouchDownNative(f) ==
  /\ f \notin touching
  /\ touching' = touching \cup {f}
  /\ points' = points \cup {f}
  /\ emulated' = NoFinger
  /\ UNCHANGED << mouse, pen, down >>

(* server_cursor_touch_down elsewhere *)
TouchDownEmulated(f) ==
  /\ f \notin touching
  /\ touching' = touching \cup {f}
  /\ IF grab = "none" THEN emulated' = f /\ NotifyPressed("touch", "left")
                      ELSE UNCHANGED << emulated, down >>
  /\ UNCHANGED << points, mouse, pen >>

EndEmulation ==
  /\ emulated' = NoFinger
  /\ IF grab = "none" THEN NotifyReleased("touch", "left") ELSE UNCHANGED down

(* server_cursor_touch_up *)
TouchUp(f) ==
  /\ f \in touching
  /\ touching' = touching \ {f}
  /\ IF f = emulated THEN EndEmulation /\ UNCHANGED points
                     ELSE points' = points \ {f} /\ UNCHANGED << emulated, down >>
  /\ UNCHANGED << mouse, pen >>

(* The seat cancels all the touch points of the client it tells. *)
CancelPoints(f) ==
  IF f \in points THEN \E gone \in SUBSET points : f \in gone /\ points' = points \ gone
                  ELSE UNCHANGED points

(* Mutant: only the touch client hears of a cancelled contact. *)
TouchCancelNativeOnly(f) ==
  /\ f \in touching
  /\ touching' = touching \ {f}
  /\ CancelPoints(f)
  /\ UNCHANGED << emulated, down, mouse, pen >>

(* server_cursor_touch_cancel *)
TouchCancel(f) ==
  /\ f \in touching
  /\ touching' = touching \ {f}
  /\ IF f = emulated THEN EndEmulation /\ UNCHANGED points
                     ELSE CancelPoints(f) /\ UNCHANGED << emulated, down >>
  /\ UNCHANGED << mouse, pen >>

-----------------------------------------------------------------------------
(* Pen *)

(* server_cursor_tablet_tool_tip, pen down; accepts says whether a surface *)
(* under it takes tablet events *)
TipDown(accepts) ==
  /\ tip = "up"
  /\ IF accepts THEN tip' = "native" /\ UNCHANGED down
                ELSE tip' = "emulated" /\ NotifyPressed("pen", "left")
  /\ UNCHANGED << penButton, mouse, touch >>

TipUp ==
  /\ tip # "up"
  /\ tip' = "up"
  /\ IF tip = "emulated" THEN NotifyReleased("pen", "left") ELSE UNCHANGED down
  /\ UNCHANGED << penButton, mouse, touch >>

(* server_cursor_tablet_tool_button *)
TabletButton(accepts) ==
  /\ penButton' = ~penButton
  /\ IF accepts THEN UNCHANGED down
     ELSE IF penButton' THEN NotifyPressed("pen", "right") ELSE NotifyReleased("pen", "right")
  /\ UNCHANGED << tip, mouse, touch >>

-----------------------------------------------------------------------------

Init ==
  /\ grab = "none" /\ swallow = FALSE
  /\ held = {}
  /\ touching = {} /\ points = {} /\ emulated = NoFinger
  /\ tip = "up" /\ penButton = FALSE
  /\ down = {}

GrabStep ==
  \/ RequestMove \/ RequestResize \/ GrabbedGone
  \/ \E m \in Mouse, kind \in {"move", "resize"} : GrabPress(m, kind)

MouseStep ==
  \E m \in Mouse, b \in Button : Press(m, b) \/ Release(m, b)

TouchStep ==
  \E f \in Finger : TouchDownNative(f) \/ TouchDownEmulated(f) \/ TouchUp(f) \/ TouchCancel(f)

PenStep ==
  \E accepts \in BOOLEAN : TipDown(accepts) \/ TipUp \/ TabletButton(accepts)

Next == GrabStep \/ MouseStep \/ TouchStep \/ PenStep

Spec == Init /\ [][Next]_vars

-----------------------------------------------------------------------------
(* Properties *)

(* Every variable holds a value of its kind. *)
TypeOK ==
  /\ grab \in {"none", "move", "resize"} /\ swallow \in BOOLEAN
  /\ held \subseteq Mouse \X Button
  /\ touching \subseteq Finger /\ points \subseteq Finger
  /\ emulated \in Finger \cup {NoFinger}
  /\ tip \in {"up", "native", "emulated"} /\ penButton \in BOOLEAN
  /\ down \subseteq Device \X Button

(* No client is left with a pressed mouse button that nobody holds, or     *)
(* with a pen pressed that was lifted, however grabs begin, change hands   *)
(* or vanish between a press and its release (server_cursor_button,        *)
(* server_cursor_tablet_tool_tip).                                         *)
PressesEnd ==
  /\ \A b \in Button : << "mouse", b >> \in down => \E m \in Mouse : << m, b >> \in held
  /\ << "pen", "left" >> \in down => tip = "emulated"

(* A drag whose release is to be swallowed is one that somebody holds: the *)
(* flag never outlives its press into a later grab, where it would eat the *)
(* release of another press.                                               *)
DragIsHeld ==
  grab # "none" /\ swallow => \E m \in Mouse : << m, "left" >> \in held

(* The contact that emulates the pointer is on the screen, was pressed for *)
(* and is nobody's touch point; and every touch point a client was given   *)
(* is a contact still on the screen, whose end that client will be told.   *)
TouchOwned ==
  /\ emulated # NoFinger => /\ emulated \in touching \ points
                            /\ << "touch", "left" >> \in down
  /\ points \subseteq touching

-----------------------------------------------------------------------------
(* What a comment says and the code does not do *)

(* "Release emulated pointer press or forward touch up": when every finger *)
(* is lifted, no press of theirs is left (server_cursor_touch_up).         *)
TouchPressEnds == touching = {} => << "touch", "left" >> \notin down
=============================================================================
