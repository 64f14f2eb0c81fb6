-------------------------- MODULE PointerConstraint --------------------------
(***************************************************************************)
(* Pointer locks and confinements (src/main.c): which constraint is active *)
(* as the pointer focus moves, what deactivating one does, and when mouse  *)
(* motion moves the cursor.                                                *)
(*                                                                         *)
(* A surface has at most one constraint on the seat (a second is a         *)
(* protocol error), so a constraint is named by its surface.  Deactivating *)
(* a oneshot constraint makes wlroots destroy it, which calls back         *)
(* pointer_constraint_handle_destroy inside cursor_constrain: the          *)
(* functions are operators from a record of the state they read and write  *)
(* to such a record, as in module Toplevels.                               *)
(***************************************************************************)
EXTENDS Quitting

CONSTANT Surface

ASSUME SurfaceAssumption == Nothing \notin Surface

VARIABLES
  under,     \* the surface under the cursor
  pointed,   \* the seat's pointer focus
  kind,      \* the constraint each surface has
  active,    \* server->active_pointer_constraint
  watched,   \* the surface whose commits pointer_constraint_commit hears
  warp,      \* server->pointer_confine_requires_warp
  confine,   \* whose region is in server->pointer_confine, if it is not empty
  resizing,  \* server->grab = COMP_GRAB_RESIZE
  freedTwice \* history: wlroots was made to destroy a constraint twice

pvars == << under, pointed, kind, active, watched, warp, confine, resizing, freedTwice >>

Kind    == {"none", "lock", "confine", "lock once", "confine once"}
Oneshot == {"lock once", "confine once"}
Confines == {"confine", "confine once"}

(* The state that cursor_constrain and what it calls work on.              *)
State == [kind |-> kind, active |-> active, watched |-> watched, warp |-> warp,
          confine |-> confine, freedTwice |-> freedTwice]

Becomes(s) ==
  /\ kind' = s.kind /\ active' = s.active /\ watched' = s.watched
  /\ warp' = s.warp /\ confine' = s.confine /\ freedTwice' = s.freedTwice

-----------------------------------------------------------------------------

(* pointer_constraint_check_region, with surface u under the cursor: a     *)
(* warp that is due over no surface ends it early.                         *)
CheckRegion(s, u) ==
  IF s.active = Nothing THEN s
  ELSE IF s.warp /\ u = Nothing THEN [s EXCEPT !.warp = FALSE]
  ELSE [s EXCEPT !.warp = FALSE,
                 !.confine = IF s.kind[s.active] \in Confines THEN s.active ELSE Nothing]

(* cursor_constrain(NULL) from the destroy callback: the deactivation that *)
(* it sends destroys a oneshot constraint for a second time.               *)
DestroyCallback(s, c) ==
  IF s.active # c THEN s
  ELSE [s EXCEPT !.watched = Nothing, !.active = Nothing,
                 !.freedTwice = @ \/ s.kind[c] \in Oneshot]

DestroyConstraint(s, c) == [DestroyCallback(s, c) EXCEPT !.kind[c] = "none"]

(* wlr_pointer_constraint_v1_send_deactivated *)
SendDeactivated(s, c) ==
  IF c # Nothing /\ s.kind[c] \in Oneshot THEN DestroyConstraint(s, c) ELSE s

(* Mutant: the listener stays on the surface of the previous constraint.   *)
CursorConstrainListening(s, c, u) ==
  LET off == SendDeactivated(s, s.active)
      on  == [off EXCEPT !.active = c, !.warp = TRUE]
  IN  IF s.active = c THEN s
      ELSE IF c = Nothing THEN [off EXCEPT !.active = Nothing]
      ELSE [CheckRegion(on, u) EXCEPT !.watched = IF s.watched = Nothing THEN c ELSE @]

(* cursor_constrain *)
CursorConstrain(s, c, u) ==
  LET off == SendDeactivated([s EXCEPT !.watched = Nothing], s.active)
      on  == [off EXCEPT !.active = c, !.warp = TRUE]
  IN  IF s.active = c THEN s
      ELSE IF c = Nothing THEN [off EXCEPT !.active = Nothing]
      ELSE [CheckRegion(on, u) EXCEPT !.watched = c]

(* wlr_pointer_constraints_v1_constraint_for_surface *)
ConstraintFor(s, surface) ==
  IF surface # Nothing /\ s.kind[surface] # "none" THEN surface ELSE Nothing

(* The seat's pointer focus becomes p; seat_pointer_focus_change hears of  *)
(* changes only, and of none once the display is to be terminated.         *)
FocusChange(s, p, u) ==
  IF p = pointed \/ quitting THEN s ELSE CursorConstrain(s, ConstraintFor(s, p), u)

Point(p) == pointed' = p /\ Becomes(FocusChange(State, p, under'))

-----------------------------------------------------------------------------
(* The cursor *)

(* Windows move, open and close under a cursor that stays.                 *)
SceneChanges(u) ==
  /\ under' = u
  /\ UNCHANGED << pointed, kind, active, watched, warp, confine, resizing, freedTwice, quitting >>

(* apply_pointer_motion: with a constraint a mouse moves the cursor only   *)
(* over its surface, and under a lock not at all.                          *)
Moves(u) ==
  \/ active = Nothing /\ under' = u
  \/ active # Nothing /\ under' = IF active = under /\ confine # Nothing THEN u ELSE under

(* process_cursor_motion: over no surface the focus is kept in a hole of a *)
(* window, and cleared elsewhere.                                          *)
Refocus ==
  IF resizing THEN Point(Nothing)
  ELSE IF under' # Nothing THEN Point(under')
  ELSE Point(pointed) \/ Point(Nothing)

(* server_cursor_motion; touch contacts and pens warp the cursor anywhere. *)
Motion(u) ==
  /\ ~quitting
  /\ Moves(u)
  /\ Refocus
  /\ UNCHANGED << resizing, quitting >>

Warp(u) ==
  /\ ~quitting
  /\ under' = u
  /\ Refocus
  /\ UNCHANGED << resizing, quitting >>

(* A resize begins, or a grab ends. *)
ResizeGrab ==
  /\ resizing' = ~resizing
  /\ UNCHANGED << under, pointed, kind, active, watched, warp, confine, freedTwice, quitting >>

-----------------------------------------------------------------------------
(* Clients *)

(* handle_new_pointer_constraint *)
NewConstraint(s, k) ==
  /\ kind[s] = "none" /\ k # "none"
  /\ UNCHANGED << under, pointed, resizing, quitting >>
  /\ LET made == [State EXCEPT !.kind[s] = k]
     IN  Becomes(IF ~quitting /\ pointed = s /\ under # Nothing
                 THEN CursorConstrain(made, s, under) ELSE made)

(* The client destroys its constraint. *)
ConstraintGone(s) ==
  /\ kind[s] # "none"
  /\ UNCHANGED << under, pointed, resizing, quitting >>
  /\ Becomes(DestroyConstraint(State, s))

(* The surface goes away: its constraint with it, and the seat's focus.    *)
SurfaceGone(s) ==
  /\ s \in {under, pointed} \/ kind[s] # "none"
  /\ under' = IF under = s THEN Nothing ELSE under
  /\ pointed' = IF pointed = s THEN Nothing ELSE pointed
  /\ Becomes(FocusChange(DestroyConstraint(State, s), pointed', under'))
  /\ UNCHANGED << resizing, quitting >>

(* pointer_constraint_handle_set_region and pointer_constraint_handle_commit *)
SurfaceCommit(s, setsRegion) ==
  /\ setsRegion => kind[s] # "none"
  /\ UNCHANGED << under, pointed, resizing, quitting >>
  /\ LET set == [State EXCEPT !.warp = @ \/ setsRegion]
     IN  Becomes(IF watched = s THEN CheckRegion(set, under) ELSE set)

-----------------------------------------------------------------------------

PInit ==
  /\ under = Nothing /\ pointed = Nothing
  /\ kind = [s \in Surface |-> "none"]
  /\ active = Nothing /\ watched = Nothing /\ warp = FALSE /\ confine = Nothing
  /\ resizing = FALSE /\ freedTwice = FALSE
  /\ quitting = FALSE

PNext ==
  \/ \E u \in Surface \cup {Nothing} : SceneChanges(u) \/ Motion(u) \/ Warp(u)
  \/ ResizeGrab
  \/ \E s \in Surface :
        \/ \E k \in Kind : NewConstraint(s, k)
        \/ ConstraintGone(s) \/ SurfaceGone(s)
        \/ \E setsRegion \in BOOLEAN : SurfaceCommit(s, setsRegion)

(* What happens after a constraint was freed twice is not defined. *)
PSpec == PInit /\ [][~freedTwice /\ PNext]_<< pvars, quitting >>

-----------------------------------------------------------------------------
(* Properties *)

(* Every variable holds a value of its kind. *)
PTypeOK ==
  /\ {under, pointed, active, watched, confine} \subseteq Surface \cup {Nothing}
  /\ kind \in [Surface -> Kind]
  /\ {warp, resizing, freedTwice, quitting} \subseteq BOOLEAN

(* The active constraint exists and is the pointer-focused surface's, the  *)
(* listener is on that surface, and a confinement uses that constraint's   *)
(* region: through focus changes, oneshot deactivations that call back     *)
(* into cursor_constrain, and surfaces that disappear.                     *)
ActiveIsPointed ==
  ~quitting =>
    /\ watched = active
    /\ active # Nothing =>
         /\ active = pointed /\ kind[active] # "none"
         /\ confine = IF kind[active] \in Confines THEN active ELSE Nothing

-----------------------------------------------------------------------------
(* What a comment says and the code does not do *)

(* "Constraint destroy callback: detach listeners and deactivate if        *)
(* currently active": a constraint is destroyed once.                      *)
DestroyedOnce == ~freedTwice
=============================================================================
