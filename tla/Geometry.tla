------------------------------ MODULE Geometry ------------------------------
(***************************************************************************)
(* Where one window is on the screen: arranged into cells, eased there     *)
(* frame by frame, dragged, maximized and put back (src/main.c).  The      *)
(* other windows are the environment: an arrangement may give this one any *)
(* cell, another window's move suppresses arranging.                       *)
(*                                                                         *)
(* Positions are points 0 .. Far of a line.  A frame of the animation      *)
(* brings the window nearer by at least one point, so a point is what the  *)
(* slowest frame covers, and layout_anim_epsilon is less than that.        *)
(* "tile" is any layout that arranges, as in module Desktop; a window that *)
(* floats behaves as in "stack".                                           *)
(***************************************************************************)
EXTENDS Integers, Sequences

CONSTANTS
  Far,         \* the last point
  Cells,       \* points an arrangement may put the window at
  Origin,      \* where a maximized window stands: the corner of the workarea
  SentBound,   \* configures a client leaves unanswered
  NoRestore    \* has_restore = false

Point == 0 .. Far

ASSUME PointAssumption ==
  /\ Far \in Nat \ {0} /\ Cells \subseteq Point /\ Origin \in Point
  /\ NoRestore \notin Point /\ SentBound \in Nat \ {0}

VARIABLES
  layout,     \* server->layout
  easing,     \* config->layout_anim_enabled
  here,       \* the window is on the current workspace
  node,       \* scene_tree->node.x
  target,     \* layout_tgt_x
  anim,       \* layout_anim_x
  tracked,    \* layout_anim_tracked
  ticking,    \* layout_anim_last_ns # 0
  frame,      \* of the primary output: "none" will come, one is "due" after the
              \* last commit, or one will commit because it is "needed"
  grab,       \* "mine" while this window is moved, "other" while another one
              \* is, "taken" if that one took over the move of this window
  requested,  \* xdg_toplevel->requested.maximized
  sent,       \* maximized states sent and not acknowledged, oldest first
  current,    \* xdg_toplevel->current.maximized
  restore,    \* restore_x, or NoRestore
  before      \* history: where the window was when it was asked to be maximized

place   == << node, target, anim, tracked >>
maximal == << requested, sent, current, restore, before >>
scene   == << layout, easing, here, ticking >>
vars    == << scene, place, frame, grab, maximal >>

Arranging == layout = "tile" /\ here

-----------------------------------------------------------------------------
(* Placing the window *)

(* Damage and wlr_output_schedule_frame both make a frame needed. *)
Needs(moved) == frame' = IF moved THEN "needed" ELSE frame

(* wlr_scene_node_set_position on an enabled node damages the output.      *)
PutAt(p) == node' = p /\ Needs(here /\ node # p)

Jump(c) == target' = c /\ anim' = c /\ tracked' = TRUE /\ PutAt(c)

(* Mutant: no frame is scheduled for the animation. *)
EaseUnkicked(c) ==
  target' = c /\ UNCHANGED << node, anim, tracked, frame >>

(* layout_anim_kick_outputs looks at anim, not at the node. *)
Ease(c) ==
  /\ target' = c
  /\ UNCHANGED << node, anim, tracked >>
  /\ Needs(anim # c /\ grab # "mine")

(* server_arrange_toplevels with layout_anim_kick_outputs, for this window *)
Arrange(c) == IF easing /\ tracked THEN Ease(c) ELSE Jump(c)

(* Some callback arranges; it is not put off by a move.                    *)
Rearranged(c) ==
  /\ Arranging
  /\ Arrange(c)
  /\ UNCHANGED << scene, grab, maximal >>

-----------------------------------------------------------------------------
(* Frames of the primary output.  primary_wlr_output follows the cursor;   *)
(* the model has one output, as if the cursor stayed there.                *)

Nearer(p) == IF anim < target THEN p \in anim + 1 .. target ELSE p \in target .. anim - 1

(* layout_anim_tick moves the window and asks for another frame.           *)
TickMoves == /\ layout = "tile" /\ easing /\ ticking /\ tracked /\ here /\ grab # "mine"
             /\ (anim # target \/ node # target)

TickTo(p) ==
  /\ IF anim = target THEN p = target ELSE Nearer(p)
  /\ anim' = p /\ node' = p

(* The first tick after a stack layout only starts the clock.              *)
StartsClock == layout = "tile" /\ easing

(* What a commit leaves: a frame event for the page flip, needed already   *)
(* if layer_shell_arrange found the window on its way.                     *)
AfterCommit ==
  IF Arranging /\ grab = "none" /\ easing /\ tracked /\ anim' # target
  THEN "needed" ELSE "due"

(* output_frame.  A tick that moves the window repaints and asks for the   *)
(* next frame; without one, and with nothing to repaint, frames stop.      *)
PrimaryFrame ==
  /\ frame # "none"
  /\ ticking' = (ticking \/ StartsClock)
  /\ \/ /\ TickMoves
        /\ \E p \in Point : TickTo(p)
        /\ frame' = "needed"
     \/ /\ ~TickMoves
        /\ UNCHANGED << node, anim >>
        /\ frame' = IF frame = "needed" THEN AfterCommit ELSE "none"
  /\ UNCHANGED << layout, easing, here, target, tracked, grab, maximal >>

(* Something else on the output changes. *)
OtherDamage ==
  /\ frame' = "needed"
  /\ UNCHANGED << scene, place, grab, maximal >>

-----------------------------------------------------------------------------
(* Layouts, workspaces, reloads *)

(* server_set_layout *)
ToStack ==
  /\ layout = "tile" /\ layout' = "stack"
  /\ tracked' = FALSE /\ ticking' = FALSE
  /\ UNCHANGED << easing, here, node, target, anim, frame, grab, maximal >>

ToTile(c) ==
  /\ layout = "stack" /\ layout' = "tile"
  /\ IF here THEN Arrange(c) ELSE UNCHANGED << place, frame >>
  /\ UNCHANGED << easing, here, ticking, grab, maximal >>

(* server_workspace_go: nothing is tracked any more, and the layout is     *)
(* arranged unless a window is being moved.                                *)
Leave ==
  /\ here /\ here' = FALSE
  /\ tracked' = FALSE
  /\ frame' = "needed"
  /\ UNCHANGED << layout, easing, ticking, node, target, anim, grab, maximal >>

Return(c) ==
  /\ ~here /\ here' = TRUE
  /\ frame' = "needed"
  /\ IF layout = "tile" /\ grab = "none"
     THEN target' = c /\ anim' = c /\ node' = c /\ tracked' = TRUE
     ELSE tracked' = FALSE /\ UNCHANGED << node, target, anim >>
  /\ UNCHANGED << layout, easing, ticking, grab, maximal >>

(* server_reload_config with the animation on or off: the new              *)
(* configuration is in force when the layout is arranged.                  *)
Reload(on, c) ==
  /\ easing' = on
  /\ IF ~Arranging
     THEN UNCHANGED << place, frame >>
     ELSE IF on /\ tracked THEN Ease(c) ELSE Jump(c)
  /\ UNCHANGED << layout, here, ticking, grab, maximal >>

-----------------------------------------------------------------------------
(* Dragging *)

(* begin_move asks nothing of the grab: a client's request for a move      *)
(* takes over a drag that is still going on.                               *)
BeginMove(who) ==
  /\ who = "mine" => here
  /\ grab' = IF who = "other" /\ grab \in {"mine", "taken"} THEN "taken" ELSE who
  /\ UNCHANGED << scene, place, frame, maximal >>

Drag(p) ==
  /\ grab = "mine"
  /\ PutAt(p)
  /\ UNCHANGED << scene, target, anim, tracked, grab, maximal >>

(* Mutant: the animation starts from where it was before the drag. *)
ReleaseForgetting(c) ==
  /\ grab # "none" /\ grab' = "none"
  /\ IF Arranging THEN Arrange(c) ELSE UNCHANGED << place, frame >>
  /\ UNCHANGED << scene, maximal >>

(* The release of a button ends a move: the animation of the dragged       *)
(* window goes on from where it was dropped, and the layout is arranged.   *)
Release(c) ==
  /\ grab # "none" /\ grab' = "none"
  /\ IF Arranging
     THEN IF grab = "mine" /\ tracked
          THEN /\ target' = c /\ UNCHANGED tracked
               /\ IF easing
                  THEN anim' = node /\ UNCHANGED node /\ Needs(node # c)
                  ELSE anim' = c /\ PutAt(c)
          ELSE Arrange(c)
     ELSE UNCHANGED << place, frame >>
  /\ UNCHANGED << scene, maximal >>

-----------------------------------------------------------------------------
(* Maximizing *)

(* Nothing makes a client wait for an answer before it asks again. *)
Asks == Len(sent) < SentBound

(* toplevel_apply_requested_maximize: whether the window was maximized is  *)
(* read from what the client acknowledged.                                 *)
Maximize ==
  /\ Asks
  /\ requested' = TRUE /\ sent' = Append(sent, TRUE)
  /\ restore' = IF current THEN restore ELSE node
  /\ before' = IF requested THEN before ELSE node
  /\ IF layout = "stack" THEN PutAt(Origin) ELSE UNCHANGED << node, frame >>
  /\ UNCHANGED << scene, target, anim, tracked, grab, current >>

Unmaximize ==
  /\ Asks
  /\ requested' = FALSE /\ sent' = Append(sent, FALSE)
  /\ IF layout = "stack" /\ restore # NoRestore
     THEN PutAt(restore) ELSE UNCHANGED << node, frame >>
  /\ UNCHANGED << scene, target, anim, tracked, grab, current, restore, before >>

(* The client acknowledges a configure, and with it all earlier ones, and  *)
(* commits a buffer for it.                                                *)
AckAndCommit ==
  /\ \E n \in DOMAIN sent :
        /\ current' = sent[n]
        /\ sent' = SubSeq(sent, n + 1, Len(sent))
  /\ Needs(here)
  /\ UNCHANGED << scene, place, grab, requested, restore, before >>

-----------------------------------------------------------------------------

Init ==
  /\ layout \in {"stack", "tile"} /\ easing \in BOOLEAN /\ here = TRUE
  /\ node \in Point /\ target = node /\ anim = node /\ tracked = FALSE
  /\ ticking = FALSE /\ frame = "needed" /\ grab = "none"
  /\ requested = FALSE /\ sent = <<>> /\ current = FALSE
  /\ restore = NoRestore /\ before = node

WindowStep == Maximize \/ Unmaximize \/ AckAndCommit

UserStep ==
  \/ \E c \in Cells :
        \/ Rearranged(c) \/ ToTile(c) \/ Return(c) \/ Release(c)
        \/ \E on \in BOOLEAN : Reload(on, c)
  \/ ToStack \/ Leave
  \/ \E who \in {"mine", "other"} : BeginMove(who)
  \/ \E p \in Point : Drag(p)

Next == WindowStep \/ UserStep \/ PrimaryFrame \/ OtherDamage

Spec == Init /\ [][Next]_vars

(* Frames come when they were scheduled or there is damage.                *)
FrameSpec == Spec /\ WF_vars(PrimaryFrame)

-----------------------------------------------------------------------------
(* Properties *)

(* Every variable holds a value of its kind. *)
TypeOK ==
  /\ layout \in {"stack", "tile"} /\ easing \in BOOLEAN /\ here \in BOOLEAN
  /\ node \in Point /\ target \in Point /\ anim \in Point /\ tracked \in BOOLEAN
  /\ ticking \in BOOLEAN /\ frame \in {"none", "due", "needed"}
  /\ grab \in {"none", "mine", "other", "taken"}
  /\ requested \in BOOLEAN /\ sent \in Seq(BOOLEAN) /\ current \in BOOLEAN
  /\ restore \in Point \cup {NoRestore} /\ before \in Point

(* The scene node of a window that nobody drags is not where its animation *)
(* is.  layout_anim_kick_outputs looks at the animation, so such a window  *)
(* may wait in the wrong place until a frame comes for another reason.     *)
Astray == tracked /\ grab # "mine" /\ node # anim

(* The one way there is a move request that takes this window's drag over: *)
(* no button is released for it, so its animation is not taken along       *)
(* (begin_move, server_cursor_button).                                     *)
AstrayByTakeover ==
  [][~Astray /\ Astray' => grab = "mine" /\ grab' = "taken"]_vars

(* The animation has the window, and nobody else does. *)
OnItsWay == Arranging /\ easing /\ tracked /\ grab \in {"none", "other"} /\ ~Astray

(* A window short of its cell has a frame coming that will move it: one    *)
(* that repaints, or one whose tick has its clock started.  So the frames  *)
(* do not run out, however layouts, workspaces, reloads and drags follow   *)
(* one another, unless the window's drag was taken over                    *)
(* (layout_anim_kick_outputs, output_commit).                              *)
FrameComes ==
  OnItsWay /\ node # target => frame = "needed" \/ (frame = "due" /\ ticking)

Easing(c) == OnItsWay /\ target = c

(* A window that was given a cell gets there, unless it is given another   *)
(* one, dragged, or the layout stops arranging it: dragging and dropping   *)
(* it, moving others and switching layouts never leave it stranded on its  *)
(* way.  A request that takes its drag over does, and is excepted with     *)
(* Astray (layout_anim_tick, output_frame).                                *)
Settles == \A c \in Cells : Easing(c) ~> (Easing(c) => node = c)

(* Putting a maximized window back in the stack layout returns it to where *)
(* it was when it was maximized: toplevel_apply_requested_maximize says it *)
(* captures the geometry from before once, to restore it verbatim.         *)
UnmaximizeRestores ==
  [][requested /\ ~requested' /\ layout = "stack" => node' = before]_vars
=============================================================================
