------------------------------ MODULE Desktop ------------------------------
(***************************************************************************)
(* Layouts and stacking order on top of the window core: every callback of *)
(* module Toplevels with what it also does to the scene, namely which node *)
(* it raises and whether it calls server_arrange_toplevels.  So Desktop's  *)
(* steps are Toplevels' steps, or leave Toplevels' variables alone.        *)
(*                                                                         *)
(* Tile and scroll are one layout here, "tile": they arrange, suppress and *)
(* raise alike.  Where each cell is belongs to TileGrid and ScrollStrip,   *)
(* the way a window travels there and its size to Geometry; this module    *)
(* keeps whether the windows stand as the last arrangement says and        *)
(* whether that arrangement is of the windows there are now.               *)
(***************************************************************************)
EXTENDS Toplevels

VARIABLES
  layout,  \* server->layout; "tile" is any layout that arranges
  floats,  \* windows whose tile_float is set
  order,   \* the scene's window nodes, bottom to top
  stale    \* a tiled window is not where an arrangement of them all puts it

desk  == << layout, floats, order, stale >>
dvars == << vars, desk >>

(* tile_sorted_views: what an arrangement lays out *)
Tiled == OnWorkspace(Server, current) \ (minimized \cup floats)

(* A layout of free windows, or a window that is free in any layout. *)
Free(w) == layout = "stack" \/ w \in floats

-----------------------------------------------------------------------------
(* What a callback does beside its step in Toplevels *)

Raise(seq, w) == Append(Unlink(seq, w), w)

(* focus_toplevel raises a free window, and only when the focus changes.   *)
FocusRaises ==
  order' = IF focused' \notin {focused, Nobody} /\ Free(focused')
           THEN Raise(order, focused')
           ELSE order

(* The callback arranges if "called" holds; if not, the windows stand as   *)
(* before, which is wrong if they are not the same windows any more.       *)
(* There is an output, and panels leave room on it: without, the function  *)
(* returns early and nothing is seen of where the windows are.             *)
ArrangesIf(called) == stale' = (layout' = "tile" /\ ~called /\ (stale \/ Tiled' # Tiled))

NotMoving == grab' # "move"

(* The focus may change, nothing is arranged. *)
FocusOnly == UNCHANGED << layout, floats >> /\ FocusRaises /\ ArrangesIf(FALSE)

(* The arrangement most callbacks make: not while a window is being moved. *)
FocusAndLayOut(called) ==
  UNCHANGED << layout, floats >> /\ FocusRaises /\ ArrangesIf(called /\ NotMoving)

SceneUntouched == UNCHANGED desk

-----------------------------------------------------------------------------
(* Callbacks of a client's windows *)

DeskNew(w) ==
  /\ NewToplevel(w)
  /\ order' = Append(order, w)
  /\ UNCHANGED << layout, floats, stale >>

DeskMap(w, float) ==
  /\ Map(w)
  /\ floats' = IF float THEN floats \cup {w} ELSE floats \ {w}
  /\ order'  = IF layout = "stack" \/ float THEN Raise(order, w) ELSE order
  /\ UNCHANGED layout
  /\ ArrangesIf(TRUE)

(* Mutant: the arrangement is skipped although the drag ended with its     *)
(* window (the test reads the grab before it is cleared).                  *)
DeskUnmapTestingEarly(w) ==
  Unmap(w) /\ UNCHANGED << layout, floats, order >> /\ ArrangesIf(grab # "move")

DeskUnmap(w) ==
  Unmap(w) /\ UNCHANGED << layout, floats, order >> /\ ArrangesIf(NotMoving)

(* Mutant: the float flag outlives its window. *)
DeskDestroyKeepingFloat(w) ==
  /\ Destroy(w)
  /\ order' = Unlink(order, w)
  /\ UNCHANGED << layout, floats >>
  /\ ArrangesIf(NotMoving)

DeskDestroy(w) ==
  /\ Destroy(w)
  /\ order' = Unlink(order, w)
  /\ floats' = floats \ {w}
  /\ UNCHANGED layout
  /\ ArrangesIf(NotMoving)

(* Mutant: only the focused window's new title arranges. *)
TitleChangedIfFocused(w, float) ==
  /\ MetadataChanged(w)
  /\ floats' = IF float THEN floats \cup {w} ELSE floats \ {w}
  /\ UNCHANGED << layout, order >>
  /\ ArrangesIf(w = focused)

(* The rules are looked up again under the new title or app_id. *)
TitleChanged(w, float) ==
  /\ MetadataChanged(w)
  /\ floats' = IF float THEN floats \cup {w} ELSE floats \ {w}
  /\ UNCHANGED << layout, order >>
  /\ ArrangesIf(w \in mapped)

DeskResize(w) == Free(w) /\ RequestResize(w) /\ FocusOnly

(* A switch of workspace raises the window it picks before the asked one.  *)
DeskActivate(w) ==
  LET pick  == IF workspace[w] # current THEN Go(Server, workspace[w]).focused ELSE focused
      first == IF pick \notin {focused, Nobody} /\ Free(pick) THEN Raise(order, pick) ELSE order
  IN  /\ ForeignActivate(w)
      /\ order' = IF pick # w /\ Free(w) THEN Raise(first, w) ELSE first
      /\ UNCHANGED << layout, floats >>
      /\ ArrangesIf((workspace[w] # current \/ w \in minimized) /\ NotMoving)

-----------------------------------------------------------------------------
(* The pointer *)

DeskEdgePress(w) == Free(w) /\ EdgePress(w) /\ FocusOnly

(* Pointer motion under a grab moves the grabbed window's node. *)
GrabMotion ==
  /\ grab # "none"
  /\ stale' = (stale \/ (layout = "tile" /\ grabbed \in Tiled))
  /\ UNCHANGED << vars, layout, floats, order >>

(* Only the release that ends a move arranges. *)
DeskRelease == Release /\ UNCHANGED << layout, floats, order >> /\ ArrangesIf(grab = "move")

-----------------------------------------------------------------------------
(* Layout changes, reloads, outputs *)

(* Mutant: the focused window keeps its place among the nodes.             *)
SetLayoutNotRaising(l, F) ==
  /\ l # layout
  /\ layout' = l
  /\ floats' = IF l = "tile" THEN F ELSE floats
  /\ UNCHANGED << vars, order >>
  /\ ArrangesIf(TRUE)

(* server_set_layout: tiling looks every window's rules up again, stacking *)
(* puts the focused window on top.                                         *)
SetLayout(l, F) ==
  /\ l # layout
  /\ layout' = l
  /\ floats' = IF l = "tile" THEN F ELSE floats
  /\ order'  = IF l = "stack" /\ focused # Nobody THEN Raise(order, focused) ELSE order
  /\ UNCHANGED vars
  /\ ArrangesIf(TRUE)

(* A reload, a change between the two arranging layouts, and (with F the   *)
(* flags as they are) a command that reorders tiles.                       *)
Reload(F) ==
  /\ layout = "tile"
  /\ floats' = F
  /\ UNCHANGED << vars, layout, order >>
  /\ ArrangesIf(TRUE)

(* Every commit of an output, so every frame, calls layer_shell_arrange.   *)
OutputCommit ==
  /\ UNCHANGED << vars, layout, floats, order >>
  /\ ArrangesIf(grab # "move")

-----------------------------------------------------------------------------

DeskInit ==
  /\ Init
  /\ layout \in {"stack", "tile"}
  /\ floats = {} /\ order = <<>> /\ stale = FALSE

DeskClientStep(w) ==
  \/ DeskNew(w)
  \/ ConfigureAcked(w) /\ SceneUntouched
  \/ \E float \in BOOLEAN : DeskMap(w, float) \/ TitleChanged(w, float)
  \/ DeskUnmap(w)
  \/ DeskDestroy(w)
  \/ RequestMinimize(w) /\ FocusAndLayOut(minimized' # minimized)
  \/ RequestMove(w) /\ SceneUntouched
  \/ DeskResize(w)
  \/ DeskActivate(w)

DeskPointerStep(w) ==
  \/ (Press(w) \/ SuperPress(w)) /\ FocusOnly
  \/ DeskEdgePress(w)

DeskLayerStep(l) ==
  \/ (LayerPress(l) \/ LayerSurfaceGone(l)) /\ SceneUntouched
  \/ (LayerMap(l) \/ LayerUnmap(l)) /\ FocusAndLayOut(TRUE)

DeskWorkspaceStep ==
  WorkspaceStep /\ FocusAndLayOut(current' # current \/ workspace' # workspace)

DeskNext ==
  \/ \E w \in Window : DeskClientStep(w) \/ DeskPointerStep(w)
  \/ \E l \in Layer : DeskLayerStep(l)
  \/ DeskWorkspaceStep
  \/ DeskRelease \/ GrabMotion \/ OutputCommit
  \/ \E F \in SUBSET Listed(Server) :
        Reload(F) \/ \E l \in {"stack", "tile"} : SetLayout(l, F)

DeskSpec == DeskInit /\ [][DeskNext]_dvars

-----------------------------------------------------------------------------
(* Properties *)

(* Every variable holds a value of its kind, and the scene has one node    *)
(* for each toplevel.                                                      *)
DeskTypeOK ==
  /\ TypeOK
  /\ layout \in {"stack", "tile"}
  /\ floats \in SUBSET Listed(Server)
  /\ order \in Seq(Window) /\ ToSet(order) = Listed(Server)
  /\ Len(order) = Len(toplevels)
  /\ stale \in BOOLEAN

(* In the stack layout no shown window covers the focused one, although    *)
(* focus_toplevel raises nothing when the window already has the focus,    *)
(* windows map on hidden workspaces, and layouts come and go.              *)
FocusedOnTop ==
  layout = "stack" /\ focused \in shown =>
    \A w \in shown \ {focused} : Precedes(order, w, focused)

(* Whatever opens, closes, hides, moves or changes rules while nothing is  *)
(* grabbed, the tiled windows stand as one arrangement of all of them.     *)
DisturbedOnlyByGrab == [][~stale /\ stale' => grab' # "none"]_dvars

(* Arranging is put off while a window is being moved; the end of the move *)
(* makes up for it, be it by a release or because the window went away.    *)
MoveEndsArranged == [][grab = "move" /\ grab' = "none" => ~stale']_dvars
=============================================================================
