----------------------------- MODULE Toplevels -----------------------------
(***************************************************************************)
(* The window core of the compositor (src/main.c): the list of xdg         *)
(* toplevels, the virtual workspaces, focus, what foreign-toplevel bars    *)
(* are told, which windows the scene shows, and the pointer grab.          *)
(*                                                                         *)
(* The compositor is one thread running an event loop, so every callback   *)
(* is one atomic action.  A callback calls C functions that update struct  *)
(* comp_server in sequence and read what the previous one wrote; each such *)
(* function is an operator from a state record to a state record, and an   *)
(* action installs the record its callback's calls produce.                *)
(*                                                                         *)
(* Window positions, stacking order and the layout mode belong to module   *)
(* Tiling; a mapped surface is always initialized (wlroots maps a surface  *)
(* only after its first configure was acknowledged), so the code's         *)
(* "initialized" tests are implied by "mapped" here.                       *)
(***************************************************************************)
EXTENDS Integers, SequencesExt

CONSTANTS
  Window,           \* identities of xdg toplevels; one is reused once destroyed
  Layer,            \* layer-shell surfaces that accept the keyboard on a click
  WorkspaceCount,   \* COMP_WORKSPACE_COUNT
  Nobody            \* the null reference

ASSUME CountAssumption  == WorkspaceCount \in Nat \ {0}
ASSUME NobodyAssumption == Nobody \notin Window \cup Layer
ASSUME KindAssumption   == Window \cap Layer = {}

VARIABLES
  toplevels,   \* server->toplevels, in list order
  configured,  \* windows whose client acknowledged a configure
  mapped,      \* windows whose root surface is mapped
  minimized,   \* view->minimized
  workspace,   \* view->workspace
  current,     \* server->current_workspace
  focused,     \* server->focused_toplevel
  keyboard,    \* the surface that has the seat's keyboard focus
  activated,   \* windows last told "activated" through xdg_toplevel
  advertised,  \* windows whose foreign-toplevel handle says "activated"
  shown,       \* windows whose scene node is enabled
  grab,        \* server->grab
  grabbed,     \* server->grabbed_toplevel
  layers       \* mapped layer surfaces

vars == << toplevels, configured, mapped, minimized, workspace, current, focused,
           keyboard, activated, advertised, shown, grab, grabbed, layers >>

Workspace == 0 .. WorkspaceCount - 1
Grab      == {"none", "move", "resize"}

(* The state as one value, and the step that installs such a value. *)
Server ==
  [toplevels |-> toplevels, configured |-> configured, mapped |-> mapped,
   minimized |-> minimized, workspace |-> workspace, current |-> current,
   focused |-> focused, keyboard |-> keyboard, activated |-> activated,
   advertised |-> advertised, shown |-> shown, grab |-> grab,
   grabbed |-> grabbed, layers |-> layers]

Becomes(s) ==
  /\ toplevels'  = s.toplevels
  /\ configured' = s.configured
  /\ mapped'     = s.mapped
  /\ minimized'  = s.minimized
  /\ workspace'  = s.workspace
  /\ current'    = s.current
  /\ focused'    = s.focused
  /\ keyboard'   = s.keyboard
  /\ activated'  = s.activated
  /\ advertised' = s.advertised
  /\ shown'      = s.shown
  /\ grab'       = s.grab
  /\ grabbed'    = s.grabbed
  /\ layers'     = s.layers

-----------------------------------------------------------------------------
(* The list of toplevels *)

Listed(s) == ToSet(s.toplevels)

Precedes(seq, v, w) ==
  \E i, j \in DOMAIN seq : i < j /\ seq[i] = v /\ seq[j] = w

(* What wl_list_for_each with a break at the first match finds: the        *)
(* candidate no other candidate precedes in the list.                      *)
FirstListed(s, Candidates) ==
  LET first == {w \in Candidates : \A v \in Candidates \ {w} : Precedes(s.toplevels, w, v)}
  IN  IF first = {} THEN Nobody ELSE CHOOSE w \in first : TRUE

(* wl_list_remove *)
Unlink(seq, w) == RemoveAt(seq, CHOOSE i \in DOMAIN seq : seq[i] = w)

OnWorkspace(s, i) == {w \in Listed(s) : w \in s.mapped /\ s.workspace[w] = i}

-----------------------------------------------------------------------------
(* The functions the callbacks share *)

(* A bar is told "activated" when the window has the focus at this moment. *)
ForeignRefresh(s, w) ==
  [s EXCEPT !.advertised =
      IF s.focused = w /\ w \in s.mapped /\ s.workspace[w] = s.current
      THEN @ \cup {w} ELSE @ \ {w}]

ForeignSyncAll(s) ==
  [s EXCEPT !.advertised =
      {w \in Listed(s) : s.focused = w /\ w \in s.mapped /\ s.workspace[w] = s.current}]

ApplyVisibility(s) ==
  [s EXCEPT !.shown = OnWorkspace(s, s.current) \ s.minimized]

(* Mutant: the seat is not told that the focus is gone. *)
ClearFocusOnly(s) == [s EXCEPT !.focused = Nobody]

ClearFocus(s) == [s EXCEPT !.focused = Nobody, !.keyboard = Nobody]

(* focus_toplevel.  The previous window's handle is refreshed while it is  *)
(* still server->focused_toplevel.                                         *)
LeaveFocus(s) ==
  IF s.focused = Nobody THEN s
  ELSE ForeignRefresh([s EXCEPT !.activated = @ \ {s.focused}], s.focused)

(* Mutant: the bars are refreshed before the window has the focus. *)
TakeFocusRefreshingEarly(s, w) ==
  [ForeignRefresh([s EXCEPT !.activated = @ \cup {w}], w) EXCEPT !.focused = w]

TakeFocus(s, w) ==
  ForeignRefresh([s EXCEPT !.activated = @ \cup {w}, !.focused = w], w)

Focusable(s, w) == w \in s.mapped /\ s.workspace[w] = s.current /\ s.focused # w

FocusToplevel(s, w) ==
  IF Focusable(s, w)
  THEN [TakeFocus(LeaveFocus(s), w) EXCEPT !.keyboard = w]
  ELSE s

FocusPick(s, pick) == IF pick = Nobody THEN s ELSE FocusToplevel(s, pick)

(* Mutant: apply_visibility is left out. *)
SetMinimizedUnseen(s, w, min) ==
  IF min <=> w \in s.minimized
  THEN s
  ELSE LET flip == [s EXCEPT !.minimized = IF min THEN @ \cup {w} ELSE @ \ {w}]
       IN  IF min /\ s.focused = w THEN ClearFocus(flip) ELSE flip

SetMinimized(s, w, min) ==
  IF min <=> w \in s.minimized
  THEN s
  ELSE LET flip == [s EXCEPT !.minimized = IF min THEN @ \cup {w} ELSE @ \ {w}]
           drop == IF min /\ s.focused = w THEN ClearFocus(flip) ELSE flip
       IN  ForeignRefresh(ApplyVisibility(drop), w)

Clamp(i) == IF i < 0 THEN 0 ELSE IF i >= WorkspaceCount THEN WorkspaceCount - 1 ELSE i

(* Mutant: the focus stays with a window of the workspace that was left. *)
EnterKeepingFocus(s, i) == [s EXCEPT !.current = i]

(* server_workspace_go *)
EnterWorkspace(s, i) ==
  LET goto == [s EXCEPT !.current = i]
  IN  IF s.focused # Nobody /\ s.workspace[s.focused] # i THEN ClearFocus(goto) ELSE goto

(* Mutant: minimized windows may be picked for the focus. *)
GoPickingAny(s, idx) ==
  LET there == EnterWorkspace(s, Clamp(idx))
      pick  == FirstListed(there, OnWorkspace(there, there.current))
  IN  IF Clamp(idx) = s.current THEN s
      ELSE ForeignSyncAll(ApplyVisibility(FocusPick(there, pick)))

Go(s, idx) ==
  LET there == EnterWorkspace(s, Clamp(idx))
      pick  == FirstListed(there, OnWorkspace(there, there.current) \ there.minimized)
  IN  IF Clamp(idx) = s.current THEN s
      ELSE ForeignSyncAll(ApplyVisibility(FocusPick(there, pick)))

(* Mutant: with nothing to pick the focus follows the moved window. *)
RefocusOrStay(s, pick) == IF pick = Nobody THEN s ELSE FocusToplevel(s, pick)

(* server_workspace_move_focused.  The pick may be a minimized window.     *)
Refocus(s, pick) == IF pick = Nobody THEN ClearFocus(s) ELSE FocusToplevel(s, pick)

MoveFocused(s, target) ==
  LET f    == s.focused
      sent == [s EXCEPT !.workspace[f] = target]
      pick == FirstListed(sent, OnWorkspace(sent, s.current) \ {f})
      left == IF target = s.current THEN sent ELSE Refocus(sent, pick)
  IN  IF \/ f = Nobody \/ f \notin s.mapped
         \/ target \notin Workspace \/ s.workspace[f] = target
      THEN s
      ELSE ForeignSyncAll(ApplyVisibility(left))

(* Mutants: the grab outlives its window, or goes on without one. *)
DropGrabNever(s, w)  == s
DropGrabWindow(s, w) == IF s.grabbed = w THEN [s EXCEPT !.grabbed = Nobody] ELSE s

DropGrab(s, w) ==
  IF s.grabbed = w THEN [s EXCEPT !.grabbed = Nobody, !.grab = "none"] ELSE s

BeginGrab(s, w, mode) == [s EXCEPT !.grab = mode, !.grabbed = w]

-----------------------------------------------------------------------------
(* Callbacks of a client's windows *)

NewToplevel(w) ==
  /\ w \notin Listed(Server)
  /\ Becomes(ForeignRefresh([Server EXCEPT
        !.toplevels = Append(@, w), !.workspace[w] = current], w))

(* The initial commit is answered by a configure the client acknowledges.  *)
ConfigureAcked(w) ==
  /\ w \in Listed(Server) /\ w \notin configured
  /\ Becomes([Server EXCEPT !.configured = @ \cup {w}])

Map(w) ==
  /\ w \in configured /\ w \notin mapped
  /\ LET up == [Server EXCEPT !.mapped = @ \cup {w}, !.minimized = @ \ {w}]
     IN  Becomes(ApplyVisibility(FocusToplevel(ForeignRefresh(up, w), w)))

(* The scene graph disables the node of an unmapped surface by itself.     *)
Unmap(w) ==
  /\ w \in mapped
  /\ LET down == [Server EXCEPT !.mapped = @ \ {w}, !.configured = @ \ {w},
                                !.shown = @ \ {w}]
         free == IF focused = w THEN ClearFocus(down) ELSE down
     IN  Becomes(ForeignRefresh(DropGrab(free, w), w))

(* wlroots unmaps a surface before it destroys its toplevel.               *)
Destroy(w) ==
  /\ w \in Listed(Server) /\ w \notin mapped
  /\ LET gone == [Server EXCEPT
           !.toplevels = Unlink(@, w),  !.configured = @ \ {w},
           !.minimized = @ \ {w},       !.workspace[w] = 0,
           !.activated = @ \ {w},       !.advertised = @ \ {w},
           !.focused = IF @ = w THEN Nobody ELSE @]
     IN  Becomes(DropGrab(gone, w))

(* Mutant: a second request brings the window back. *)
RequestMinimizeToggle(w) ==
  /\ w \in Listed(Server)
  /\ Becomes(SetMinimized(Server, w, w \notin minimized))

(* xdg_toplevel.set_minimized; there is no request to undo it.             *)
RequestMinimize(w) ==
  /\ w \in Listed(Server)
  /\ Becomes(SetMinimized(Server, w, TRUE))

(* set_title and set_app_id; requests to maximize and to go fullscreen     *)
(* have the same effect on this module's state.                            *)
MetadataChanged(w) ==
  /\ w \in Listed(Server)
  /\ Becomes(ForeignRefresh(Server, w))

RequestMove(w) ==
  /\ w \in configured
  /\ Becomes(BeginGrab(Server, w, "move"))

(* Tiled windows refuse a direct resize; which ones are is Tiling's state. *)
RequestResize(w) ==
  /\ w \in mapped
  /\ Becomes(BeginGrab(FocusToplevel(Server, w), w, "resize"))

(* A bar or a task switcher asks for a window. *)
ForeignActivate(w) ==
  /\ w \in mapped
  /\ LET there == IF workspace[w] # current THEN Go(Server, workspace[w]) ELSE Server
     IN  Becomes(ForeignSyncAll(FocusToplevel(SetMinimized(there, w, FALSE), w)))

-----------------------------------------------------------------------------
(* Key bindings, IPC commands and ext-workspace requests *)

WorkspaceGo(i)       == Becomes(Go(Server, i))
WorkspaceRelative(d) == Becomes(Go(Server, (current + d) % WorkspaceCount))
WorkspaceMove(i)     == Becomes(MoveFocused(Server, i))

-----------------------------------------------------------------------------
(* The pointer.  A press hits a shown window, a layer surface or nothing.  *)

Press(w) == w \in shown /\ Becomes(FocusToplevel(Server, w))

SuperPress(w) ==
  /\ w \in shown
  /\ Becomes(FocusToplevel(BeginGrab(Server, w, "move"), w))

EdgePress(w) ==
  /\ w \in shown
  /\ Becomes(BeginGrab(FocusToplevel(Server, w), w, "resize"))

LayerPress(l) == l \in layers /\ Becomes([Server EXCEPT !.keyboard = l])

(* The release of any button ends a grab. *)
Release ==
  /\ grab # "none"
  /\ Becomes([Server EXCEPT !.grab = "none", !.grabbed = Nobody])

-----------------------------------------------------------------------------
(* Layer-shell surfaces *)

LayerMap(l) ==
  /\ l \notin layers
  /\ Becomes(ApplyVisibility([Server EXCEPT !.layers = @ \cup {l}]))

LayerUnmap(l) ==
  /\ l \in layers
  /\ Becomes(ApplyVisibility([Server EXCEPT !.layers = @ \ {l}]))

(* The seat drops the keyboard focus of a destroyed surface by itself.     *)
LayerSurfaceGone(l) ==
  /\ l \notin layers /\ keyboard = l
  /\ Becomes([Server EXCEPT !.keyboard = Nobody])

-----------------------------------------------------------------------------

Init ==
  /\ toplevels = <<>>
  /\ configured = {} /\ mapped = {} /\ minimized = {}
  /\ workspace = [w \in Window |-> 0]
  /\ current = 0
  /\ focused = Nobody /\ keyboard = Nobody
  /\ activated = {} /\ advertised = {} /\ shown = {}
  /\ grab = "none" /\ grabbed = Nobody
  /\ layers = {}

ClientStep(w) ==
  \/ NewToplevel(w)     \/ ConfigureAcked(w) \/ Map(w)
  \/ Unmap(w)           \/ Destroy(w)        \/ RequestMinimize(w)
  \/ MetadataChanged(w) \/ RequestMove(w)    \/ RequestResize(w)
  \/ ForeignActivate(w)

PointerStep(w) == Press(w) \/ SuperPress(w) \/ EdgePress(w)

LayerStep(l) == LayerPress(l) \/ LayerMap(l) \/ LayerUnmap(l) \/ LayerSurfaceGone(l)

WorkspaceStep ==
  \/ \E i \in Workspace : WorkspaceGo(i)
  \/ \E d \in {-1, 1} : WorkspaceRelative(d)
  \/ \E i \in Workspace : WorkspaceMove(i)

Next ==
  \/ \E w \in Window : ClientStep(w) \/ PointerStep(w)
  \/ \E l \in Layer : LayerStep(l)
  \/ WorkspaceStep
  \/ Release

Spec == Init /\ [][Next]_vars

-----------------------------------------------------------------------------
(* Properties *)

(* Every variable holds a value of its kind. *)
TypeOK ==
  /\ toplevels \in Seq(Window)
  /\ configured \in SUBSET Window /\ mapped \in SUBSET Window
  /\ minimized \in SUBSET Window
  /\ workspace \in [Window -> Workspace]
  /\ current \in Workspace
  /\ focused \in Window \cup {Nobody}
  /\ keyboard \in Window \cup Layer \cup {Nobody}
  /\ activated \in SUBSET Window /\ advertised \in SUBSET Window
  /\ shown \in SUBSET Window
  /\ grab \in Grab
  /\ grabbed \in Window \cup {Nobody}
  /\ layers \in SUBSET Layer

(* server->focused_toplevel is a mapped window of the current workspace,   *)
(* whatever unmaps, moves or switches came before (focus_toplevel,         *)
(* toplevel_unmap, server_workspace_go).                                   *)
FocusedIsLive ==
  focused # Nobody => focused \in mapped /\ workspace[focused] = current

(* Keystrokes never reach a window the compositor does not consider        *)
(* focused: the seat's keyboard focus is the focused window, a layer       *)
(* surface, or nobody.                                                     *)
KeyboardFollowsFocus == keyboard \in Window => keyboard = focused

(* Only the active workspace's unminimized windows are shown, and all of   *)
(* them are: no callback forgets server_workspace_apply_visibility.        *)
ShownExactly == shown = OnWorkspace(Server, current) \ minimized

(* A grab always has a window to act on, and a window is remembered as     *)
(* grabbed only while a grab is on: pointer motion dereferences it.        *)
GrabHasWindow == grab = "none" <=> grabbed = Nobody

(* Nothing the compositor remembers about a window survives the window:    *)
(* every reference and every per-window fact is about a listed toplevel.   *)
NothingDangles ==
  /\ {focused, keyboard, grabbed} \cap Window \subseteq Listed(Server)
  /\ configured \cup activated \cup advertised \cup shown \subseteq Listed(Server)
  /\ mapped \subseteq configured

(* The focused window has been told it is activated, and so have the bars. *)
FocusedIsTold == focused # Nobody => focused \in activated \cap advertised

(* A minimized window comes back only by becoming the focused one, or by   *)
(* losing its role (unmap, destroy): "hidden until explicit re-activation".*)
MinimizedUntilActivated ==
  [][\A w \in mapped \cap mapped' :
        w \in minimized /\ w \notin minimized' => focused' = w]_vars

(* Switching workspaces gives the focus to a window that is shown, and     *)
(* leaves it with nobody only when the new workspace shows nothing.        *)
SwitchFocusesShown ==
  [][current' # current =>
        IF shown' = {} THEN focused' = Nobody
        ELSE focused' \in shown' /\ keyboard' = focused']_vars

(* Only a workspace move changes the workspace of a living window, and it  *)
(* takes the window away from the focus unless it moves to the current one.*)
OnlyFocusedMoves ==
  [][\A w \in mapped \cap mapped' :
        workspace'[w] # workspace[w] =>
          focused = w /\ focused' # w /\ w \notin shown']_vars

-----------------------------------------------------------------------------
(* What the comments and documents say and the code does not do *)

(* Moving the focused window away is to "refocus on the current workspace" *)
(* and to "repair focus/visibility": from a shown focused window the focus *)
(* passes to a shown window or to nobody.                                  *)
MoveRefocusesShown ==
  [][\A i \in Workspace :
        WorkspaceMove(i) /\ focused \in shown => focused' \in shown' \cup {Nobody}]_vars

(* focus_toplevel "activates one mapped view": no two mapped windows draw  *)
(* themselves as the active one.                                           *)
OneActivated == \A v, w \in activated \cap mapped : v = w
=============================================================================
