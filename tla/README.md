# A TLA+ model of stackcomp

stackcomp is a Wayland compositor on wlroots 0.19: stacking, tiling and scrolling
layouts, nine workspaces, layer-shell panels, a Unix-socket IPC and a text
configuration. These modules model its core logic as state machines, the `.cfg`
files check them with TLC on small instances, and the `*Proofs.tla` modules prove
with TLAPS what matters most for any number of windows, workspaces, devices and
processes: the window core and the layouts on top of it, the tile grid and the scroll strip, the
glide of a window, the input grabs, keyboards, input maps and pointer constraints, the configuration
file and the window rules, the ext-workspace protocol, and the ownership of the IPC socket.

Contents: [inventory](#inventory-of-the-system) · [what is hard](#what-is-hard) ·
[modules](#the-modules) · [runs](#the-runs) · [bounds](#bounds) ·
[fairness](#fairness) · [proofs](#proofs) ·
[disagreements](#where-the-code-and-its-comments-disagree) ·
[not modelled](#what-is-not-modelled) · [plan](#plan) · [running](#running-it)

## Inventory of the system

Everything runs in one thread on a `wl_event_loop`. wlroots delivers each event by
calling the listeners of a signal, and a callback runs to its end before the next
event is read, so a callback is one atomic step. Nothing in this program races at
the level of memory; what is hard is the *order of callbacks*: clients map, unmap,
minimize and destroy windows at any moment, the user switches workspaces and drags,
panels ask for windows, and every callback updates the same `struct comp_server`.

| Part | State | Operations | Talks to | Module |
|---|---|---|---|---|
| Toplevels, workspaces, focus (`main.c`) | list of `comp_toplevel`, `focused_toplevel`, `current_workspace`, grab, seat keyboard focus, foreign-toplevel handles, scene nodes | map, unmap, destroy, minimize, activate, switch, move, press, release | wlroots seat and scene, bars, layout | `Toplevels` |
| Tile order and grid (`main.c` 1212-1284, 2016-2578) | `tile_order`, `tile_user_key` per window | sort, swap, move by steps, to an edge, along rows and columns | layout, key bindings, IPC | `TileOrder`, `TileGrid` |
| Scroll layout (`main.c` 1287-1366, 2028-2134) | placed columns, scroll slot per workspace and output | arrange, focus, scroll, move, open, close | toplevels, outputs | `ScrollStrip` |
| Tiling and stacking order (`main.c` 1369-1520, 2028-2134, 2581-2619) | layout mode, float flags, stacking order | arrange, or put it off during a move; raise; set layout; output commits | toplevels, layer shell, outputs | `Desktop` |
| Window rules and decorations (`main.c` 1053-1179, 2581-2608, 2800-2827) | `tile_float`, decoration mode, configures under way | commit, rename, decorate, set layout, reload | clients, configuration | `WindowRules` |
| Configuration file (`config.c`) | parser state, rules, settings | load, match | everything | `ConfigFile`, `ConfigReader` |
| Pointer, touch, tablet input (`main.c` 3112-4060) | grab, `swallow_left_release`, emulated contact, pressed buttons of clients | press, release, touch, tip | seat, toplevels | `PointerInput` |
| ext-workspace (`ext_workspace.c`) | sessions, group and workspace handles per client | bind, activate, notify, stop | panels, toplevels | `ExtWorkspace`, `PanelView` |
| IPC socket (`main.c` 2622-2910) | listening socket, socket path, accept queue | bind, accept, read, run a command, unlink | other instances, the command line, predicates | `Instances` |
| Keyboards (`main.c` 2913-3096), key bindings (`config.c` 353-601) | keyboards, keys the client was told are down | press, release, bindings, hotplug, predicates | seat, everything | `Keyboards`, predicates in `Instances` |
| Pointer constraints (`main.c` 3606-3779) | active constraint, region, listener on its surface | new, activate, commit, destroy, move under it | seat | `PointerConstraint` |
| Maximize, fullscreen (`main.c` 1546-1635) | restore geometry | request, acknowledge | clients | `Geometry` (maximize) |
| Layout animation (`main.c` 434-590) | target, animated and real position per window, tick clock | kick, tick, drop, track | outputs' frames | `Geometry` |
| Outputs, input maps (`main.c` 593-676, 958-1049, 2995-3096) | outputs, workareas, tracked inputs | add, remove, map devices | layout, layer shell | `InputMaps` |
| Crash handler (`crash_handler.c`) | marker, signal dispositions | handle a fatal signal, and a second one | the kernel | `Instances` |
| Startup, shutdown (`main.c` 4102-4790, `server.h` 264) | `display_terminate_requested` | start, fail, terminate, finish | everything | `Instances`, `Quitting` |
| Popups, logging, command line, Xwayland satellite, scripts | | | | [no](#what-is-not-modelled) |

What makes each part correct:

* **Toplevels.** The focused window is mapped and on the workspace in view; the
  keyboard never stays with a window that is not the focused one; the scene shows
  exactly the unminimized windows of the workspace; no pointer outlives its window.
* **Tile order.** Keys stay distinct, so sorting has one result; any move command is
  one insertion along a line of cells, a drop one exchange, and switching the layout
  brings the rules' order back.
* **Scroll layout.** Strips have no gaps that lose a window, an output in use stays in use,
  and entering the layout shows the focused window.
* **Rules and decorations.** What is cached per window is what the rules in force say
  about the names it has now; the exchange of configures and commits ends, and ends
  on the wanted mode.
* **Configuration.** A file means what its stanzas say one by one, or is rejected whole.
* **Input.** Nothing stays pressed for a client after the hand is gone, and a swallowed
  release is always the one of the press that began the grab.
* **ext-workspace.** Every panel that listens sees every switch, whole and in order.
* **Tiling and stacking order.** The focused window is never covered in the stack layout, and
  what a drag puts off is made up for when it ends.
* **Geometry.** A window that is to glide somewhere gets there; unmaximizing should put a window back, and
  [does not](#where-the-code-and-its-comments-disagree) if it was asked to be maximized twice.
* **Keyboards, input maps, constraints.** No client is left with a key down that nobody holds; a device
  points at the output the rules name among those there are, and at most the one that left last; the pointer is only bound by a
  constraint of the surface it is on.
* **Processes.** A compositor that is alone can be reached whatever crashed processes left behind, a crash
  leaves one marker, and the event loop comes back from every command.

The hazards behind these properties, each at its line, are in `PROJECT.json`.

## What is hard

* *Two records of one fact.* `focused_toplevel`, the seat's keyboard focus, the
  `activated` state a client was told and the state bars were told are four records of
  "who has the focus", updated in different places. `tile_order` and `tile_float` are
  caches of what the rules say. The scroll slot is the index of a column, not the window.
* *Callbacks in the middle of a grab.* A window can vanish, be minimized or be retitled
  while it is dragged; arranging is suppressed in some callbacks and not in others.
* *Requests that come late.* A client's move request is honoured whether or not a button
  is still pressed. Configures are answered later, or several at once.
* *Messages in flight.* Switches, destroy requests and stop requests of panels cross.
* *Blocking the loop.* IPC clients are read, and `when=` predicates are awaited, on the
  one thread there is.
* *Files that outlive processes.* The socket path is found, unlinked and bound by name; whose
  socket it names depends on who came and went.
* *Callbacks that call back.* Deactivating a oneshot constraint destroys it, which calls the
  compositor again before the deactivating function has returned.

## The modules

### Toplevels

The core: the window list, workspaces, focus, minimizing, what bars are told, the
scene's visibility and the grab. A callback calls a sequence of C functions that read
what the previous one wrote, so each function is an operator from a *state record* to a
state record (`ForeignRefresh`, `ApplyVisibility`, `ClearFocus`, `FocusToplevel`,
`SetMinimized`, `Go`), `Server` is the record of the current state, and an action installs the
record its callback's calls produce with `Becomes`. The order of the calls in an action
is the order in the code; this is what several hazards are about (`focus_toplevel` refreshes the
old window's handle before `focused_toplevel` changes).

| Action | Code |
|---|---|
| `NewToplevel`, `ConfigureAcked`, `Map`, `Unmap`, `Destroy` | `xdg_shell_new_toplevel`, `toplevel_map`, `toplevel_unmap`, `toplevel_destroy` |
| `RequestMinimize`, `MetadataChanged`, `ForeignActivate` | `toplevel_request_minimize`, `toplevel_handle_set_title` / `_app_id`, `foreign_toplevel_handle_request_activate` |
| `RequestMove`, `RequestResize`, `Press`, `SuperPress`, `EdgePress`, `Release` | the two requests, `server_cursor_button` |
| `LayerPress`, `LayerMap`, `LayerUnmap`, `LayerSurfaceGone` | `layer_surface_try_keyboard_focus_click`, layer shell, wlroots' seat |
| `WorkspaceGo`, `WorkspaceRelative`, `WorkspaceMove` | `server_workspace_go`, `_relative`, `_move_focused` |

Keys, IPC and panels reach the same functions, so they are the same actions here.

### Desktop

`Toplevels` with the scene: the layout mode (`layout`; tile and scroll arrange alike and are one
value), the float flags, the stacking order and whether the tiled windows stand where an arrangement of all of
them puts them (`stale`). Each action is an action of `Toplevels` with what the same callback raises and whether
it calls `server_arrange_toplevels`; some callbacks arrange always, some not while a window is moved,
some never. `ArrangesIf` and `FocusRaises` say it once for all. What the window core does not see is added:
pointer motion under a grab, layout switches, reloads, and the commit of an output, which arranges too.
Where the cells are is in `TileGrid` and `ScrollStrip`, how a window gets there in `Geometry`.

### Geometry

One window on a line of points, with the other windows as its environment. It has three
positions: the node's, the animation's and the target; frames of the primary output carry it nearer
as long as one is scheduled, and the module is about whether one is. Dragging, arrangements
that other windows cause, layout and workspace switches and reloads meet it at any moment. Maximizing
keeps a restore point, and decides by what the client *acknowledged* whether to overwrite it. A reload puts the
new configuration in force before it arranges, so whether the window then eases or jumps is the new file's word. Clients ask
at any time: for another state before the last was acknowledged, up to `SentBound` configures, and for a move while
another window is dragged, which takes the grab over (`grab` is then "taken").

### Keyboards, InputMaps, PointerConstraint, Quitting

`Keyboards` is `keyboard_handle_key` with several keyboards: the keys held on each, the seat's keyboard, and which
presses the focused client was told of. A binding consumes a press, and may move the focus or end the loop.
`InputMaps` is hotplug of outputs and devices with the `[input_map]` rules looked up in the order the code looks them up, which
for an unplugged output is before the output leaves the list. `PointerConstraint` is the one active constraint with the
listener on its surface, the pending warp and the region, and `Deactivate` of a oneshot constraint, which calls back.
`Quitting` is the flag they share: once it is set, handlers return early. The seat's parts share nothing
else, so `MCSeat` moves one of them (or `PointerInput`) at a time, chosen at the start.

### Instances

Compositor processes and the file they meet at. A process starts (unlinks whatever is under the path, binds,
listens, and may fail at each step), runs its event loop, ends (unlinks the path) or crashes: the signal handler
writes its marker and raises the signal again, and a second signal may arrive at any moment of it. Senders are
command-line clients or commands spawned by a `when=` predicate; they connect to whoever listens behind the
path, wait in an accept queue of `Backlog` places, and are read by a blocking read on the loop. A sender in
`Silent` connects and never writes.

### TileOrder and TileGrid

`TileOrder` holds the pure part: the comparison of `tile_order` and `tile_user_key`, the
arrangement it sorts to, `tile_swap_sort_keys`, the neighbours in the order, the row
and the column. `TileGrid` is the machine: the five move commands, drag and drop, layout
switches, rule changes and the frames that arrange again, over a fixed set of tiled windows
of one output. Its properties state what each command *means* (`Inserted` along a line of
cells) apart from how the code does it, by swaps of neighbours.

### ScrollStrip

Strips of columns on a row of outputs. A window's output is computed from where its
column lies, as in `toplevel_tile_output`, which is the point of the module: strips that are wider than their output take each other's
windows. The properties say what holds all the same, on any number of outputs.

### ConfigFile, ConfigReader and WindowRules

`ConfigFile` has no variables: `Step` is one pass of the loop of `comp_config_load`. The parser has an unfinished rule for each
kind of section (`blocks`), cleared by hand where the code does it: `Enter` clears three at every header, `Flush` the one that ends, but the
binding only if it is appended. `Finish` is what follows the loop, and `Load` folds them over a
file; `FirstMatch` and its users look rules up. `ConfigReader` is the loop as a machine: a
state is the lines read so far and the parser's state. `Declared` and `WellFormed` say what those
lines mean when they are read as a whole, stanza by stanza, and `LoadIsDeclared` compares the two
as if the file ended there.

`WindowRules` is the machine that uses a loaded file: `Apply` is
`toplevel_apply_decoration_mode` with its two-part check, `Refresh` looks the
rules up again, and the actions call them in the order of the callbacks. The
client's side is a queue of unanswered configures; a client may answer any of them and with it
all earlier ones. wlroots may leave out a mode that is the client's current one.

### PointerInput

Which buttons each client surface sees pressed (`down`), against which are really held
(`held`, `touching`, `tip`), with the grab and `swallow_left_release` in between. Mice share one
grab and one set of pressed buttons in the seat, a touch contact may emulate the left button, a pen
its tip and its side button. Grabs begin at a press or at a client's request, and end at a release
or with the grabbed window.

### ExtWorkspace and PanelView

`ExtWorkspace` is `ext_workspace.c` with two queues per panel: handles and managers as the
compositor and as the panel know them, requests and events crossing. `PanelView` is what panels are
promised: each listening panel has a queue of the workspaces it is yet to show. `ExtWorkspace`
implements it under the mapping `View`, which reads off the messages in flight what each
`done` among them will make the panel show; the property `ImplementsView` includes `PanelView`'s fairness.

### MC modules

`MCToplevels`, `MCDesktop`, `MCTileGrid`, `MCScrollStrip`, `MCPointerInput`
and `MCGeometry` add symmetry sets and the values a `.cfg` cannot write; `MCSeat` also joins the seat's
modules into one specification, and `MCConfig` the reader of files and the windows. Windows, mice and fingers are
interchangeable, and no property with symmetry is a liveness property.

## The runs

| Run | Instance | Distinct states | Shows |
|---|---|---|---|
| `desktop` | 2 windows, 1 layer surface, 2 workspaces, both layouts | 330 856 | nine invariants and action properties of the core, four of the layouts |
| `tile_grid` | 5 windows, 2 rule orders, steps -2, 1, 3 | 30 660 | keys distinct, moves are insertions, layout switches restore the rules' order |
| `scroll` | 4 windows, 2 outputs | 7 774 | strips whole and on the screen, outputs stay in use |
| `ext_workspace` | 1 panel, 3 workspaces, 2 requests in flight | 25 670 | refinement of `PanelView`, liveness |
| `config` | all files of up to 6 lines over four vocabularies; 1 window, 4 files on disk or none | 1 040 083 | a file means what its stanzas say; caches current, configures settle |
| `geometry` | 1 window, 3 points, 2 cells | 72 240 | frames do not run out, a gliding window arrives, only a takeover leads astray |
| `instances` | 2 processes, 2 senders, 2 places in the queue | 94 180 | reachability, markers, the loop comes back |
| `seat` | 2 mice, 2 fingers, a pen; 2 keyboards, 2 keys; 2 outputs, 2 devices; 2 surfaces | 140 509 | presses end, keys do not stick, maps follow rules, constraints bind the right surface |
| `move_refocus`, `touch_press`, `oneshot`, `maximize_twice` | as above, or smaller | | counterexamples, see [below](#where-the-code-and-its-comments-disagree) |

`Desktop`, of the core:

* `FocusedIsLive`, `KeyboardFollowsFocus`, `ShownExactly`, `GrabHasWindow`,
  `NothingDangles`, `FocusedIsTold` are the invariants named above; all are proved.
* `MinimizedUntilActivated`: a minimized window comes back only by taking the focus.
* `SwitchFocusesShown`: a switch gives the focus to a shown window, or to nobody only if
  none is shown.
* `OnlyFocusedMoves`: only a workspace move moves a window, and it takes it out of
  focus and sight in that step.

and of the layouts: `DeskTypeOK`, `FocusedOnTop` (nothing shown covers the focused window in the stack layout),
`DisturbedOnlyByGrab` (only steps that leave a grab on take tiled windows out of their
arrangement), `MoveEndsArranged` (the end of a move, by a release or because the window is gone, arranges); all four are
proved.

`TileGrid`: `KeysDistinct`, `MovesAreInsertions`, `LayoutRestoresRules`.
`ScrollStrip`: `StripShown` (some output shows a window, and none is lost beyond a gap), `HeadsStayUsed` (an output that shows a
window is not left empty by what happens to other strips), `EnterShowsFocused`.
`ExtWorkspace`: `OneShown` (never two active workspaces), `RequestsFindHandles` (no handle
is destroyed under a request on its way), `CatchesUp` (a panel comes to show where the user
stays), `ImplementsView`.
`Geometry`: `FrameComes` (a window short of its cell has a frame coming that will move it), `Settles` (liveness: a window with a cell to glide to gets there unless something else is asked of it), `AstrayByTakeover` (a window that nobody drags is where its animation is, unless its
drag was taken over; such a window is excepted from the other two).
`Instances`: `SoleInstanceReachable`, `CrashMarkedOnce`, and the liveness properties `LoopProgresses` and
`SentIsHandled`.
The seat: `PressesEnd`, `DragIsHeld`, `TouchOwned` (`PointerInput`), `NoStuckKeys` (`Keyboards`), `MapsFollowRules`
(`InputMaps`), `ActiveIsPointed` (`PointerConstraint`).
`ConfigReader`: `LoadIsDeclared`.
`WindowRules`: `PropsCurrent`, `DecorationCurrent`, `Settles`.

Each property has a mutant: a definition of the model changed the way a plausible bug would change
the code (`ClearFocusOnly`, `ReleaseSwallowingAny`, `DeskUnmapTestingEarly`, `IpcInitKeepingFile`, ...),
under which TLC finds it violated.

## Bounds

* `Toplevels` and `Desktop`: two windows are enough for every pair (previous and next focus, focused
  and grabbed, minimized and candidate); three were also tried for
  `Toplevels` (697 868 states, no error). Identities are reused after a destroy, so unboundedly many windows
  come and go. Two workspaces are "here" and "elsewhere"; the proofs hold for any number.
* `TileGrid`: five windows make three columns with a partly filled last row, the smallest
  grid in which the three kinds of line have different lengths. Steps go beyond
  both edges. Two rule orders make ties and non-ties.
* `ScrollStrip`: four windows on two outputs make strips longer than the row of outputs in both directions, and strips that spill
  onto each other. Three windows on three outputs were also tried (6 000 states, no error).
* `Geometry`: `Far` = 2 makes three points, so that a window can be at its cell, one frame short of it and
  two short of it, and can be dropped between cells. A frame moves the window by any positive amount, so the points stand for
  distances, not pixels. `SentBound` bounds the configures a client leaves unanswered: one for the properties of the
  animation, which do not depend on it, two for `maximize_twice`.
* `Instances`: two processes are "the one before" or "the other one" and oneself; a process that ended or crashed starts
  again, so any number of lives follow each other. Two senders are a command line and one a predicate spawned, or two that queue
  behind each other. `Backlog` = 2 is a queue that both fit into; the code's is 8. `Silent` is empty, see
  [below](#where-the-code-and-its-comments-disagree).
* The seat: two keyboards and two keys, because a key may be held on both; two clients, because bindings move the focus while a
  key is down. Two outputs and two rule lists: one names both outputs in order, one is empty. Two surfaces for the pointer to go
  between, one constraint each.
* `ExtWorkspace`: `QueueBound` is how many events the compositor has sent and a panel not read before
  a switch is possible, `RequestBound` how many requests are under way: two, so that one waits behind a destroy or a stop. Two panels,
  two workspaces, one request and a queue of four were also tried (48 672 states, no error).
* `PointerInput`: two mice because one grab and one swallow flag serve all of them; two
  fingers because one is emulated and the other native. The state is finite, no bound is needed; it is part of the run `seat`.
* `WindowRules`: one window, because windows meet only in `Sync` and `RefreshAll`, which treat each alike;
  two windows with `SentBound` = 1 were also tried for the invariants (362 502 states, no error).
  `SentBound` = 2 is how many configures a client leaves unanswered: one that is overtaken and one that
  overtakes it.
* `ConfigReader`: six lines are three sections of one key, two sections with two keys each, or one with a repeated
  key, with the malformed values in any position. A vocabulary has seven or eight lines, and holds the sections
  whose parser fields have the same names (`app_id` in tile and decoration rules).

## Fairness

The window, tile, scroll and input modules state safety only, and TLC checks that they do not deadlock.
`ExtWorkspace` assumes `WF(Read(p))`: a client that never reads is disconnected by libwayland when its socket is
full, which `Disconnect` models. `WindowRules` assumes `WF(SendConfigure(w))`, since wlroots
sends scheduled configures in an idle callback of every turn of the loop, and
`WF(AckAndCommit(w))`, which xdg-shell requires of clients; nothing is assumed of
users, of reloads or of any other request. `Geometry` assumes `WF(PrimaryFrame)`: the backend delivers a frame event for
a frame that was scheduled or is due after a commit. It assumes nothing when none was, which is the hazard.
`Instances` assumes `WF` of the step a running or crashing process is in the middle of and of senders that are not silent (a process that
can run does), and `SF(Accept(i))`: one turn of the event loop serves every descriptor that is ready, so a connection that
waits again and again while commands run is accepted in the end.

## Proofs

Every invariant and action property that a passing run checks is also a theorem. A proof module extends the modules it is about, and each theorem stands for all values of the constants their
assumptions allow; further hypotheses are named here.

### The window core and the layouts

`DesktopProofs`, from `CountAssumption`, `NobodyAssumption` and `KindAssumption`. Of the core:

* `Invariance`: `IInv`, that the state record is `Sound` and `Exact`, holds in every reachable state.
  `Sound` has two halves. `Kept` (types, mapped windows are listed, the keyboard follows the focus, a grab
  has its window) holds between any two calls of a callback; `FocusSound` (the focused window is mapped,
  on the current workspace, and has been told) is broken while `focus_toplevel` runs and restored at its
  end. `Exact` (the scene shows what it should) is broken by every change of a window and restored by
  `server_workspace_apply_visibility` at the end of the callback. The invariants of the run are not
  inductive one by one: that the focus is live needs the focused window to be listed, which needs
  mapped windows to be listed, and that nothing dangles needs the shown windows to be exact.
* There is one lemma for each function from record to record, stating what it keeps and
  establishes, and one step for each action, which chains the lemmas in the order of the calls.
* `TypeCorrect`, `FocusLive`, `KeyboardSafe`, `VisibilityExact`, `GrabSound`, `NoDangling`, `FocusTold` follow: each
  is `Spec => []P`. So do the action properties `MinimizedStays`, `MovesOnlyFocused` and `SwitchesFocusShown`: for each
  of the functions there is one more lemma that says what it leaves alone, and for the last, that the search for the next
  focus finds a shown window if there is one.

Of the layouts:

* `DesktopImplementsToplevels`: every step of `Desktop` is one of `Toplevels` or leaves its variables alone, so each theorem
  about the core holds with layouts on top (`CoreCarriesOver`, `CoreStepsCarryOver`).
* `DeskInvariance`: `DInv` adds to `IInv` that the window list and the scene's nodes hold each window once and are the
  same windows, and `FocusCovers`: in the stack layout the focused window is above *every* mapped window of its workspace.
  `FocusedOnTop` alone is not inductive, because the focus may be on a minimized window (`move_refocus`), which a bar
  may then activate: it comes into view without a focus change, so nothing raises it, and it must have been
  above the others all along. Lemmas about the lists (`UnlinkOnce`, `AppendOnce`, `RaiseOnce`) say what the
  list operations keep of the order; a frame lemma per callback says which windows, workspaces and grabs it leaves alone.
* `DeskTypeCorrect`, `FocusNeverCovered`, and the action properties `MovesEndArranged` and `OnlyGrabsDisturb` follow.

### Tiles, strips and glides

`TileGridProofs` (any windows, rule orders and step counts):

* The comparison is a strict total order if no two windows share a user key. Then a window's rank, the number of windows
  before it, is a bijection from windows to cells, and the arrangement its inverse (`ArrangementByRank`); exchanging the
  keys of two windows exchanges their ranks (`SwapRank`). The invariant is `TypeOK /\ KeysDistinct`.
* `KeysStayDistinct`, `TypeCorrect`, `LayoutsRestoreRules`; and `DropsExchange`, that a drop exchanges two windows and moves no other.
* `MovesInsert`: a command is *one* insertion along the order, the row or the column, whatever the number of steps. The
  loop swaps with one neighbour after another, or stops at the edge; `WalkShifts` says what the screen looks like after
  k passes.

`ScrollStripProofs` (any windows, step counts and number of outputs): `TypeCorrect`, `StripAlwaysShown`, `UsedHeadsStayUsed`, `EnterShows`.
`StripShown` holds although clicks move the slot without arranging, because it
is about the columns, and everything that changes the order or the columns ends in an arrangement. An arrangement is a loop over the
outputs, and an output's turn places the windows that lie on it *then*, which earlier turns may have moved there or taken
away. `TurnIs` says what one turn does and `TurnKeeps` what it keeps; `ArrangeShows` is the loop: after any number of turns every output that
showed a window shows one, and from the turn of the cursor's output on, which also takes in what is off the screen, there are no gaps.

`GeometryProofs` (a line of any length, any cells, clients that ask for anything at any time): `TypeCorrect`, `FramesCome`, `AstrayOnlyByTakeover`.
`FrameComes` is the safety half of `Settles` and the hazard itself: frames stop when
nobody schedules one, and nothing restarts them. `layout_anim_kick_outputs` looks at the
animation's place and not the node's, so the proof needs that the two are the same (`Astray` is false) as long as the window is not
dragged, which every action keeps but the one that `AstrayByTakeover` names.

### Protocols and devices

`ExtWorkspaceProofs` (any panels, workspaces and bounds of the queues):

* `Invariance`, with `IInv` a type invariant and per panel `Session` (who holds what), `Asks` (what follows what in
  the queue of requests: nothing after a stop, nothing about a handle after its destroy) and `Tells` (at every `done` in flight at most one
  handle will be staged). `OneEverShown`, `RequestsFind` and `TypeCorrect` follow.
* `ViewImplemented`: the initial states and steps of `ExtWorkspace` are those of `PanelView` under `View`, the safety half of
  `ImplementsView`. The argument is that a burst of events, whatever was in flight before, stages exactly the current workspace.

`SeatProofs` (any mice, fingers, keyboards, keys, bindings, outputs, devices, rules and surfaces):

* `PressesAlwaysEnd`, `DragsAreHeld`, `TouchAlwaysOwned`, `InputTypeCorrect`: `ButtonsInv` adds `SwallowedPressHeld` to what the run
  checks. With two mice both holding left, the release that is swallowed must not be the one a client waits for.
* `KeysNeverStick`: what the client was told is down is down on a plugged keyboard, with the type invariant as the strengthening.
* `MapsAlwaysFollow`: for all devices alike, the first rule decides that names an output there is, or the one that left last. The
  least such rule exists by well-foundedness of the naturals (`LeastExists`).
* `ActiveAlwaysPointed`: the constraint, its listener, its region and the pointer's surface agree, through the call back of a oneshot
  deactivation (`ConstrainKeeps`).

### Files and processes

`ConfigProofs`, about the file (lines of any kind and number, from `VocabularyAssumption`):

* `ReaderInvariance`: `ReadInv` says what the parser's state *is* after the lines f. As long as nothing is wrong with them
  (`SoFar`; the open block may still become complete) it is `Parsed(f)`: the open section, its block, no unfinished rule of any other section, the lists of closed blocks, and
  the settings, each defined from the whole of f. Afterwards it has given up. `LoadIsDeclared` alone says nothing about
  the open block or the flags, so it is not inductive.
* What one more line does to each of these is a lemma: `HeadAfter`, `BlockAfter`, `ClosedAfter`, `SettingsAfter`. Under them, a table of the last
  value per key grows by one entry (`TableGrows`), and a list of blocks, which is defined by rank and not by recursion, by
  one at its end (`BlocksGrow`). `StepKeeps` has a case for each kind of line; `Flushed` is the end of a section, which leaves
  at most what the next header clears, and `FinishIs` of the file.
* `LoadsAsDeclared` and `ReaderTypeCorrect` follow.

`ConfigProofs`, about the windows (any sets of windows, names and files, from `NameAssumption` and `BoundAssumption`):

* `RulesInvariance`: each window is `Right`: well-typed, its float flag is what the rules say (`Cached`),
  and the mode scheduled is the wanted one (`Told`). `ApplyRights` is the heart: whatever was
  scheduled, sent or answered, `Apply` makes a `Cached` window `Right`, because the two-part check returns early
  only if the wanted mode is the scheduled one already. `SyncRights` carries that to all windows, and each
  callback ends in one or the other.
* `RulesTypeCorrect`, `FloatsAsRuled`, `DecoratedAsRuled` follow.

`InstancesProofs` (any processes, senders and queue length): `SoleAlwaysReachable` and `MarkedAtMostOnce`, with the invariant
`IInv == TypeOK /\ KeepsToItself /\ SoleInstanceReachable /\ CrashMarkedOnce`. `KeepsToItself` is the strengthening: an
undisturbed process is the only one that lives, because whoever else started since would have disturbed it.

### How loops are proved about

The library's induction theorems take an operator as a parameter, which no prover at hand can instantiate. What a loop computes
is therefore had from a least counterexample: the naturals are well founded, so if some pass broke a rule there would be a first one, and
the pass before kept it (`LeastNumber` and what cites it). That a recursive function has a value at every argument is shown
the same way, as the union of its values up to n (`LoopExists` and its like). This is why loops are recursive functions in the modules
proved about: `Walk` of `TileOrder`, `Only` and `Arrange` of `ScrollStrip`; and why `ExtWorkspace` lists handles by
`InOrder`, the one list in increasing order, instead of by the sorting operator of the community modules.

### Only model-checked

* Liveness under fairness: `CatchesUp`, both `Settles`, `LoopProgresses`, `SentIsHandled` and the fairness half of
  `ImplementsView`. The prover has no rules for `ENABLED` and `WF`.
* The counterexamples of the next section.

`Load`, which `WindowRules` uses, folds over a file the same `Step` that `ConfigReader` takes line by line. That the two agree
follows from the definitions by induction over the file, which is out of reach here; the theorems about windows do not depend on it.

## Where the code and its comments disagree

Four runs end in a counterexample, each against a sentence in the repository:

| Run | The code | The sentence |
|---|---|---|
| `move_refocus` | moving the focused window away can focus a minimized window (`main.c:2219` lacks the test of `2172`) | "repair focus/visibility", "hidden until explicit re-activation" |
| `touch_press` | a finger dragging by a client's request is lifted without a release | "release emulated pointer press" |
| `oneshot` | a oneshot constraint its client destroys while it is active is deactivated, and so destroyed, again (`main.c:3735`) | "detach listeners and deactivate if currently active" (3727) |
| `maximize_twice` | a second maximize request before the first is acknowledged overwrites the restore place with the maximized one (`main.c:1552-1562`) | "Capture pre-maximize geometry once so normalize can restore it verbatim" (1559) |

Three more are stated in the modules, with no run of their own; TLC refutes each when the definition is put on the
`INVARIANT` or `PROPERTY` line of the named `.cfg`:

| Definition | Where | The code | The sentence |
|---|---|---|---|
| `OneActivated` | `Toplevels`, `ToplevelsMove.cfg` | `server_workspace_go` and `toplevel_set_minimized` forget the focused window without telling it, so two windows draw themselves active | "Activate one mapped view" |
| `MoveIsShown` | `TileGrid`, `MCTileGrid.cfg` | a move of several steps that meets the edge returns without arranging | "Move focused tiled view by N slots" |
| `HeadsAreIndependent` | `ScrollStrip`, `MCScrollStrip.cfg` | columns beside the selected one lie on neighbouring outputs, which take them over | "each head scrolls independently" |

Seen while modelling:

* After a click on a layer surface, clicking the window that is still `focused_toplevel` does not
  give it the keyboard back (`main.c:1789`).
* After a focus change the old window's foreign-toplevel handle goes on saying activated
  next to the new one's, until something else refreshes it (`main.c:1795`).
* Switching to an empty workspace leaves the keyboard with a layer surface that has it.
* In the scroll layout, closing a window to the left of the focused column shifts the
  slot's meaning, so the focused window leaves the screen (`main.c:1363`). Activating a window from a bar changes the slot
  without arranging.
* A tablet button released over a tablet-aware surface leaves the emulated right press behind.
* A second finger on a touch-aware surface drops the release owed for the first (`main.c:3380`).
* A reload whose file has vanished succeeds with the defaults (`config.c:1022`).
* A key release is forwarded although a binding consumed its press (`main.c:2935`). A keyboard unplugged while another is plugged
  leaves the seat without a keyboard until the next key.
* A resize grab takes over from a move (a client may ask for it), and its release does not arrange (`main.c:3978-3996`); the next
  commit of an output does (`main.c:957-963`). This is why `MoveEndsArranged` speaks of the end of the grab.
* A focused tiled window that a new title makes a floating one is not raised.
* A redundant unmaximize request moves the window to an old restore place, as `has_restore` is never reset (`main.c:1564-1600`).
* A client's move request that takes over from another window's drag leaves the dragged window where it was until a frame comes for
  another reason: `layout_anim_kick_outputs` tests the animation's place, not the node's (comment at `main.c:498`). Without `~Astray` in
  `OnItsWay`, TLC refutes `FrameComes` and `Settles`.
* With several outputs, a strip that is longer than its output spills onto its neighbours, which take the windows over in the order of
  `server->outputs`. Entering the scroll layout with the cursor on the focused window's output, the strips to its right may shift the focused
  window off it; `EnterShowsFocused` excepts that.
* `output_destroy` applies the input maps before the output leaves the list (`main.c:976`, `981`), so a device may
  point to an output that is gone until the next hotplug; and `CONFIG.md:125`, "First matching rule wins", is of the rules whose
  output exists.
* Under an active constraint the pointer cannot move while the cursor is over a hole of its own window.
* A second instance takes the socket path from the first, and the first to end unlinks it (`CONFIG.md:224`, `DEVFAQ.md:75-90`).
  When `socket()` fails, `ipc_socket_path` stays set and `ipc_fini` unlinks a path that is another process's.
* A client that connects and sends nothing stops the event loop (`Silent = {s1}` refutes `LoopProgresses`), and a `when=`
  predicate that sends more commands than the queue holds waits for the loop that waits for it (`Backlog = 1`).

## What is not modelled

* *Popups*: placed when their client asks, no state that others read.
* *Logging, command line, Xwayland satellite, scripts, protocol XML, build, tests*: no logic of the compositor's own.
* In the modelled parts: arranging without outputs or without room between panels (`server_arrange_toplevels` returns early,
  `main.c:2032`, `2059`), the primary output's change with the cursor, the shutdown hook, which is waited for before the socket is unlinked
  (`main.c:4289`), geometry in pixels, serials, the choice of the surface under the cursor,
  value syntax in the configuration, the ext-workspace group and its outputs, memory
  exhaustion, layer-shell geometry and workareas, fullscreen (which keeps no state of its own), installing the
  signal handlers, and the order of teardown inside wlroots.

## Plan

Done: all of the modules above; the abstract specifications `PanelView` (implemented by `ExtWorkspace`) and
`Toplevels` (implemented by `Desktop`); the steps of both refinements are proved.

Left, in this order:

1. `Desktop` with the focus slot of the scroll layout, so that activation without arranging shows.
2. Layer-shell geometry: workareas that shrink and grow with panels and outputs.
3. Fullscreen together with maximize, and sizes in `Geometry`.

## Running it

    tlc -config MCDesktop.cfg MCDesktop.tla
    tlapm DesktopProofs.tla

Each run of `PROJECT.json` is a module and a `.cfg`; none takes more than two minutes.
