---------------------------- MODULE WindowRules ----------------------------
(***************************************************************************)
(* What the configuration's rules decide for each window: whether it       *)
(* floats in the tiling layouts, and the decoration mode its client is     *)
(* told (src/main.c).  Both are kept per window and depend on the rules,   *)
(* the layout and the window's title and app_id, which change at any time  *)
(* while configures and their answers are under way.                       *)
(*                                                                         *)
(* The order= half of a tile rule is in module TileGrid.                   *)
(***************************************************************************)
EXTENDS ConfigFile

CONSTANTS
  Window,
  AppId, Title,  \* what clients call their windows, "" before they do
  OnDisk,        \* the files that a reload may meet
  SentBound      \* configures a client leaves unanswered (bound of the model)

Unnamed == ""

ASSUME NameAssumption  == Unnamed \in AppId \cap Title
ASSUME BoundAssumption == SentBound \in Nat \ {0}

VARIABLES
  config,   \* server->config
  layout,   \* server->layout
  window    \* per window: its life, app_id, title and tile_float, whether it
            \* has a decoration object, the mode scheduled for that and the
            \* client's current one, whether a configure is due, and the modes
            \* in configures the client has not answered

vars == << config, layout, window >>

Layout == {"stack", "tile", "scroll"}
Mode   == {"client", "server"}

NewWindow ==
  [life |-> "new", app |-> Unnamed, title |-> Unnamed, float |-> FALSE, decorated |-> FALSE,
   scheduled |-> "none", current |-> "none", due |-> FALSE, sent |-> << >>]

Wanted(w, lay, cfg) ==
  IF lay # "stack" /\ ~w.float /\ PreferServerSide(cfg, w.app, w.title) THEN "server" ELSE "client"

(* Mutant: the mode is sent again whether or not the client has it. *)
ApplyAlways(w, lay, cfg) ==
  IF w.decorated /\ w.life # "new"
  THEN [w EXCEPT !.scheduled = Wanted(w, lay, cfg), !.due = TRUE] ELSE w

(* toplevel_apply_decoration_mode *)
Apply(w, lay, cfg) ==
  LET mode == Wanted(w, lay, cfg)
  IN  IF w.decorated /\ w.life # "new" /\ ~(w.current = mode /\ w.scheduled = mode)
      THEN [w EXCEPT !.scheduled = mode, !.due = TRUE]
      ELSE w

(* toplevel_refresh_tile_props *)
Refresh(w, cfg) == [w EXCEPT !.float = FloatInTile(cfg, w.app, w.title)]

(* server_sync_xdg_decorations *)
Sync(all, lay, cfg) == [v \in Window |-> Apply(all[v], lay, cfg)]

RefreshAll(all, cfg) == [v \in Window |-> Refresh(all[v], cfg)]

(* One window's rules are looked up again, every window's mode is synced.  *)
Relook(w, changed) ==
  /\ window' = Sync([window EXCEPT ![w] = Refresh(changed, config)], layout, config)
  /\ UNCHANGED << config, layout >>

-----------------------------------------------------------------------------
(* Clients *)

(* A commit, the first of which initializes the window (toplevel_commit).  *)
Commit(w) ==
  /\ window' = [window EXCEPT ![w] =
       Apply([@ EXCEPT !.life = IF window[w].life = "new" THEN "initialized" ELSE window[w].life],
             layout, config)]
  /\ UNCHANGED << config, layout >>

(* The client answers a configure, and with it all earlier ones, and       *)
(* commits.                                                                *)
AckAndCommit(w) ==
  \E i \in DOMAIN window[w].sent :
    /\ window' = [window EXCEPT ![w] =
         Apply([@ EXCEPT !.current = window[w].sent[i],
                         !.sent = SubSeq(window[w].sent, i + 1, Len(window[w].sent))],
               layout, config)]
    /\ UNCHANGED << config, layout >>

(* toplevel_map *)
Map(w) ==
  /\ window[w].life = "initialized"
  /\ Relook(w, [window[w] EXCEPT !.life = "mapped"])

(* The window leaves the screen and has to be initialized again; its       *)
(* tile_float stays (toplevel_unmap).  wlroots may forget its names.       *)
Unmap(w) ==
  /\ window[w].life = "mapped"
  /\ \E names \in {window[w], NewWindow} :
       window' = [window EXCEPT ![w] = [@ EXCEPT !.life = "new", !.app = names.app,
                    !.title = names.title, !.due = FALSE, !.sent = << >>]]
  /\ UNCHANGED << config, layout >>

(* toplevel_handle_set_title and toplevel_handle_set_app_id *)
SetTitle(w, t) == t # window[w].title /\ Relook(w, [window[w] EXCEPT !.title = t])
SetAppId(w, a) == a # window[w].app   /\ Relook(w, [window[w] EXCEPT !.app = a])

(* xdg_new_toplevel_decoration *)
NewDecoration(w) ==
  /\ ~window[w].decorated
  /\ window' = [window EXCEPT ![w] = Apply([@ EXCEPT !.decorated = TRUE], layout, config)]
  /\ UNCHANGED << config, layout >>

(* xdg_decoration_handle_request_mode *)
RequestMode(w) ==
  /\ window[w].decorated
  /\ window' = [window EXCEPT ![w] = Apply(@, layout, config)]
  /\ UNCHANGED << config, layout >>

(* xdg_decoration_handle_destroy *)
DecorationGone(w) ==
  /\ window[w].decorated
  /\ window' = [window EXCEPT ![w] = [@ EXCEPT !.decorated = FALSE, !.scheduled = "none",
                                               !.current = "none", !.due = FALSE, !.sent = << >>]]
  /\ UNCHANGED << config, layout >>

Destroy(w) ==
  /\ window[w] # NewWindow
  /\ window' = [window EXCEPT ![w] = NewWindow]
  /\ UNCHANGED << config, layout >>

-----------------------------------------------------------------------------
(* The compositor *)

(* wlroots sends what is due when the loop is idle; it may leave out a     *)
(* mode that is the client's current one, whatever is still unanswered.    *)
SendConfigure(w) ==
  /\ window[w].due
  /\ \/ /\ Len(window[w].sent) < SentBound
        /\ window' = [window EXCEPT ![w].due = FALSE, ![w].sent = Append(@, window[w].scheduled)]
     \/ /\ window[w].current = window[w].scheduled
        /\ window' = [window EXCEPT ![w].due = FALSE]
  /\ UNCHANGED << config, layout >>

(* Mutant: the layout changes and the windows' rules are not looked up.    *)
SetLayoutOnly(l) ==
  /\ l # layout
  /\ layout' = l
  /\ window' = Sync(window, l, config)
  /\ UNCHANGED config

(* server_set_layout *)
SetLayout(l) ==
  /\ l # layout
  /\ layout' = l
  /\ window' = Sync(IF l = "stack" THEN window ELSE RefreshAll(window, config), l, config)
  /\ UNCHANGED config

(* Mutant: the modes are left to the clients' next commits. *)
ReloadWithoutSync(result) ==
  IF result.ok
  THEN /\ config' = result
       /\ window' = IF layout = "stack" THEN window ELSE RefreshAll(window, result)
       /\ UNCHANGED layout
  ELSE UNCHANGED vars

(* server_reload_config, with what loading the file gave *)
Reload(result) ==
  IF result.ok
  THEN /\ config' = result
       /\ window' = Sync(IF layout = "stack" THEN window ELSE RefreshAll(window, result),
                         layout, result)
       /\ UNCHANGED layout
  ELSE UNCHANGED vars

Results == {Load(f) : f \in OnDisk} \cup {BuiltIn}

-----------------------------------------------------------------------------

(* The program does not start with a file it rejects. *)
Init ==
  /\ config \in {r \in Results : r.ok}
  /\ layout = "stack"
  /\ window = [w \in Window |-> NewWindow]

ClientStep(w) ==
  \/ Commit(w) \/ AckAndCommit(w) \/ Map(w) \/ Unmap(w)
  \/ \E t \in Title : SetTitle(w, t)
  \/ \E a \in AppId : SetAppId(w, a)
  \/ NewDecoration(w) \/ RequestMode(w) \/ DecorationGone(w) \/ Destroy(w)

Next ==
  \/ \E w \in Window : ClientStep(w) \/ SendConfigure(w)
  \/ \E l \in Layout : SetLayout(l)
  \/ \E result \in Results : Reload(result)

(* wlroots sends what is due at the end of every turn of the loop, and a   *)
(* client answers the configures it gets.                                  *)
Fairness == \A w \in Window : WF_vars(SendConfigure(w)) /\ WF_vars(AckAndCommit(w))

Spec == Init /\ [][Next]_vars /\ Fairness

-----------------------------------------------------------------------------
(* Properties *)

(* Every variable holds a value of its kind. *)
TypeOK ==
  /\ config \in Results /\ config.ok
  /\ layout \in Layout
  /\ \A w \in Window :
        /\ window[w].life \in {"new", "initialized", "mapped"}
        /\ window[w].app \in AppId /\ window[w].title \in Title
        /\ window[w].float \in BOOLEAN /\ window[w].decorated \in BOOLEAN
        /\ window[w].scheduled \in Mode \cup {"none"} /\ window[w].current \in Mode \cup {"none"}
        /\ window[w].due \in BOOLEAN
        /\ window[w].sent \in Seq(Mode) /\ Len(window[w].sent) <= SentBound
        /\ ~window[w].decorated => window[w].scheduled = "none" /\ ~window[w].due

(* While windows are tiled, each floats exactly if the rules in force say  *)
(* so for the title and app_id it has now, whatever order reloads, layout  *)
(* switches and renamings came in (toplevel_refresh_tile_props).           *)
PropsCurrent ==
  layout # "stack" =>
    \A w \in Window : window[w].life = "mapped" =>
      window[w].float = FloatInTile(config, window[w].app, window[w].title)

(* The mode scheduled for a client is always the one the layout and the    *)
(* rules ask for now, though a mode the client has is not set again: the   *)
(* check must not take a mode that is overtaken by an unanswered configure *)
(* for one that is current (toplevel_apply_decoration_mode).               *)
DecorationCurrent ==
  \A w \in Window : window[w].life = "mapped" /\ window[w].decorated =>
    window[w].scheduled = Wanted(window[w], layout, config)

(* Once the wanted mode stays the same the client gets it, whichever       *)
(* configures were under way, and configures stop: the check before a mode *)
(* is set again ends the exchange of commits and configures.               *)
Settles ==
  \A w \in Window, mode \in Mode :
    <>[](/\ window[w].life = "mapped" /\ window[w].decorated
         /\ Wanted(window[w], layout, config) = mode)
      => <>[](window[w].current = mode /\ window[w].sent = << >> /\ ~window[w].due)
=============================================================================
