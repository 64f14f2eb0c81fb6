------------------------------ MODULE TileGrid ------------------------------
(***************************************************************************)
(* The tiled windows of one workspace and output under the user's move     *)
(* commands, drag and drop, layout switches, and clients that change their *)
(* title and with it the tile rule they match (src/main.c).                *)
(*                                                                         *)
(* The set of windows does not change here: every window is mapped, tiled  *)
(* and on the current workspace.                                           *)
(***************************************************************************)
EXTENDS TileOrder, SequencesExt

CONSTANTS
  Window,      \* the tiled windows
  OrderValue,  \* the order= values of the tile rules
  Steps        \* the step counts given to the commands

ASSUME WindowAssumption == IsFiniteSet(Window) /\ Window # {}
ASSUME OrderAssumption  == OrderValue \subseteq Int /\ OrderValue # {}
ASSUME StepsAssumption  == Steps \subseteq Int \ {0}

VARIABLES
  tile,      \* tile_order and tile_user_key of every window
  rule,      \* the order of the tile rule each window matches
  layout,    \* server->layout
  focused,   \* server->focused_toplevel
  arranged   \* whether the windows were arranged since their order changed

vars == << tile, rule, layout, focused, arranged >>

Layout == {"stack", "tile", "scroll"}
Cells  == 0 .. Cardinality(Window) - 1
Current == Arrangement(tile, Window)

(* server_arrange_toplevels *)
Arrange == arranged' = IF layout' = "stack" THEN tile' = tile /\ arranged ELSE TRUE

Apply(result) ==
  /\ tile' = result.tile
  /\ UNCHANGED << rule, layout, focused >>
  /\ IF result.arrange THEN Arrange ELSE arranged' = (tile' = tile /\ arranged)

(* The commands in sort order work in both layouts, those in grid          *)
(* coordinates only in the tile layout.                                    *)
TileMove(steps) ==
  layout # "stack" /\ Apply(MoveBy(tile, Window, focused, "order", steps))

TileEdge(sign) ==
  layout # "stack" /\ Apply(MoveToEnd(tile, Window, focused, "order", sign))

GridVert(steps) ==
  layout = "tile" /\ Apply(MoveBy(tile, Window, focused, "column", steps))

GridVertEdge(sign) ==
  layout = "tile" /\ Apply(MoveToEnd(tile, Window, focused, "column", sign))

GridHoriz(steps) ==
  layout = "tile" /\ Apply(MoveBy(tile, Window, focused, "row", steps))

(* A Super-drag of the focused window is dropped on another one. *)
Drop(onto) ==
  /\ layout # "stack"
  /\ focused # onto
  /\ tile' = SwapSortKeys(tile, focused, onto)
  /\ UNCHANGED << rule, layout, focused >>
  /\ Arrange

Focus(w) == focused' = w /\ UNCHANGED << tile, rule, layout, arranged >>

(* set_title and set_app_id: the window's order comes from the rules again.*)
Retitle(w, o) ==
  /\ rule' = [rule EXCEPT ![w] = o]
  /\ tile' = [tile EXCEPT !.order[w] = o]
  /\ UNCHANGED << layout, focused >>
  /\ Arrange

(* output_commit ends in layer_shell_arrange: every committed frame        *)
(* arranges the windows again.                                             *)
OutputCommit == UNCHANGED << tile, rule, layout, focused >> /\ Arrange

(* Mutant: the tile rules are not looked up again. *)
SetLayoutKeepingOrder(l) ==
  /\ l # layout
  /\ layout' = l
  /\ UNCHANGED << tile, rule, focused >>
  /\ Arrange

(* server_set_layout *)
SetLayout(l) ==
  /\ l # layout
  /\ layout' = l
  /\ tile' = IF l = "stack" THEN tile ELSE [tile EXCEPT !.order = rule]
  /\ UNCHANGED << rule, focused >>
  /\ Arrange

(* Each window took the next user key when it was created. *)
Init ==
  /\ rule \in [Window -> OrderValue]
  /\ \E key \in [Window -> 1 .. Cardinality(Window)] :
        IsInjective(key) /\ tile = [order |-> rule, key |-> key]
  /\ layout = "tile"
  /\ focused \in Window
  /\ arranged = TRUE

Command ==
  \/ \E steps \in Steps : TileMove(steps) \/ GridVert(steps) \/ GridHoriz(steps)
  \/ \E sign \in {-1, 1} : TileEdge(sign) \/ GridVertEdge(sign)

Next ==
  \/ Command
  \/ \E w \in Window : Drop(w) \/ Focus(w)
  \/ \E w \in Window, o \in OrderValue : Retitle(w, o)
  \/ \E l \in Layout : SetLayout(l)
  \/ OutputCommit

Spec == Init /\ [][Next]_vars

-----------------------------------------------------------------------------
(* What the commands mean *)

(* Window f passes the cells of its line that many places on, or all there *)
(* are: the windows in them close up behind it, and it takes the last one. *)
Inserted(cellOf, f, line, steps) ==
  LET cols   == Columns(Cardinality(Window))
      away   == Sign(steps) * (IF line = "column" THEN cols ELSE 1)
      i      == CHOOSE c \in Cells : cellOf[c] = f
      passed == {c \in Cells : /\ line = "row" => c \div cols = i \div cols
                               /\ \E m \in 0 .. Length(steps) : c = i + m * away}
  IN  [c \in Cells |-> IF c \notin passed THEN cellOf[c]
                       ELSE IF c + away \in passed THEN cellOf[c + away] ELSE f]

-----------------------------------------------------------------------------
(* Properties *)

(* Every variable holds a value of its kind. *)
TypeOK ==
  /\ tile \in [order : [Window -> OrderValue], key : [Window -> 1 .. Cardinality(Window)]]
  /\ rule \in [Window -> OrderValue]
  /\ layout \in Layout
  /\ focused \in Window
  /\ arranged \in BOOLEAN

(* No two windows ever share a user key, so the comparison function is a   *)
(* strict order and qsort, which is not stable, has exactly one result.    *)
KeysDistinct == IsInjective(tile.key)

(* The swaps of a command add up to one insertion along the order, the row *)
(* or the column, and windows off that line keep their cells               *)
(* (the server_tile_move functions).                                       *)
MovesAreInsertions ==
  \A cellOf \in {Current}, line \in Line :
     /\ \A steps \in Steps :
          Arrangement(MoveBy(tile, Window, focused, line, steps).tile, Window)
            = Inserted(cellOf, focused, line, steps)
     /\ \A sign \in {-1, 1} :
          Arrangement(MoveToEnd(tile, Window, focused, line, sign).tile, Window)
            = Inserted(cellOf, focused, line, sign * Cardinality(Window))

(* A drop exchanges the two windows and no others, whatever their rules    *)
(* say (server_cursor_button).                                             *)
DropExchanges ==
  \A onto \in Window, cellOf \in {Current} :
     Arrangement(SwapSortKeys(tile, focused, onto), Window)
       = [c \in Cells |-> CASE cellOf[c] = focused -> onto
                             [] cellOf[c] = onto -> focused
                             [] OTHER -> cellOf[c]]

(* Entering a tiling layout brings back the order the rules ask for, from  *)
(* whatever the user moved before (server_set_layout).                     *)
LayoutRestoresRules ==
  [][layout' \notin {layout, "stack"} =>
        \A i, j \in Cells : rule[Current'[i]] < rule[Current'[j]] => i < j]_vars

(* "Move focused tiled view by N slots in sort order": the command's move  *)
(* is on the screen when it returns (server_tile_move_focused_n).          *)
MoveIsShown == layout # "stack" => arranged
=============================================================================
