----------------------------- MODULE TileOrder -----------------------------
(***************************************************************************)
(* The sort order of tiled windows and the commands that rearrange it      *)
(* (src/main.c, tile_sorted_views and the server_tile_move functions).     *)
(*                                                                         *)
(* A record [order, key] holds tile_order and tile_user_key of every       *)
(* window.  Positions count from 0, as the C code's do, and one output     *)
(* shows all the windows of the set tiled.                                 *)
(***************************************************************************)
EXTENDS Integers, FiniteSets

(* cmp_toplevel_tile_order *)
Before(t, v, w) ==
  \/ t.order[v] < t.order[w]
  \/ t.order[v] = t.order[w] /\ t.key[v] < t.key[w]

(* tile_sorted_index *)
Rank(t, tiled, w) == Cardinality({v \in tiled : Before(t, v, w)})

(* tile_sorted_views, as a function from positions to windows: fewer than  *)
(* i + 1 windows sort before the one at position i, and more than i do not *)
(* sort after it.                                                          *)
Arrangement(t, tiled) ==
  [i \in 0 .. Cardinality(tiled) - 1 |->
     CHOOSE w \in tiled : /\ Rank(t, tiled, w) <= i
                          /\ i < Cardinality({v \in tiled : ~Before(t, w, v)})]

(* Mutant: a key is overwritten before it is copied. *)
SwapWithoutCopy(t, v, w) ==
  [t EXCEPT !.key[v] = t.key[w], !.order[v] = t.order[w], !.order[w] = t.order[v]]

SwapSortKeys(t, v, w) ==
  [t EXCEPT !.key[v]   = t.key[w],   !.key[w]   = t.key[v],
            !.order[v] = t.order[w], !.order[w] = t.order[v]]

-----------------------------------------------------------------------------
(* The grid *)

(* tile_grid_dims: the smallest c >= 1 with c * c >= n *)
Columns(n) == CHOOSE c \in 1 .. n + 1 : c * c >= n /\ \A d \in 1 .. c - 1 : d * d < n

Rows(n) == (n + Columns(n) - 1) \div Columns(n)

Line == {"order", "row", "column"}

(* Mutant: a move along a row may wrap to the next one. *)
NeighbourWrapping(line, i, n, sign) ==
  i + (IF line = "column" THEN sign * Columns(n) ELSE sign)

(* The position one step along a line, outside 0 .. n - 1 if there is none *)
Neighbour(line, i, n, sign) ==
  LET j == i + (IF line = "column" THEN sign * Columns(n) ELSE sign)
  IN  IF line = "row" /\ j \div Columns(n) # i \div Columns(n) THEN -1 ELSE j

(* One pass of a command's loop: the focused window changes places with    *)
(* its neighbour, or the loop ends for good because there is none.         *)
Bubble(s, tiled, f, line, sign) ==
  LET n == Cardinality(tiled)
      j == Neighbour(line, Rank(s.tile, tiled, f), n, sign)
  IN  IF s.ended \/ j \notin 0 .. n - 1
      THEN [s EXCEPT !.ended = TRUE]
      ELSE [s EXCEPT !.tile = SwapSortKeys(@, f, Arrangement(@, tiled)[j])]

Walk(t, tiled, f, line, sign, count) ==
  LET walk[k \in 0 .. count] ==
        IF k = 0 THEN [tile |-> t, ended |-> FALSE]
                 ELSE Bubble(walk[k - 1], tiled, f, line, sign)
  IN  walk[count]

Sign(steps)   == IF steps > 0 THEN 1 ELSE -1
Length(steps) == IF steps > 0 THEN steps ELSE -steps

(* Move by a number of steps.  The windows are arranged again only when    *)
(* every step found a neighbour.                                           *)
MoveBy(t, tiled, f, line, steps) ==
  LET walked == Walk(t, tiled, f, line, Sign(steps), Length(steps))
  IN  [tile |-> walked.tile, arrange |-> ~walked.ended]

(* Move to the end of a line: the loop is left at its last window, and     *)
(* that arranges, unless there is only one window.                         *)
MoveToEnd(t, tiled, f, line, sign) ==
  [tile |-> Walk(t, tiled, f, line, sign, Cardinality(tiled)).tile,
   arrange |-> Cardinality(tiled) >= 2]
=============================================================================
