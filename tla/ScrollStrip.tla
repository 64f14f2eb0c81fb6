---------------------------- MODULE ScrollStrip ----------------------------
(***************************************************************************)
(* The scroll layout (src/main.c): on every output a strip of windows,     *)
(* each as wide as the output, one of which the output's slot selects.     *)
(*                                                                         *)
(* Outputs stand side by side from left to right and positions are counted *)
(* in output widths, so output o shows column o.  A window belongs to the  *)
(* output its centre lies on, and to the primary one if it lies on none.   *)
(* All windows are tiled, on the current workspace, of one rule order, and *)
(* the position easing is off or has come to rest.                         *)
(***************************************************************************)
EXTENDS Integers, SequencesExt

CONSTANTS
  Window,
  OutputCount,
  Steps,       \* the step counts given to the commands
  Nobody

ASSUME OutputAssumption == OutputCount \in Nat \ {0}
ASSUME StepsAssumption  == Steps \subseteq Int \ {0}
ASSUME NobodyAssumption == Nobody \notin Window

VARIABLES
  order,    \* the mapped windows in sort order
  column,   \* the scene position of each window
  slot,     \* workspace_scroll_slot of each output
  cursor,   \* the output under the cursor
  focused   \* server->focused_toplevel

vars == << order, column, slot, cursor, focused >>

Output == 0 .. OutputCount - 1

(* A new output joins the layout at the right and server->outputs in front.*)
OutputList == [i \in 1 .. OutputCount |-> OutputCount - i]

Strips == [order |-> order, column |-> column, slot |-> slot,
           cursor |-> cursor, focused |-> focused]

Becomes(s) ==
  /\ order' = s.order /\ column' = s.column /\ slot' = s.slot
  /\ cursor' = s.cursor /\ focused' = s.focused

-----------------------------------------------------------------------------

Windows(s) == ToSet(s.order)

(* toplevel_tile_output; primary_wlr_output is the one under the cursor.   *)
OutputOf(s, w) == IF s.column[w] \in Output THEN s.column[w] ELSE s.cursor

(* What a loop over a sequence collects that passes over the others. *)
Only(seq, set) ==
  LET kept[i \in 0 .. Len(seq)] ==
        IF i = 0 THEN << >>
        ELSE IF seq[i] \in set THEN Append(kept[i - 1], seq[i]) ELSE kept[i - 1]
  IN  kept[Len(seq)]

(* tile_sorted_views_on_output *)
Strip(s, o) == Only(s.order, {w \in Window : OutputOf(s, w) = o})

Index(strip, w) == CHOOSE i \in DOMAIN strip : strip[i] = w

(* Mutant: the slot after the last window counts as one of the strip. *)
WithinOrNext(i, n) == IF i < 0 THEN 0 ELSE IF i > n THEN n - 1 ELSE i

(* The slot counts from 0. *)
Within(i, n) == IF i < 0 THEN 0 ELSE IF i >= n THEN n - 1 ELSE i

(* Mutant: a slot is not brought back into its strip. *)
ArrangeUnclamped(s, o) ==
  LET strip == Strip(s, o)
  IN  [s EXCEPT !.column = [w \in Window |->
         IF Contains(strip, w) THEN o + Index(strip, w) - 1 - s.slot[o] ELSE @[w]]]

(* One output's turn in server_arrange_toplevels. *)
ArrangeOutput(s, o) ==
  LET strip == Strip(s, o)
      shown == Within(s.slot[o], Len(strip))
  IN  IF strip = <<>> THEN s
      ELSE [s EXCEPT !.slot[o] = shown,
                     !.column = [w \in Window |->
                       IF Contains(strip, w) THEN o + Index(strip, w) - 1 - shown
                                             ELSE @[w]]]

(* The outputs take turns, and a later one sees where an earlier one has   *)
(* put its windows.                                                        *)
Arrange(s) ==
  LET after[i \in 0 .. OutputCount] ==
        IF i = 0 THEN s ELSE ArrangeOutput(after[i - 1], OutputList[i])
  IN  after[OutputCount]

(* scroll_sync_to_focused *)
SyncToFocused(s) ==
  IF s.focused \notin Windows(s) THEN s
  ELSE LET out == OutputOf(s, s.focused)
       IN  [s EXCEPT !.slot[out] = Index(Strip(s, out), s.focused) - 1]

FocusWindow(s, w) ==
  IF s.focused = w THEN s ELSE SyncToFocused([s EXCEPT !.focused = w])

(* The output the commands act on. *)
CommandOutput(s) == IF s.focused \in Windows(s) THEN OutputOf(s, s.focused) ELSE s.cursor

(* One pass of server_tile_move_focused_n.  Positions do not change here,  *)
(* so the strip keeps its windows.                                         *)
SwapWithNext(s, sign) ==
  LET out   == OutputOf(s, s.focused)
      strip == Strip(s, out)
      j     == Index(strip, s.focused) + sign
      Exchange(w) == CASE w = s.focused -> strip[j]
                       [] w = strip[j]  -> s.focused
                       [] OTHER         -> w
  IN  IF j \notin DOMAIN strip THEN s
      ELSE [s EXCEPT !.order = [i \in DOMAIN @ |-> Exchange(@[i])]]

-----------------------------------------------------------------------------

(* A window is mapped: its scene node is still at the origin.              *)
Open(w) ==
  /\ w \notin Windows(Strips)
  /\ LET new == [Strips EXCEPT !.order = Append(@, w), !.column[w] = 0]
     IN  Becomes(Arrange(FocusWindow(new, w)))

(* Unmapped, or minimized. *)
Close(w) ==
  /\ w \in Windows(Strips)
  /\ Becomes(Arrange([Strips EXCEPT
        !.order = Only(@, Window \ {w}),
        !.focused = IF @ = w THEN Nobody ELSE @]))

(* A click or a bar's request: the slot follows, the windows do not yet.   *)
Focus(w) == w \in Windows(Strips) /\ Becomes(FocusWindow(Strips, w))

(* server_scroll_move *)
ScrollMove(steps) ==
  LET out == CommandOutput(Strips)
      n   == Len(Strip(Strips, out))
  IN  /\ n > 0
      /\ Becomes(Arrange([Strips EXCEPT !.slot[out] = Within(@ + steps, n)]))

(* server_tile_move_focused_n by one step, which arranges if it swaps.     *)
TileMove(sign) ==
  /\ focused \in Windows(Strips)
  /\ LET moved == SwapWithNext(Strips, sign)
     IN  Becomes(IF moved = Strips THEN Strips ELSE Arrange(moved))

(* output_commit ends in layer_shell_arrange. *)
OutputCommit == Becomes(Arrange(Strips))

CursorMoves(o) == Becomes([Strips EXCEPT !.cursor = o])

(* Mutant: the strips start at their first windows. *)
EnterAtStart(place) ==
  Becomes(Arrange([Strips EXCEPT !.column = place, !.slot = [o \in Output |-> 0]]))

(* server_set_layout, after another layout has put the windows on outputs. *)
EnterScroll(place) ==
  Becomes(Arrange(SyncToFocused(
    [Strips EXCEPT !.column = place, !.slot = [o \in Output |-> 0]])))

Init ==
  /\ order = <<>>
  /\ column = [w \in Window |-> 0]
  /\ slot = [o \in Output |-> 0]
  /\ cursor \in Output
  /\ focused = Nobody

Next ==
  \/ \E w \in Window : Open(w) \/ Close(w) \/ Focus(w)
  \/ \E steps \in Steps : ScrollMove(steps)
  \/ \E sign \in {-1, 1} : TileMove(sign)
  \/ \E o \in Output : CursorMoves(o)
  \/ \E place \in [Window -> Output] : EnterScroll(place)
  \/ OutputCommit

Spec == Init /\ [][Next]_vars

-----------------------------------------------------------------------------
(* Properties *)

(* Every variable holds a value of its kind. *)
TypeOK ==
  /\ order \in Seq(Window) /\ IsInjective(order)
  /\ column \in [Window -> Int]
  /\ slot \in [Output -> Nat]
  /\ cursor \in Output
  /\ focused \in Window \cup {Nobody}

Shows(s, o) == \E w \in Windows(s) : s.column[w] = o

(* No column is empty from the screen's edge to a window beyond it.        *)
NoGaps(s) ==
  \A w \in Windows(s) :
     \A k \in s.column[w] .. -1 \cup OutputCount .. s.column[w] : Shows(s, k)

(* As long as there are windows some output shows one, and a window that   *)
(* is off the screen is reached by scrolling past windows only, after any  *)
(* windows were opened, closed, moved or scrolled: an output's turn in     *)
(* server_arrange_toplevels brings its slot back into its strip, and takes *)
(* in what another turn left over.                                         *)
StripShown ==
  /\ Windows(Strips) # {} => \E o \in Output : Shows(Strips, o)
  /\ NoGaps(Strips)

(* An output that shows a window goes on showing one, if any of those it   *)
(* shows stays open, whatever other outputs' strips spill onto it or take  *)
(* back (ArrangeOutput in the order of server->outputs); only entering the *)
(* layout starts anew.                                                     *)
HeadsStayUsed ==
  [][\/ \A o \in Output :
          (\E w \in Windows(Strips) \cap Windows(Strips)' : column[w] = o)
             => Shows(Strips, o)'
     \/ \E place \in [Window -> Output] : EnterScroll(place)]_vars

(* Entering the layout shows the focused window on the output it was on    *)
(* (server_set_layout, scroll_sync_to_focused), unless that is the output  *)
(* under the cursor, which takes in what the strips to its right leave     *)
(* over; there are none to the right of the last.                          *)
EnterShowsFocused ==
  [][\A place \in [Window -> Output] :
        /\ EnterScroll(place)
        /\ focused # Nobody
        /\ place[focused] # cursor \/ place[focused] = OutputCount - 1
        => column'[focused] = place[focused]]_vars

-----------------------------------------------------------------------------
(* What the comments and documents say and the code does not do *)

(* "Each head scrolls independently": a scroll command leaves the windows  *)
(* of the other outputs where they are.                                    *)
HeadsAreIndependent ==
  [][\A steps \in Steps : ScrollMove(steps) =>
        \A w \in Windows(Strips) :
           OutputOf(Strips, w) # CommandOutput(Strips) => column'[w] = column[w]]_vars
=============================================================================
