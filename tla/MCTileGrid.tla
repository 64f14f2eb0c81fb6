----------------------------- MODULE MCTileGrid -----------------------------
(* Instances of module TileGrid for the model checker.  Five windows make  *)
(* a grid of three columns whose last row is not full.                     *)
EXTENDS TileGrid

Symmetry == Permutations(Window)

ManySteps == {-2, 1, 3}
=============================================================================
