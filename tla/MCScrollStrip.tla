--------------------------- MODULE MCScrollStrip ---------------------------
(* Instances of module ScrollStrip for the model checker. *)
EXTENDS ScrollStrip

Symmetry == Permutations(Window)

SomeSteps == {-2, -1, 1, 2}
=============================================================================
