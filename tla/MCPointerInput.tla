--------------------------- MODULE MCPointerInput ---------------------------
(* Instances of module PointerInput for the model checker. *)
EXTENDS PointerInput, TLC

Symmetry == Permutations(Mouse) \cup Permutations(Finger)
=============================================================================
