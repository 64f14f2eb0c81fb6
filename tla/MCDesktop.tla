----------------------------- MODULE MCDesktop -----------------------------
(* Instances of module Desktop for the model checker. *)
EXTENDS Desktop

Symmetry == Permutations(Window)
=============================================================================
