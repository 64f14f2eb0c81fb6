---------------------------- MODULE MCToplevels ----------------------------
(* Instances of module Toplevels for the model checker. *)
EXTENDS Toplevels

Symmetry == Permutations(Window)
=============================================================================
