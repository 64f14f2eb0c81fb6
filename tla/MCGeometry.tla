----------------------------- MODULE MCGeometry -----------------------------
(* Instances of module Geometry for the model checker. *)
EXTENDS Geometry

Corners == {0, Far}
=============================================================================
