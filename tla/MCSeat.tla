------------------------------- MODULE MCSeat -------------------------------
(***************************************************************************)
(* Instances of the modules of the seat for the model checker.  The        *)
(* modules share nothing but "quitting", and their properties are each     *)
(* about one of them: a behaviour moves one part, chosen at the start, and *)
(* the other parts only ever end the loop.                                 *)
(***************************************************************************)
EXTENDS PointerInput, Keyboards, InputMaps, PointerConstraint

CONSTANTS screen, panel, pen1

VARIABLE part

RuleSets ==
  { [i \in Input |-> IF i = pen1 THEN << screen, panel >> ELSE << panel >>],
    [i \in Input |-> << >>] }

Part == {"buttons", "keys", "maps", "constraint"}

SeatInit == Init /\ KInit /\ MInit /\ PInit /\ part \in Part

SeatNext ==
  /\ UNCHANGED part
  /\ \/ part = "buttons" /\ Next /\ UNCHANGED << kvars, mvars, pvars, quitting >>
     \/ part = "keys" /\ KNext /\ UNCHANGED << vars, mvars, pvars >>
     \/ part = "maps" /\ MNext /\ UNCHANGED << vars, kvars, pvars >>
     \/ part = "constraint" /\ ~freedTwice /\ PNext /\ UNCHANGED << vars, kvars, mvars >>
     \/ part # "buttons" /\ RequestTerminate /\ UNCHANGED << vars, kvars, mvars, pvars >>

SeatSpec == SeatInit /\ [][SeatNext]_<< vars, kvars, mvars, pvars, quitting, part >>
=============================================================================
