--------------------------- MODULE MCCommandGate ---------------------------
(* Instances of CommandGate for TLC: one endpoint with a level and a colour. *)
EXTENDS CommandGate, TLC

CONSTANTS level, colour

MCSlots == {level, colour}
Sets(l, c) == (level :> l) @@ (colour :> c)

(* A plain level, and a colour value, which sets the level with strength 2. *)
MCTwoShapes == {Sets(1, 0), Sets(2, 1)}
MCOneShape  == {Sets(2, 1)}
=============================================================================
