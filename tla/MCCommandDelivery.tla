------------------------- MODULE MCCommandDelivery -------------------------
(* Small instances of CommandDelivery for TLC. *)
EXTENDS CommandDelivery, TLC

\* Two hazard tasks differ in nothing the model looks at.
Symmetry == Permutations(HazardTasks)
=============================================================================
