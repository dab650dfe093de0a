--------------------------- MODULE MCHazardLedger ---------------------------
(* HazardLedger with a coin and a wire. *)
EXTENDS HazardLedger, TLC

CONSTANTS coin, wire, i1, w1

CoinAndWire == [i \in Instances |-> IF i = w1 THEN wire ELSE coin]
AnyEventAnyChild == Permutations(Photos) \cup Permutations(Children)
=============================================================================
