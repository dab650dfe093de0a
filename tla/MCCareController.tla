-------------------------- MODULE MCCareController --------------------------
(* CareController with one or two kinds, and with no or two tracked instances of the first. *)
EXTENDS CareController, TLC

CONSTANTS coin, dice, c1, c2

TwoOfAKind == [i \in {c1, c2} |-> coin]
NoKind == [i \in {} |-> coin]
AnyName == {f @@ g : f \in Permutations(Ids), g \in Permutations(Instances)}
=============================================================================
