-------------------------- MODULE MCAvailableAreas --------------------------
(* A small instance of AvailableAreas for TLC: groups of 5, 2 and 1 blocks. *)
EXTENDS AvailableAreas

FiveTwoOne == [t \in Tiers |-> CASE t = 0 -> 5 [] t = 1 -> 2 [] t = 2 -> 1]
=============================================================================
