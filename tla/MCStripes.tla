----------------------------- MODULE MCStripes -----------------------------
(* An instance of Stripes for TLC; the groups of Extents play no part.     *)
EXTENDS Stripes

OneEach == [t \in Tiers |-> 1]
=============================================================================
