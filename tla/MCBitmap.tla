------------------------------ MODULE MCBitmap ------------------------------
(* A small instance of Bitmap for TLC: groups of 4, 3 and 2 blocks.        *)
EXTENDS Bitmap

FourThreeTwo == [t \in Tiers |-> 4 - t]
=============================================================================
