------------------------------ MODULE MCIoctls ------------------------------
(* A small instance of Ioctls for TLC: groups of 3, 2 and 1 blocks.        *)
EXTENDS Ioctls

ThreeTwoOne == [t \in Tiers |-> 3 - t]

SomeBios ==
  { Call(Extent(0, 1), FALSE), Call(Extent(2, 2), FALSE), Call(Extent(3, 3), TRUE) }

FirstBlocks == { Extent(0, 1) }

(* At the front, the middle and the end of a group's free blocks, and      *)
(* across the end of a group.                                              *)
SomeExtents == { Extent(0, 0), Extent(1, 2), Extent(3, 3), Extent(2, 3) }

(* Two passes, over extents that overlap.                                  *)
OneCopy == { <<2, 3, 3>> }
=============================================================================
