---------------------------- MODULE MCBlockArea ----------------------------
(* Small instances of BlockArea for TLC.                                   *)
EXTENDS BlockArea

(* Tiers of 3, 2 and 1 blocks.                                             *)
ThreeTwoOne == [t \in Tiers |-> 3 - t]

(* Clients that use the device in fixed, disjoint extents.                 *)
FixedExtents == { Extent(0, 2), Extent(3, 4), Extent(5, 5) }

FixedBios == { Call(x, w) : x \in FixedExtents, w \in BOOLEAN }

(* Groups of 2, 4 and 1 blocks: group 1 has room for more extents than     *)
(* group 0, so that those found there can fill group 0's list.             *)
TwoFourOne ==
  [t \in Tiers |-> CASE t = 0 -> 2 [] t = 1 -> 4 [] t = 2 -> 1]

(* Bios that overlap each other in part, one of them a write.              *)
MixedExtents ==
  { Extent(1, 1), Extent(1, 2), Extent(2, 4), Extent(4, 5), Extent(0, 3) }

MixedBios ==
  { Call(x, FALSE) : x \in MixedExtents } \union { Call(Extent(1, 1), TRUE) }

SomeExtents == { Extent(0, 4), Extent(1, 1) }

OneDiscard == { Extent(1, 2) }

(* Upper tiers of 3 blocks, and requests for them in threes.               *)
ThreeThreeOne == [t \in Tiers |-> IF t = 2 THEN 1 ELSE 3]

WritesOfThree == { Call(Extent(0, 2), TRUE), Call(Extent(3, 5), TRUE) }
=============================================================================
