----------------------------- MODULE MCDemotion -----------------------------
(* Small instances of Demotion for TLC.                                    *)
EXTENDS Demotion

CONSTANTS c1, c2, k

OneTwoOne == [t \in Tiers |-> IF t = 1 THEN 2 ELSE 1]

OneEach == [t \in Tiers |-> 1]

Bio(l, w) == [blk |-> l, write |-> w]

(* Two blocks that are written and one that takes up room.                 *)
TwoWritten == { Bio(0, TRUE), Bio(1, TRUE), Bio(2, FALSE) }

(* Reads only, of what fits the upper tiers.                               *)
ThreeRead == { Bio(l, FALSE) : l \in 0 .. 2 }

Symmetry == Permutations({c1, c2})
=============================================================================
