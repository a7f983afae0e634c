------------------------------ MODULE Extents ------------------------------
(***************************************************************************)
(* Block extents, and the geometry of the three device groups.             *)
(*                                                                         *)
(* Every structure of block_area.c is a set of extents [start, end] with   *)
(* inclusive bounds: a logical extent (ori_area), the physical extent that *)
(* holds it (rep_area), or a free extent of a device group.  The red-black *)
(* trees of the source only ever order disjoint extents, so a tree is a    *)
(* set and a descent is a test of overlap.                                 *)
(***************************************************************************)
EXTENDS Integers, FiniteSets

CONSTANT AreaBlocks  \* area_blocks[3] of the configuration, in blocks

ASSUME AreaBlocksAssumption == AreaBlocks \in [0..2 -> Nat \ {0}]

-----------------------------------------------------------------------------
Extent(s, e) == [start |-> s, end |-> e]

Span(x) == x.start .. x.end

Size(x) == x.end - x.start + 1

MIN(a, b) == IF a < b THEN a ELSE b

(* The comparison chain of area_insert and area_search: neither extent     *)
(* lies entirely on one side of the other.                                 *)
Overlap(x, y) == ~ (x.end < y.start \/ y.end < x.start)

-----------------------------------------------------------------------------
(* The blocks hypraid_make_request passes on of a bio for S..E, in stripes *)
(* of T blocks (module Stripes): its loop over whole stripes leaves a last *)
(* part, which goes out only if ET, that is E % T, is not zero.            *)
Sent(S, E, T) ==
  LET ST == T - (S % T)
      ET == E % T
      nT == (E - S + 1 - (ST + ET)) \div T
  IN  IF S \div T = E \div T \/ ET # 0 THEN S .. E ELSE S .. (S + nT * T - 1)

-----------------------------------------------------------------------------
(* The device groups: tier t holds TierBlocks(t), in the order of t.       *)
Tiers == 0..2

Bound(t) == CASE t = 0 -> 0
              [] t = 1 -> AreaBlocks[0]
              [] t = 2 -> AreaBlocks[0] + AreaBlocks[1]

TierBlocks(t) == Bound(t) .. (Bound(t) + AreaBlocks[t] - 1)

Total == AreaBlocks[0] + AreaBlocks[1] + AreaBlocks[2]

Block == 0 .. (Total - 1)

-----------------------------------------------------------------------------
(* The free extents of a set F of free blocks: available_area_insert joins *)
(* an extent with its free neighbours, so the extents of a device group    *)
(* are the maximal runs of its free blocks.                                *)
Runs(F) ==
  { x \in [start : F, end : F] :
      /\ x.start <= x.end
      /\ Span(x) \subseteq F
      /\ x.start - 1 \notin F
      /\ x.end + 1 \notin F }

(* The free extents an allocation of n blocks may take: one of exactly n   *)
(* blocks when there is one, else one of the smallest size class.  Which   *)
(* extent of a class is first in its list is left open.                    *)
FirstFit(F, n) ==
  LET exact == { x \in Runs(F) : Size(x) = n }
  IN  IF exact # {} THEN exact
      ELSE { x \in Runs(F) : \A y \in Runs(F) : Size(x) <= Size(y) }
=============================================================================
