------------------------------- MODULE Bitmap -------------------------------
(***************************************************************************)
(* bitmap.c: one map of allocated blocks for the whole device, and four    *)
(* pairs of counters over it, for the device and for each group, kept in   *)
(* unsigned ints.  hypraid_is_area_bitmap_free is what the eviction        *)
(* decisions of block_area.c read, and it reads it as a signed int.        *)
(***************************************************************************)
EXTENDS Extents

CONSTANTS
  Word,   \* the values of an unsigned int: 2^32
  Spare   \* bits of the map behind the device's

ASSUME WordAssumption ==
  /\ Word \in Nat /\ Spare \in Nat
  /\ 2 * Total < Word /\ Total + 2 * Spare < Word

(* The blocks that have a bit: nothing checks the number that the INSERT   *)
(* ioctl is given, and vzalloc allots whole pages.                         *)
Known == 0 .. (Total + Spare - 1)

VARIABLES map,      \* the blocks whose bit is set
          bitmap,   \* counters of the device
          area      \* counters of each group

bvars == <<map, bitmap, area>>

-----------------------------------------------------------------------------
(* Unsigned arithmetic.                                                    *)
Inc(u) == IF u = Word - 1 THEN 0 ELSE u + 1

Dec(u) == IF u = 0 THEN Word - 1 ELSE u - 1

(* An unsigned difference as the signed int it is returned as; an unsigned *)
(* result would never be negative.                                         *)
MinusUnsigned(u, n) == IF u >= n THEN u - n ELSE Word + u - n

Minus(u, n) ==
  LET d == IF u >= n THEN u - n ELSE Word + u - n
  IN  IF 2 * d >= Word THEN d - Word ELSE d

Counters == [free : 0 .. (Word - 1), bit_cnt : 0 .. (Word - 1)]

Taken(c) == [free |-> Dec(c.free), bit_cnt |-> Inc(c.bit_cnt)]

Freed(c) == [free |-> Inc(c.free), bit_cnt |-> Dec(c.bit_cnt)]

(* hypraid_get_bitmap_area: a block outside the device is in group -1.     *)
AreaOf(b) == IF b \in Block THEN CHOOSE t \in Tiers : b \in TierBlocks(t) ELSE -1

(* What is at area[-1] of struct hypraid_bitmap is the device's own bitmap.*)
OfDevice(b, Count(_)) == IF AreaOf(b) = -1 THEN Count(Count(bitmap)) ELSE Count(bitmap)

OfGroups(b, Count(_)) ==
  [t \in Tiers |-> IF t = AreaOf(b) THEN Count(area[t]) ELSE area[t]]

BInit ==
  /\ map = {}
  /\ bitmap = [free |-> Total, bit_cnt |-> 0]
  /\ area = [t \in Tiers |-> [free |-> AreaBlocks[t], bit_cnt |-> 0]]

(* hypraid_set_bitmap of a block: the group counts only what the device    *)
(* counted, and a full or a marked map is left as it is.                   *)
Set(b) ==
  /\ bitmap.free # 0
  /\ b \notin map
  /\ map' = map \union {b}
  /\ bitmap' = OfDevice(b, Taken)
  /\ area' = OfGroups(b, Taken)

(* hypraid_clear_bitmap; a block that is not marked could be counted too.  *)
ClearAny(b) ==
  /\ map' = map \ {b}
  /\ bitmap' = OfDevice(b, Freed)
  /\ area' = OfGroups(b, Freed)

Clear(b) ==
  /\ b \in map
  /\ map' = map \ {b}
  /\ bitmap' = OfDevice(b, Freed)
  /\ area' = OfGroups(b, Freed)

BNext == \E b \in Known : Set(b) \/ Clear(b)

BSpec == BInit /\ [][BNext]_bvars

-----------------------------------------------------------------------------
(* The groups' counters are the numbers of their blocks, marked or not,    *)
(* whatever was set or cleared twice.  The device's take a block outside   *)
(* for two, so that free gets to zero, where hypraid_set_bitmap marks      *)
(* nothing any more, before the device is full, or passes zero and wraps.  *)
Double == Cardinality(map) + Cardinality(map \ Block)

CountersMatchMap ==
  /\ bitmap.bit_cnt = Double
  /\ bitmap.free = IF Double <= Total THEN Total - Double ELSE Word + Total - Double
  /\ \A t \in Tiers :
       /\ area[t].bit_cnt = Cardinality(map \intersect TierBlocks(t))
       /\ area[t].free = AreaBlocks[t] - Cardinality(map \intersect TierBlocks(t))

(* hypraid_is_area_bitmap_free answers with the blocks left over, negative *)
(* when a request does not fit: the unsigned subtraction, returned as an   *)
(* int, is the subtraction the callers mean.  BlockArea computes AreaFree. *)
AnswerIsSigned ==
  \A t \in Tiers, n \in 0 .. Total :
    Minus(area[t].free, n)
      = AreaBlocks[t] - Cardinality(map \intersect TierBlocks(t)) - n
=============================================================================
