----------------------------- MODULE FreeSpace -----------------------------
(***************************************************************************)
(* What the free extent index of a device group promises the rest of       *)
(* block_area.c: it is a set of free blocks, it takes an extent of blocks  *)
(* if it has none of them, and it serves an allocation from the front of a *)
(* free extent of exactly the size asked for or else of a smallest one;    *)
(* blocks that are all free can also be cut out by their numbers.          *)
(***************************************************************************)
EXTENDS Extents

VARIABLES
  free,  \* the free blocks
  asked  \* the blocks the last step was asked for by their count

vars == <<free, asked>>

Init == free = TierBlocks(0) /\ asked = 0

Give(x) ==
  /\ free' = IF Span(x) \intersect free = {} THEN free \union Span(x) ELSE free
  /\ asked' = 0

Take(n) ==
  /\ \E x \in FirstFit(free, n) :
       free' = free \ (x.start .. (x.start + MIN(n, Size(x)) - 1))
  /\ asked' = n

Cut(x) ==
  /\ Span(x) \subseteq free
  /\ free' = free \ Span(x)
  /\ asked' = 0

Next ==
  \/ \E s, e \in Block : s <= e /\ (Give(Extent(s, e)) \/ Cut(Extent(s, e)))
  \/ \E n \in 1 .. Total : Take(n)

Spec == Init /\ [][Next]_vars
=============================================================================
