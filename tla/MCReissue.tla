----------------------------- MODULE MCReissue -----------------------------
(* Small instances of Reissue for TLC: two sectors to a block, stripes of  *)
(* two blocks.                                                             *)
EXTENDS Reissue

A(o, p, n) == [ori |-> o, rep |-> p, cnt |-> n]

(* Six blocks in one area, in two, in three and one by one.                *)
FourTables ==
  { { A(0, 1, 6) },
    { A(0, 7, 3), A(3, 0, 3) },
    { A(0, 4, 1), A(1, 9, 4), A(5, 2, 1) },
    { A(l, 6 - l, 1) : l \in 0 .. 5 } }

AnyBio ==
  { u \in [sector : 0 .. 11, size : 1 .. 12, discard : {FALSE}] :
      u.sector + u.size <= 12 }
    \union { [sector |-> 2, size |-> 4, discard |-> TRUE] }
=============================================================================
