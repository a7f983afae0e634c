---------------------------- MODULE StorageMap -----------------------------
(***************************************************************************)
(* What the block replacement layer promises to the device's user: every   *)
(* logical block has at most one physical block, no physical block serves  *)
(* two logical ones, blocks move only together with their contents, and    *)
(* what was written stays readable until it is deleted.                    *)
(*                                                                         *)
(* disk[p] = l says that physical block p holds the CURRENT contents of    *)
(* logical block l; NoData stands for anything else (never written, or     *)
(* a stale copy).  A new write of l makes every older copy stale.          *)
(***************************************************************************)
EXTENDS Integers

CONSTANT Block     \* blocks of the device, logical and physical alike

NoBlock == -1      \* where an unmapped block lives
NoData  == -1      \* what a block with no current contents holds

VARIABLES loc,     \* where each logical block lives
          disk,    \* what each physical block holds
          written  \* logical blocks written since they were mapped

vars == <<loc, disk, written>>

Mapped == { l \in Block : loc[l] # NoBlock }

(* The physical blocks taken.                                              *)
Used == { loc[l] : l \in Mapped }

(* The contents of l, if they are where they should be, still are.         *)
Keeps(l) == disk[loc[l]] = l => disk'[loc'[l]] = l

Init ==
  /\ loc = [l \in Block |-> NoBlock]
  /\ disk = [p \in Block |-> NoData]
  /\ written = {}

(* Some unmapped blocks L get distinct blocks nobody uses.                 *)
Allocate ==
  \E L \in SUBSET (Block \ Mapped) :
    /\ loc' \in [Block -> Block \union {NoBlock}]
    /\ \A l \in Block \ L : loc'[l] = loc[l]
    /\ \A l \in L : loc'[l] \in Block \ Used
    /\ \A k, l \in L : loc'[k] = loc'[l] => k = l
    /\ UNCHANGED <<disk, written>>

(* Some mapped blocks L move to distinct unused blocks, contents and all.  *)
Relocate ==
  \E L \in SUBSET Mapped :
    /\ loc' \in [Block -> Block \union {NoBlock}]
    /\ \A l \in Block \ L : loc'[l] = loc[l]
    /\ \A l \in L : loc'[l] \in Block \ Used
    /\ \A k, l \in L : loc'[k] = loc'[l] => k = l
    /\ disk' \in [Block -> Block \union {NoData}]
    /\ \A l \in Mapped : Keeps(l)
    /\ UNCHANGED written

(* The user's data for the mapped blocks L reaches their physical blocks.  *)
Write ==
  \E L \in SUBSET Mapped :
    /\ disk' \in [Block -> Block \union {NoData}]
    /\ \A l \in L : disk'[loc[l]] = l
    /\ written' = written \union L
    /\ UNCHANGED loc
    /\ \A l \in Mapped \ L : Keeps(l)

(* The mapped blocks L are given up, and with them their contents.         *)
Delete ==
  \E L \in SUBSET Mapped :
    /\ loc' = [l \in Block |-> IF l \in L THEN NoBlock ELSE loc[l]]
    /\ disk' \in [Block -> Block \union {NoData}]
    /\ \A l \in Mapped \ L : Keeps(l)
    /\ written' = written \ L

Next == Allocate \/ Relocate \/ Write \/ Delete

Spec == Init /\ [][Next]_vars

-----------------------------------------------------------------------------
TypeOK ==
  /\ loc \in [Block -> Block \union {NoBlock}]
  /\ disk \in [Block -> Block \union {NoData}]
  /\ written \in SUBSET Block

(* No physical block serves two logical blocks.                            *)
Injective == \A k, l \in Mapped : loc[k] = loc[l] => k = l

(* Whatever was written is still mapped, and is there to be read.          *)
Intact == \A l \in written : l \in Mapped /\ disk[loc[l]] = l
=============================================================================
