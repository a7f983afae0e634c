------------------------------ MODULE Stripes ------------------------------
(***************************************************************************)
(* The loops that cut block ranges at stripes of DM_HYRAID_TARGET_SIZE     *)
(* blocks: __hypraid_block_replacement_operation_wait, which moves the     *)
(* pages of an extent, and hypraid_make_request, which passes on a bio.    *)
(*                                                                         *)
(* A transfer is the range to move and sent, the pairs of a page of the    *)
(* buffer (or of the bio) and the block it goes to; the loops' blk and     *)
(* page_index are its cursors.                                             *)
(***************************************************************************)
EXTENDS Extents

CONSTANTS
  MaxStart,   \* bound: the last block a transfer may start at
  MaxCount    \* bound: the most blocks of a transfer

ASSUME BoundsAssumption == MaxStart \in Nat /\ MaxCount \in Nat

T == 16       \* DM_HYRAID_TARGET_SIZE

VARIABLES pc,     \* "ready", or the loop that runs: "move", "bio"
          phase,  \* what the loop does next
          start,  \* S
          cnt,    \* blocks of the range
          blk,    \* the next block
          page,   \* the next page
          i,      \* whole stripes sent
          sent    \* pairs <<page, block>> that went out

vars == <<pc, phase, start, cnt, blk, page, i, sent>>

input == <<pc, start, cnt>>

Init ==
  /\ pc = "ready" /\ phase = "none"
  /\ start = 0 /\ cnt = 0 /\ blk = 0 /\ page = 0 /\ i = 0
  /\ sent = {}

Begin(loop) ==
  /\ pc = "ready"
  /\ pc' = loop
  /\ start' \in 0 .. MaxStart
  /\ cnt' \in 1 .. MaxCount
  /\ blk' = start'
  /\ page' = 0 /\ i' = 0 /\ sent' = {}

(* One bio of n blocks, from the cursors.                                  *)
SendFrom(n) ==
  /\ sent' = sent \union { <<page + k, blk + k>> : k \in 0 .. (n - 1) }
  /\ blk' = blk + n
  /\ page' = page + n

-----------------------------------------------------------------------------
(* __hypraid_block_replacement_operation_wait: E is the block behind the   *)
(* range.  STUnaligned forgets where in its stripe the range starts, and   *)
(* ETInclusive takes E for the last block, as hypraid_make_request does.   *)
End == start + cnt

SameStripe == start \div T = End \div T

STUnaligned == IF SameStripe THEN cnt ELSE T

ST == IF SameStripe THEN T - (start % T) - (T - (End % T)) ELSE T - (start % T)

ETInclusive == IF SameStripe THEN 0 ELSE (End - 1) % T

ET == IF SameStripe THEN 0 ELSE End % T

WholeStripes ==
  IF SameStripe THEN 0 ELSE (cnt - (T - (start % T) + (End % T))) \div T

Move == Begin("move") /\ phase' = "first"

MoveFirst ==
  /\ pc = "move" /\ phase = "first"
  /\ SendFrom(ST)
  /\ phase' = "whole"
  /\ UNCHANGED <<input, i>>

MoveWhole ==
  /\ pc = "move" /\ phase = "whole" /\ i < WholeStripes
  /\ SendFrom(T)
  /\ i' = i + 1
  /\ UNCHANGED <<input, phase>>

MoveLast ==
  /\ pc = "move" /\ phase = "whole" /\ i >= WholeStripes
  /\ IF ET # 0 THEN SendFrom(ET) ELSE UNCHANGED <<blk, page, sent>>
  /\ phase' = "done"
  /\ UNCHANGED <<input, i>>

-----------------------------------------------------------------------------
(* hypraid_make_request: here E is the last block of the bio.  Rounding up *)
(* the stripes would split off more than the bio has.                      *)
Last == start + cnt - 1

BioWholeStripesUp == (cnt - (start % T) + T - 1) \div T

BioWholeStripes == (cnt - (T - (start % T) + (Last % T))) \div T

Bio ==
  /\ Begin("bio")
  /\ phase' = IF start' \div T = Last' \div T THEN "uncut" ELSE "whole"

BioWhole ==
  /\ pc = "bio" /\ phase = "whole" /\ i < BioWholeStripes
  /\ SendFrom(T)
  /\ i' = i + 1
  /\ UNCHANGED <<input, phase>>

BioTail ==
  /\ pc = "bio" /\ phase = "whole" /\ i >= BioWholeStripes
  /\ IF Last % T # 0 THEN SendFrom(cnt - page) ELSE UNCHANGED <<blk, page, sent>>
  /\ phase' = "done"
  /\ UNCHANGED <<input, i>>

BioUncut ==
  /\ pc = "bio" /\ phase = "uncut"
  /\ SendFrom(cnt)
  /\ phase' = "done"
  /\ UNCHANGED <<input, i>>

(* The loop returns, and the next transfer may begin.                      *)
Return ==
  /\ phase = "done"
  /\ pc' = "ready" /\ phase' = "none"
  /\ start' = 0 /\ cnt' = 0 /\ blk' = 0 /\ page' = 0 /\ i' = 0 /\ sent' = {}

Next ==
  \/ Move \/ MoveFirst \/ MoveWhole \/ MoveLast
  \/ Bio \/ BioWhole \/ BioTail \/ BioUncut
  \/ Return

Spec == Init /\ [][Next]_vars

-----------------------------------------------------------------------------
(* The pages of an extent all go out, each once, each to its own block:    *)
(* the three parts of the replacement's tiling leave no gap at a stripe    *)
(* boundary and move nothing beyond the range.                             *)
MoveComplete ==
  pc = "move" /\ phase = "done" =>
    sent = { <<k, start + k>> : k \in 0 .. (cnt - 1) }

(* Every bio the replacement submits has at least a block and lies within  *)
(* one stripe, which is what the cutting is for.                           *)
MoveInStripe ==
  [][pc = "move" => /\ phase = "first" => blk < blk'
                    /\ blk < blk' => blk \div T = (blk' - 1) \div T]_vars

(* hypraid_make_request passes on the blocks Sent says, each with its own  *)
(* page: all of the bio, but for one whose last block begins a stripe.     *)
BioSent ==
  pc = "bio" /\ phase = "done" =>
    sent = { <<p - start, p>> : p \in Sent(start, Last, T) }
=============================================================================
