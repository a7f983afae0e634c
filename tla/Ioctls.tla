------------------------------- MODULE Ioctls -------------------------------
(***************************************************************************)
(* The other ioctls of ioctl.c on the state of BlockArea: INSERT_AREA,     *)
(* which maps blocks where they are, BLOCK_REPLACEMENT_AREA, which copies  *)
(* physical blocks, and the questions TRANSFORM_BLOCK and GET_PRIORITY.    *)
(* BLOCK_REPLACEMENT needs no action: submit_bio_wait sends its read and   *)
(* its write through hypraid_bio_collect, so that they are bios of one     *)
(* block like any other.                                                   *)
(***************************************************************************)
EXTENDS BlockArea

CONSTANTS
  Inserts,   \* extents the INSERT_AREA ioctl is called with
  Copies     \* triples of a source, a destination and a count of blocks

ASSUME IoctlsAssumption ==
  /\ Inserts \subseteq Logical
  /\ Copies \subseteq { c \in Block \X Block \X Nat :
                          c[1] + c[3] <= Total /\ c[2] + c[3] <= Total }

VARIABLES
  loose,    \* history: an area was freed by a block count that is not its own
  misfiled  \* history: INSERT_AREA filed an area with a group that has it not

ivars == <<vars, loose, misfiled>>

-----------------------------------------------------------------------------
(* hypraid_get_bitmap_area, for a block of the device; with <= for < the   *)
(* first block of a group would be in the group before.                    *)
GroupClosed(b) == CHOOSE t \in Tiers : b \in TierBlocks(t) \/ b - 1 \in TierBlocks(t)

Group(b) == CHOOSE t \in Tiers : b \in TierBlocks(t)

(* available_area_search_at                                                *)
FreeAt(t, b) == { x \in Runs(avail[t]) : b \in Span(x) }

(* hypraid_insert_block_area_no_rearray for a free block: the extent is    *)
(* cut out of the free one, but its blk_cnt stays that of the free one, so *)
(* that the blocks behind it are marked, too.                              *)
Placed(x, r) ==
  [ori |-> Extent(r.start, r.end), rep |-> Extent(r.start, r.end), cnt |-> Size(x)]

MarkedShort(n) == n.rep.start .. (n.rep.start + n.cnt - 2)

Marked(n) == n.rep.start .. (n.rep.start + n.cnt - 1)

InsertFree == \E r \in Inserts :
  /\ Running("idle")
  /\ LET t == Group(r.start)
     IN  \E x \in FreeAt(t, r.start) :
           LET n == Placed(x, r)
           IN  /\ r.end <= x.end
               /\ r.start + n.cnt <= Total
               /\ avail' = AvailExtract(avail, t, n.rep)
               /\ bits' = bits \union Marked(n)
               /\ pri' = PriInsert(pri, t, n)
               /\ repTree' = RepInsert(repTree, n)
  /\ UNCHANGED <<call, ev, fault, data, foreign, loose, misfiled>>

(* For a block that is not free, the area that maps it becomes the most    *)
(* recent of the block's group, wherever it is filed and wherever the      *)
(* blocks are that it maps it to.                                          *)
MayUnlinkFrom(t, n) == \A h \in Home(n) : h = t \/ Len(pri[h]) > 1

InsertMapped == \E r \in Inserts :
  /\ Running("idle")
  /\ FreeAt(Group(r.start), r.start) = {}
  /\ \E n \in At(r.start) :
       LET t == Group(r.start)
       IN  /\ MayUnlinkFrom(t, n)
           /\ pri' = PriInsert(PriExtract(pri, n), t, n)
           /\ misfiled' = (misfiled \/ t \notin Home(n))
  /\ UNCHANGED <<avail, repTree, bits, call, ev, fault, data, foreign, loose>>

(* hypraid_block_replacement_area: pass upon pass of at most MaxPages      *)
(* blocks, each from the addresses of the first, so that extents that      *)
(* overlap are copied again and again.                                     *)
Passes(d, src, dst, n) ==
  LET after[k \in Nat] ==
        IF k = 0 THEN d ELSE Copy(after[k - 1], src, dst, n - (k - 1) * MaxPages)
  IN  after[(n + MaxPages - 1) \div MaxPages]

CopyArea == \E c \in Copies :
  /\ Running("idle")
  /\ disk' = Passes(disk, c[1], c[2], c[3])
  /\ UNCHANGED <<space, call, ev, fault, written, foreign, loose, misfiled>>

-----------------------------------------------------------------------------
(* Where the machine stops, beside the places of BlockArea.  The model     *)
(* also stops where an extent that ends before it begins is filed or comes *)
(* to be cut ("inverted"), and where a bit behind the device is set        *)
(* ("beyond"), which module Bitmap goes on with.                           *)
Stops(cause) == Stop(cause) /\ UNCHANGED <<loose, misfiled>>

InsertBeyond == \E r \in Inserts :
  /\ Running("idle")
  /\ \E x \in FreeAt(Group(r.start), r.start) :
       \/ r.end > x.end /\ Stops("inverted")
       \/ r.end <= x.end /\ r.start + Size(x) > Total /\ Stops("beyond")

InsertNull == \E r \in Inserts :
  /\ Running("idle")
  /\ FreeAt(Group(r.start), r.start) = {} /\ At(r.start) = {}
  /\ Stops("nullArea")

InsertRoot == \E r \in Inserts :
  /\ Running("idle")
  /\ FreeAt(Group(r.start), r.start) = {}
  /\ \E n \in At(r.start) : Group(r.start) \notin Home(n)
  /\ Stops("rbRoot")

(* A victim with a count that is not its own.  A loop that wants only some *)
(* of its blocks cuts it as it should, and what is kept gets a right       *)
(* count; one that wants all of them cuts behind its end, or takes the     *)
(* count for blocks it has.                                                *)
Stale(n) == n.cnt # Size(n.rep)

VictimStale ==
  /\ Popping /\ pri[Top.src] # <<>>
  /\ Victim \in repTree /\ Stale(Victim)
  /\ Top.want >= MIN(Victim.cnt, Size(Victim.rep))

PopStale == VictimStale /\ Stops("inverted")

AllocNone == Running("alloc") /\ avail[0] = {} /\ Stops("noAvail")

BlockAreaStep ==
  /\ ~ VictimStale
  /\ Next
  /\ loose' = (loose \/ (pc = "delete" /\ \E n \in repTree : Stale(n) /\ n \notin repTree'))
  /\ UNCHANGED misfiled

INext ==
  \/ BlockAreaStep
  \/ InsertFree \/ InsertMapped \/ CopyArea
  \/ InsertBeyond \/ InsertNull \/ InsertRoot
  \/ PopStale \/ AllocNone

ISpec == Init /\ loose = FALSE /\ misfiled = FALSE /\ [][INext]_ivars

-----------------------------------------------------------------------------
(* TRANSFORM_BLOCK: of type 0, where a logical block is; of type 1, what a *)
(* physical block serves, by the list of the group it is in.               *)
NoExtent == Extent(-1, -1)

TransformBlock(type, b) ==
  LET found == IF type = 0 THEN At(b)
               ELSE { n \in Listed(Group(b)) : b \in Span(n.rep) }
  IN  IF found = {} THEN NoExtent
      ELSE LET n == CHOOSE n \in found : TRUE IN IF type = 0 THEN n.rep ELSE n.ori

(* GET_PRIORITY: the blocks of a group, least recently used area first; a  *)
(* slip would walk the list from its other end.                            *)
Blocks(p) ==
  FoldLeft(LAMBDA s, n : s \o [i \in 1 .. Size(n.rep) |-> n.rep.start + i - 1], <<>>, p)

Padded(s, cnt) == [i \in 1 .. cnt |-> IF i <= Len(s) THEN s[i] ELSE -1]

GetPriorityFront(p, cnt) == Padded(Blocks(p), cnt)

GetPriority(p, cnt) == Padded(Blocks(Reverse(p)), cnt)

-----------------------------------------------------------------------------
(* The counter hypraid_is_area_bitmap_free reads may say less than there   *)
(* is free after an INSERT, for blocks are marked that no area has, but    *)
(* never more: not until an area with a count that is not its own is       *)
(* given up, or one is filed with a group that has it not.                 *)
CountersCautious ==
  ev = <<>> /\ ~ loose /\ ~ misfiled =>
    \A t \in Tiers : t = 0 \/ ~ foreign => AreaFree(t, 0) <= Cardinality(avail[t])

(* TRANSFORM_BLOCK undoes itself: asked what the physical blocks serve     *)
(* that it names for a logical one, it answers with the area of that or,   *)
(* once an area is filed with a group that has it not, with no area; never *)
(* with another one.                                                       *)
TransformInverts ==
  fault = "none" =>
    \A l \in Block : \A p \in Span(TransformBlock(0, l)) \intersect Block :
      LET serves == TransformBlock(1, p)
      IN  /\ serves = NoExtent \/ l \in Span(serves)
          /\ ~ foreign /\ ~ misfiled => serves # NoExtent

(* GET_PRIORITY foretells evictions: the blocks that a tier's loop pops    *)
(* are the first that it lists, also when an area is popped in part, and   *)
(* the others move up.                                                     *)
Popped == ev'[Len(ev)].area.rep

PriorityForetells ==
  [][Popping /\ pri[Top.src] # <<>> /\ fault' = "none" =>
       LET t      == Top.src
           before == GetPriority(pri[t], Total)
           after  == GetPriority(pri'[t], Total)
           n      == Size(Popped)
       IN  \A i \in 1 .. Total :
             before[i] = IF i <= n THEN Popped.start + i - 1 ELSE after[i - n]]_ivars
=============================================================================
