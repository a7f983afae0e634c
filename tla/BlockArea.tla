----------------------------- MODULE BlockArea -----------------------------
(***************************************************************************)
(* The block area manager of block_area.c as one synchronous client drives *)
(* it: a bio is mapped by hypraid_insert_block_area, which may evict least *)
(* recently used extents to the next device group, and is then re-issued   *)
(* extent by extent by re_request_bio.  The REPLACEMENT_TEST and DELETE    *)
(* ioctls work on the same state.                                          *)
(*                                                                         *)
(* A call is a run of small steps: each level of the recursion in          *)
(* hypraid_insert_block_area and hypraid_delete_block_area, each pass of   *)
(* the loops in hypraid_block_replacement_operation and re_request_bio.    *)
(* ev is the C stack of active replacement loops; the last frame runs.     *)
(***************************************************************************)
EXTENDS Extents, Lists

CONSTANTS
  Requests,    \* bios: the extents they read or write
  Discards,    \* extents of REQ_DISCARD bios
  Deletes,     \* extents the DELETE ioctl is called with
  Evictions,   \* block counts the REPLACEMENT_TEST ioctl is called with
  MaxPages,    \* HYPRAID_MAX_PAGES
  TargetSize   \* DM_HYRAID_TARGET_SIZE

Logical == { x \in [start : Block, end : Block] : x.start <= x.end }

Call(x, w) == [start |-> x.start, end |-> x.end, write |-> w]

ASSUME BlockAreaAssumption ==
  /\ Requests \subseteq { Call(x, w) : x \in Logical, w \in BOOLEAN }
  /\ Discards \subseteq Logical
  /\ Deletes \subseteq Logical
  /\ Evictions \subseteq Nat
  /\ MaxPages \in Nat \ {0}
  /\ TargetSize \in Nat \ {0}

VARIABLES
  avail,   \* free blocks filed in each tier's avails, avail_tree, area_tree
  pri,     \* each tier's pri_areas list, most recently used first
  repTree, \* the areas in g_rep_area_tree, shared by the tiers
  bits,    \* blocks marked in the bitmap
  pc,      \* what the running call does next
  req,     \* its arguments
  blk,     \* its cursor over the logical blocks
  off,     \* first logical block of the part of the bio still to be issued
  ev,      \* active loops of hypraid_block_replacement_operation
  fault,   \* "none", or what stopped the machine
  disk,    \* disk[p] = l: p holds the current contents of logical block l
  written, \* history: logical blocks written and neither deleted nor discarded
  foreign  \* history: pri list 0 was asked to unlink an area of another tier

space == <<avail, pri, repTree, bits>>
call  == <<pc, req, blk, off>>
data  == <<disk, written>>
vars  == <<space, call, ev, fault, data, foreign>>

NoData == -1
NoReq  == Call(Extent(0, -1), FALSE)

-----------------------------------------------------------------------------
(* struct area_node: ori is where the user sees the blocks, rep is where   *)
(* they are, cnt is blk_cnt.                                               *)
Node(o, p, n) ==
  [ ori |-> Extent(o, o + n - 1), rep |-> Extent(p, p + n - 1), cnt |-> n ]

NoNode == Node(0, 0, 0)

Frame(t, n) == [src |-> t, want |-> n, area |-> NoNode, rest |-> NoNode]

(* replacement_area_search_at: the tree holds disjoint extents, so there   *)
(* is at most one.                                                         *)
At(b) == { n \in repTree : b \in Span(n.ori) }

(* hypraid_is_area_bitmap_free: its counter is the blocks of the group     *)
(* whose bit is clear (module Bitmap); negative when n blocks do not fit.  *)
(* The two forms before it are off by one either way.                      *)
AreaFreeSlack(t, n) ==
  AreaBlocks[t] - Cardinality(bits \intersect TierBlocks(t)) - n + 1

AreaFreeTight(t, n) ==
  AreaBlocks[t] - Cardinality(bits \intersect TierBlocks(t)) - n - 1

AreaFree(t, n) == AreaBlocks[t] - Cardinality(bits \intersect TierBlocks(t)) - n

(* priority_area_extract: the area leaves whichever list it is on.         *)
PriExtract(p, n) == [t \in Tiers |-> Unlink(p[t], n)]

(* priority_area_insert and _low: refused, silently, when the physical     *)
(* extent overlaps one already filed.                                      *)
Filed(s, n) == \E m \in Range(s) : Overlap(m.rep, n.rep)

PriInsertLow(p, t, n) ==
  IF Filed(p[t], n) THEN p ELSE [p EXCEPT ![t] = Append(@, n)]

PriInsert(p, t, n) ==
  IF Filed(p[t], n) THEN p ELSE [p EXCEPT ![t] = Cons(n, @)]

(* replacement_area_insert: refused likewise on the logical extent; with   *)
(* <= for < in area_insert, an adjacent extent would be refused too, and   *)
(* with the wrong field on one side, one that lies at another's blocks.    *)
RepInsertClose(R, n) ==
  IF \E m \in R : Overlap(m.ori, Extent(n.ori.start - 1, n.ori.end + 1))
  THEN R ELSE R \union {n}

RepInsertMixed(R, n) ==
  IF \E m \in R : Overlap(m.rep, n.ori) THEN R ELSE R \union {n}

RepInsert(R, n) ==
  IF \E m \in R : Overlap(m.ori, n.ori) THEN R ELSE R \union {n}

(* available_area_insert: the extent joins the group's free blocks; one    *)
(* that overlaps them is refused.  Slips before it: one block too many,    *)
(* and the extent of tier src filed under tier dst.                        *)
AvailInsertLong(a, t, x) == [a EXCEPT ![t] = @ \union x.start .. (x.end + 1)]

AvailInsertBelow(a, t, x) == [a EXCEPT ![MIN(t + 1, 2)] = @ \union Span(x)]

AvailInsert(a, t, x) ==
  IF Span(x) \intersect a[t] # {} THEN a ELSE [a EXCEPT ![t] = @ \union Span(x)]

(* available_area_extract, which a slip would leave out.                   *)
AvailExtractNone(a, t, x) == a

AvailExtract(a, t, x) == [a EXCEPT ![t] = @ \ Span(x)]

(* The loop of hypraid_delete_block_area over the blocks of its area; it   *)
(* could stop one short.                                                   *)
UnmarkShort(n) == bits \ (n.rep.start .. (n.rep.start + n.cnt - 2))

Unmark(n) == bits \ (n.rep.start .. (n.rep.start + n.cnt - 1))

(* Insert and delete recur behind the area they found; they could skip a   *)
(* block, or not get on.                                                   *)
BehindGap(n) == n.ori.end + 2

BehindNot(n) == n.ori.end

Behind(n) == n.ori.end + 1

(* rb_erase is given the root of pri_area_tree 0.  For an area linked in   *)
(* another tier's tree this is harmless unless the erasure reaches that    *)
(* tree's root, which a tree of one area always does: then root 0 is       *)
(* overwritten and tier 0 loses its tree.                                  *)
Home(n) == { t \in Tiers : n \in Range(pri[t]) }

Stray(n) == 0 \notin Home(n)

MayUnlink(n) == \A t \in Home(n) : t = 0 \/ Len(pri[t]) > 1

(* A pass of _hypraid_block_replacement_operation: each reads at src and   *)
(* writes at dst, at most MaxPages blocks.  Those after the first repeat   *)
(* it, and as the extents of a demotion have no block in common they       *)
(* change nothing.  The slip before it copies one block less.              *)
CopyShort(d, src, dst, n) ==
  [p \in Block |-> IF p \in dst .. (dst + n - 2) THEN d[src + (p - dst)] ELSE d[p]]

Copy(d, src, dst, n) ==
  LET m == MIN(MaxPages, n)
  IN  [p \in Block |-> IF p \in dst .. (dst + m - 1) THEN d[src + (p - dst)]
                                                     ELSE d[p]]

-----------------------------------------------------------------------------
(* fault is why the machine stopped, and nothing runs after it:            *)
(*   "nullArea"   re_request_bio used the NULL area of an unmapped block   *)
(*   "splitBug"   bio_split was asked for the whole bio (its BUG_ON)       *)
(*   "popEmpty"   an area was popped off an empty priority list            *)
(*   "unlinked"   an area the tree had refused was erased from the tree    *)
(*   "noAvail"    an extent was taken off an empty list of free extents    *)
(*   "rbRoot"     an erasure replaced the root of another tier's tree      *)
(* The kernel goes on after an erasure of an unlinked node, and after one  *)
(* with another tree's root: what it then finds in the trees depends on    *)
(* what their memory holds, so that nothing is said of it here.  The part  *)
(* of a bio that hypraid_make_request keeps stops nothing: its client      *)
(* waits (Reissue and Stripes say when), and the manager goes on.          *)
Stop(cause) ==
  /\ fault' = cause
  /\ UNCHANGED <<space, call, ev, data, foreign>>

Running(p) == fault = "none" /\ ev = <<>> /\ pc = p

Start(p, r) ==
  /\ Running("idle")
  /\ pc' = p
  /\ req' = r
  /\ blk' = r.start
  /\ UNCHANGED <<space, off, ev, fault, data, foreign>>

(* A call returns: its locals are gone.                                    *)
Return ==
  /\ pc' = "idle"
  /\ req' = NoReq
  /\ blk' = 0
  /\ off' = 0
  /\ UNCHANGED <<space, ev, fault, data, foreign>>

Init ==
  /\ avail = [t \in Tiers |-> TierBlocks(t)]
  /\ pri = [t \in Tiers |-> <<>>]
  /\ repTree = {}
  /\ bits = {}
  /\ pc = "idle" /\ req = NoReq /\ blk = 0 /\ off = 0
  /\ ev = <<>>
  /\ fault = "none"
  /\ disk = [p \in Block |-> NoData]
  /\ written = {}
  /\ foreign = FALSE

-----------------------------------------------------------------------------
(* hypraid_bio_collect: a bio of whole blocks enters the manager,          *)
Submit == \E r \in Requests : Start("search", r)

(* and a discard goes to the device as it is, under its logical numbers.   *)
Discard ==
  /\ Running("idle")
  /\ \E x \in Discards :
       /\ disk' = [p \in Block |-> IF p \in Span(x) THEN NoData ELSE disk[p]]
       /\ written' = written \ Span(x)
  /\ UNCHANGED <<space, call, ev, fault, foreign>>

Searching == Running("search") /\ blk <= req.end

(* hypraid_insert_block_area, first block mapped: the area becomes the     *)
(* most recent of tier 0, wherever it was filed, and the search goes on    *)
(* behind it.                                                              *)
Touch ==
  /\ Searching
  /\ \E n \in At(blk) :
       /\ MayUnlink(n)
       /\ pri' = PriInsert(PriExtract(pri, n), 0, n)
       /\ blk' = Behind(n)
       /\ foreign' = (foreign \/ Stray(n))
  /\ UNCHANGED <<avail, repTree, bits, pc, req, off, ev, fault, data>>

(* First block not mapped: make room for all of the rest of the request,   *)
(* also for blocks of it that are mapped already.                          *)
MakeRoom ==
  /\ Searching
  /\ At(blk) = {}
  /\ LET left == AreaFree(0, req.end - blk + 1)
     IN  ev' = IF left < 0 THEN <<Frame(0, -left)>> ELSE <<>>
  /\ pc' = "alloc"
  /\ UNCHANGED <<space, req, blk, off, fault, data, foreign>>

(* Then take a free extent and map as much of the request as fits it.      *)
Alloc ==
  /\ Running("alloc")
  /\ \E x \in FirstFit(avail[0], req.end - blk + 1) :
       LET n    == MIN(req.end - blk + 1, Size(x))
           area == Node(blk, x.start, n)
       IN  /\ bits' = bits \union Span(area.rep)
           /\ avail' = AvailExtract(avail, 0, area.rep)
           /\ pri' = PriInsert(pri, 0, area)
           /\ repTree' = RepInsert(repTree, area)
           /\ blk' = blk + n
  /\ pc' = "search"
  /\ UNCHANGED <<req, off, ev, fault, data, foreign>>

(* The recursion ends: re_request_bio starts over at the first block.      *)
Inserted ==
  /\ Running("search") /\ blk > req.end
  /\ pc' = "issue"
  /\ blk' = req.start
  /\ off' = req.start
  /\ UNCHANGED <<space, req, ev, fault, data, foreign>>

-----------------------------------------------------------------------------
(* re_request_bio at block blk, which area n maps.  What is left of the    *)
(* bio begins at off; all of it goes out when n reaches the end of the     *)
(* request, otherwise bio_split takes n.cnt blocks off its front.  With >  *)
(* for >= in that test the last piece would be split too.                  *)
LastPieceStrict(n) == n.ori.end > req.end

LastPiece(n) == n.ori.end >= req.end

Piece(n) ==
  LET len == IF LastPiece(n) THEN req.end - off + 1 ELSE n.cnt
      S   == n.rep.start + (blk - n.ori.start)
  IN  [from |-> off, to |-> Extent(S, S + len - 1), cnt |-> len]

SplitFails(n) == ~ LastPiece(n) /\ n.cnt >= req.end - off + 1

Issuing == Running("issue") /\ blk <= req.end

Issue ==
  /\ Issuing
  /\ \E n \in At(blk) :
       /\ ~ SplitFails(n)
       /\ LET x    == Piece(n)
              sent == Sent(x.to.start, x.to.end, TargetSize)
              wrote == IF req.write THEN { x.from + (p - x.to.start) : p \in sent }
                                    ELSE {}
          IN  /\ disk' = [p \in Block |->
                           IF req.write /\ p \in sent
                             THEN x.from + (p - x.to.start)
                           ELSE IF disk[p] \in wrote THEN NoData ELSE disk[p]]
              /\ written' = written \union wrote
              /\ off' = x.from + x.cnt
       /\ blk' = n.ori.start + n.cnt
  /\ UNCHANGED <<space, pc, req, ev, fault, foreign>>

Issued == Running("issue") /\ blk > req.end /\ Return

-----------------------------------------------------------------------------
(* hypraid_block_replacement_operation, moving areas of tier src to the    *)
(* next tier until `want' blocks are done.                                 *)
Evict == \E n \in Evictions :
  /\ Running("idle")
  /\ pc' = "evict"
  /\ ev' = <<Frame(0, n)>>
  /\ UNCHANGED <<space, req, blk, off, fault, data, foreign>>

Evicting == fault = "none" /\ ev # <<>>

Top == Last(ev)

Under == Front(ev)

Popping == Evicting /\ Top.area = NoNode /\ Top.want > 0

Placing == Evicting /\ Top.area # NoNode

Victim == Last(pri[Top.src])

(* hypraid_pop_priority_area takes the least recent area, or the front of  *)
(* it when that is enough; if the next tier is too full for what was       *)
(* popped, the next tier's own loop runs first.  Tier 2 has none.          *)
Pop ==
  /\ Popping
  /\ pri[Top.src] # <<>> /\ Victim \in repTree
  /\ LET t     == Top.src
         v     == Victim
         n     == MIN(Top.want, v.cnt)
         taken == IF n = v.cnt THEN v ELSE Node(v.ori.start, v.rep.start, n)
         kept  == [ ori |-> Extent(v.ori.start + n, v.ori.end),
                    rep |-> Extent(v.rep.start + n, v.rep.end),
                    cnt |-> v.rep.end - (v.rep.start + n) + 1 ]
         rest  == PriExtract(pri, v)
         left  == AreaFree(t + 1, taken.cnt)
         top   == [src |-> t, want |-> Top.want - n, area |-> taken, rest |-> taken]
     IN  /\ pri' = IF n = v.cnt THEN rest ELSE PriInsertLow(rest, t, kept)
         /\ repTree' = IF n = v.cnt THEN repTree \ {v}
                                    ELSE RepInsert(repTree \ {v}, kept)
         /\ ev' = IF t = 0 /\ left < 0
                  THEN Under \o <<top, Frame(1, -left)>>
                  ELSE Append(Under, top)
  /\ UNCHANGED <<avail, bits, call, fault, data, foreign>>

(* Part or all of the popped area gets a free extent of the next tier, is  *)
(* filed there, and is copied; when nothing is left of it, its old blocks  *)
(* become free extents of tier src.                                        *)
Place ==
  /\ Placing
  /\ \E x \in FirstFit(avail[Top.src + 1], Top.rest.cnt) :
       LET t   == Top.src
           s   == Top.rest
           n   == MIN(s.cnt, Size(x))
           dst == Node(s.ori.start, x.start, n)
           top == [ori |-> Extent(s.ori.start + n, s.ori.end),
                   rep |-> Extent(s.rep.start + n, s.rep.end),
                   cnt |-> s.cnt - n]
           a   == AvailExtract(avail, t + 1, dst.rep)
       IN  /\ bits' = (bits \union Span(dst.rep))
                        \ (s.rep.start .. (s.rep.start + n - 1))
           /\ pri' = PriInsert(pri, t + 1, dst)
           /\ repTree' = RepInsert(repTree, dst)
           /\ disk' = Copy(disk, s.rep.start, dst.rep.start, n)
           /\ IF n = s.cnt
              THEN /\ avail' = AvailInsert(a, t, Top.area.rep)
                   /\ ev' = Append(Under, Frame(t, Top.want))
              ELSE /\ avail' = a
                   /\ ev' = Append(Under, [Top EXCEPT !.rest = top])
  /\ UNCHANGED <<call, fault, written, foreign>>

(* The loop ends and its caller goes on.                                   *)
Evicted ==
  /\ Evicting /\ Top.area = NoNode /\ Top.want <= 0
  /\ ev' = Under
  /\ pc' = IF pc = "evict" /\ Under = <<>> THEN "idle" ELSE pc
  /\ UNCHANGED <<space, req, blk, off, fault, data, foreign>>

-----------------------------------------------------------------------------
(* hypraid_delete_block_area gives up the whole area that maps the first   *)
(* block, files its blocks as free in tier 0 (g_access_area), and recurs   *)
(* behind it until the range ends or a block of it is not mapped.          *)
Delete == \E x \in Deletes : Start("delete", Call(x, FALSE))

Deleting == Running("delete") /\ blk <= req.end

DeleteArea ==
  /\ Deleting
  /\ \E n \in At(blk) :
       /\ MayUnlink(n)
       /\ pri' = PriExtract(pri, n)
       /\ repTree' = repTree \ {n}
       /\ bits' = Unmark(n)
       /\ avail' = AvailInsert(avail, 0, n.rep)
       /\ disk' = [p \in Block |-> IF disk[p] \in Span(n.ori) THEN NoData ELSE disk[p]]
       /\ written' = written \ Span(n.ori)
       /\ foreign' = (foreign \/ Stray(n))
       /\ blk' = Behind(n)
  /\ UNCHANGED <<pc, req, off, ev, fault>>

Deleted ==
  /\ Running("delete")
  /\ blk > req.end \/ At(blk) = {}
  /\ Return

-----------------------------------------------------------------------------
(* Where the machine stops.  One more use of a pointer nobody tests needs  *)
(* no action here: RoomWasMade below shows that Alloc finds an extent.     *)
IssueUnmapped == Issuing /\ At(blk) = {} /\ Stop("nullArea")

IssueSplit == Issuing /\ (\E n \in At(blk) : SplitFails(n)) /\ Stop("splitBug")

PopEmpty == Popping /\ pri[Top.src] = <<>> /\ Stop("popEmpty")

PopUnlinked ==
  Popping /\ pri[Top.src] # <<>> /\ Victim \notin repTree /\ Stop("unlinked")

PlaceNone == Placing /\ avail[Top.src + 1] = {} /\ Stop("noAvail")

EraseRoot ==
  /\ Searching \/ Deleting
  /\ \E n \in At(blk) : Stray(n)
  /\ fault' = "rbRoot"
  /\ foreign' = TRUE
  /\ UNCHANGED <<space, call, ev, data>>

Halted == fault # "none" /\ UNCHANGED vars

Step ==
  \/ Touch \/ MakeRoom \/ Alloc \/ Inserted \/ Issue \/ Issued
  \/ Pop \/ Place \/ Evicted
  \/ DeleteArea \/ Deleted

Fail ==
  \/ IssueUnmapped \/ IssueSplit \/ PopEmpty \/ PopUnlinked \/ PlaceNone \/ EraseRoot

Next ==
  \/ Submit \/ Discard \/ Evict \/ Delete
  \/ Step \/ Fail
  \/ Halted

Spec == Init /\ [][Next]_vars

(* A call that has begun is run by its thread to its end.                  *)
FairSpec == Spec /\ WF_vars(Step \/ Fail)

-----------------------------------------------------------------------------
(* Every area, in the tree or on its way to the next tier, and where the   *)
(* user's blocks are by them.                                              *)
Areas == repTree \union { f.rest : f \in Range(ev) }

Where(n, l) == n.rep.start + (l - n.ori.start)

Holders(l) == { n \in Areas : l \in Span(n.ori) }

Loc == [l \in Block |->
          IF Holders(l) = {} THEN -1
                             ELSE Where(CHOOSE n \in Holders(l) : TRUE, l)]

Listed(t) == Range(pri[t])

AllListed == UNION { Listed(t) : t \in Tiers }

(* Who has physical block p: a tier's free list, an area on a tier's       *)
(* priority list, or a replacement loop that is moving an area.            *)
Users(p) ==
  { <<"free", t>> : t \in { t \in Tiers : p \in avail[t] } }
    \union (UNION { { <<"area", t, n>> : n \in { n \in Listed(t) : p \in Span(n.rep) } }
                    : t \in Tiers })
    \union { <<"move", i>> : i \in { i \in DOMAIN ev : p \in Span(ev[i].area.rep) } }

-----------------------------------------------------------------------------
Causes == {"none", "nullArea", "splitBug", "popEmpty", "noAvail", "unlinked",
           "rbRoot"}

NodeType ==
  [ori : [start : Int, end : Int], rep : [start : Int, end : Int], cnt : Int]

(* The types of the variables: the lists hold area nodes, the bitmap and   *)
(* the free lists hold blocks of the device.                               *)
TypeOK ==
  /\ avail \in [Tiers -> SUBSET Block]
  /\ pri \in [Tiers -> Seq(NodeType)]
  /\ repTree \subseteq NodeType
  /\ bits \subseteq Block
  /\ pc \in {"idle", "search", "alloc", "issue", "evict", "delete"}
  /\ req \in [start : Int, end : Int, write : BOOLEAN]
  /\ blk \in Int
  /\ off \in Int
  /\ ev \in Seq([src : {0, 1}, want : Int, area : NodeType, rest : NodeType])
  /\ fault \in Causes
  /\ disk \in [Block -> Block \union {NoData}]
  /\ written \subseteq Block
  /\ foreign \in BOOLEAN

(* No block is lost and none is given out twice: at every step of every    *)
(* call each physical block has exactly one user.  block_area.c moves      *)
(* extents between lists by hand, splits and merges them on the way, and   *)
(* files them by the tier it works on, not by their block numbers.         *)
SpacePartition == \A p \in Block : \E u \in Users(p) : Users(p) = {u}

(* The bitmap marks the blocks of the listed areas, and of a moving area   *)
(* those not yet copied: hypraid_set_bitmap and hypraid_clear_bitmap are   *)
(* called block by block, away from the lists they have to agree with.     *)
BitsMatchAreas ==
  bits = (UNION { Span(n.rep) : n \in AllListed })
           \union (UNION { Span(f.rest.rep) : f \in Range(ev) })

(* What a tier below the first holds is its own: only tier 0's lists ever  *)
(* collect blocks of another group (hypraid_insert_block_area and          *)
(* hypraid_delete_block_area file whatever they find under g_access_area). *)
TierPurity ==
  \A t \in {1, 2} :
    /\ avail[t] \subseteq TierBlocks(t)
    /\ \A n \in Listed(t) : Span(n.rep) \subseteq TierBlocks(t)

(* The counter hypraid_is_area_bitmap_free trusts against the free lists   *)
(* allocations are served from: between evictions they agree until an area *)
(* of another tier has been filed in tier 0; after that tier 0 still has   *)
(* at least the blocks it counts, and a lower tier may have fewer.         *)
Accounting ==
  ev = <<>> =>
    /\ Cardinality(avail[0]) >= AreaFree(0, 0)
    /\ \A t \in {1, 2} : Cardinality(avail[t]) <= AreaFree(t, 0)
    /\ ~ foreign => \A t \in Tiers : Cardinality(avail[t]) = AreaFree(t, 0)

(* After making room, hypraid_insert_block_area finds a free extent: the   *)
(* first entries it takes without a test of NULL are there, and the free   *)
(* extents hold all of the rest of the request.                            *)
RoomWasMade ==
  Running("alloc") => Cardinality(avail[0]) >= req.end - blk + 1

(* Between calls the tree of logical extents holds exactly the areas of    *)
(* the priority lists, and its extents are disjoint, provided requests     *)
(* never overlap an area in part.                                          *)
Coherent ==
  pc = "idle" =>
    /\ repTree = AllListed
    /\ \A m, n \in repTree : m # n => ~ Overlap(m.ori, n.ori)

(* As long as no demoted area has been accessed or deleted, a bio never    *)
(* stops the machine, and neither does a loop that another one starts:     *)
(* only REPLACEMENT_TEST does, when it moves more than there is in group   *)
(* 0, an area that group 1 cannot hold, or one that group 2 has no more    *)
(* room for (hypraid_block_replacement tests none of these).               *)
Overtaxed ==
  \/ fault = "popEmpty" /\ (Len(ev) = 1 \/ ev[1].rest.cnt > AreaBlocks[1])
  \/ fault = "noAvail" /\ Len(ev) = 2

BioSafeAtHome == fault # "none" => foreign \/ (pc = "evict" /\ Overtaxed)

(* And as long as none has been, the room made for the rest of a request   *)
(* that fits in group 0 is never taken from the part of it just found or   *)
(* mapped.                                                                 *)
JustUsedStays ==
  pc \in {"search", "alloc"} /\ ~ foreign /\ Size(req) <= AreaBlocks[0] =>
    \A l \in req.start .. (blk - 1) :
      \E n \in Listed(0) : l \in Span(n.ori)

(* re_request_bio sends each block of what it is about to issue to the     *)
(* physical block that holds it, and never asks bio_split for too much,    *)
(* when the request begins where an area begins, or lies within one.       *)
Aimed(n) ==
  LET x == Piece(n)
  IN  /\ ~ SplitFails(n)
      /\ \A p \in Span(x.to) : Loc[x.from + (p - x.to.start)] = p

StartsClean ==
  \E n \in At(req.start) : n.ori.start = req.start \/ req.end <= n.ori.end

AimedRightIfClean == Issuing /\ StartsClean => \A n \in At(blk) : Aimed(n)

(* re_request_bio meets a NULL area only because replacement_area_insert   *)
(* has refused an area for this very request, which the lists kept.        *)
Refused == AllListed \ repTree

NullAreaWasRefused ==
  fault = "nullArea" => \E n \in Refused : blk \in Span(n.ori)

(* As long as no demoted area has been accessed or deleted, an area that   *)
(* the tree refused is never chosen as a victim, and                       *)
(* hypraid_pop_priority_area erases no node that is not linked: the bio it *)
(* was made for has its room by then, and does not survive it.             *)
VictimInTree == ~ foreign /\ Popping /\ pri[Top.src] # <<>> => Victim \in repTree

(* The device as its user sees it: BlockArea implements StorageMap.        *)
Storage == INSTANCE StorageMap WITH loc <- Loc

StorageSpec == Storage!Spec

(* No physical block serves two logical ones.                              *)
NoSharedBlock == Storage!Injective

(* A demotion takes the contents along: the extent that                    *)
(* _hypraid_block_replacement_operation writes holds what it read.         *)
MoveCarriesData ==
  [][\A l \in Block :
       Loc[l] # -1 /\ Loc'[l] \notin {-1, Loc[l]} => disk'[Loc'[l]] = disk[Loc[l]]]_vars

(* The DELETE ioctl unmaps blocks of the range it is given, and no others. *)
DeleteWithinRange ==
  [][\A l \in Block :
       pc = "delete" /\ Loc[l] # -1 /\ Loc'[l] = -1 => l \in Span(req)]_vars

(* Every call returns or stops the machine: neither the recursions of      *)
(* insert and delete nor the nested replacement loops go on for ever.      *)
CallsReturn == pc # "idle" ~> (pc = "idle" \/ fault # "none")
=============================================================================
