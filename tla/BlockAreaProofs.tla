--------------------------- MODULE BlockAreaProofs ---------------------------
(***************************************************************************)
(* The block area manager for groups, requests and evictions of any size:  *)
(* its lists only ever hold well-formed areas of the device (TypeOK), and  *)
(* the lower groups' lists only hold their own blocks (TierPurity); no     *)
(* block of the device is lost or given out twice, the bitmap marks the    *)
(* blocks in use, and what it counts is there to be allocated              *)
(* (SpacePartition, BitsMatchAreas, Accounting, RoomWasMade).  With the    *)
(* other ioctls this is left: no counter promises too much                 *)
(* (CountersCautious), and TRANSFORM_BLOCK is right (TransformInverts).    *)
(***************************************************************************)
EXTENDS Ioctls, ExtentsProofs

(* An area of n blocks has n logical and n physical blocks, all of them on *)
(* the device; it may be empty, as the area of an idle loop is.            *)
NodeIn ==
  { n \in NodeType :
      /\ n.cnt = Size(n.ori) /\ n.cnt = Size(n.rep)
      /\ Span(n.ori) \subseteq Block /\ Span(n.rep) \subseteq Block }

(* What the lists of a group may hold: those of group 0 any blocks, those  *)
(* of the lower groups their own.                                          *)
Own(t) == IF t = 0 THEN Block ELSE TierBlocks(t)

NodeOf(t) == { n \in NodeIn : Span(n.rep) \subseteq Own(t) }

PriIn == { p \in [Tiers -> Seq(NodeIn)] : \A t \in Tiers : p[t] \in Seq(NodeOf(t)) }

AvailIn == { a \in [Tiers -> SUBSET Block] : \A t \in Tiers : a[t] \subseteq Own(t) }

FrameIn ==
  { f \in [src : {0, 1}, want : Int, area : NodeIn, rest : NodeIn] :
      f.area \in NodeOf(f.src) }

RequestIn ==
  { r \in [start : Int, end : Int, write : BOOLEAN] : r.start >= 0 /\ r.end < Total }

SpaceIn ==
  /\ avail \in AvailIn
  /\ pri \in PriIn
  /\ repTree \subseteq NodeIn
  /\ bits \subseteq Block

CallIn ==
  /\ pc \in {"idle", "search", "alloc", "issue", "evict", "delete"}
  /\ req \in RequestIn
  /\ blk \in Nat
  /\ off \in Nat
  /\ pc = "alloc" => blk <= req.end

DataIn ==
  /\ disk \in [Block -> Block \union {NoData}]
  /\ written \subseteq Block

IInv ==
  /\ SpaceIn
  /\ CallIn
  /\ ev \in Seq(FrameIn)
  /\ DataIn
  /\ fault \in Causes
  /\ foreign \in BOOLEAN

-----------------------------------------------------------------------------
(* Areas are made of a logical and a physical run of the same length.      *)
LEMMA NewNode ==
  ASSUME NEW o \in Int, NEW p \in Int, NEW n \in Int,
         o .. (o + n - 1) \subseteq Block, p .. (p + n - 1) \subseteq Block
  PROVE  Node(o, p, n) \in NodeIn
  BY DEF Node, NodeIn, NodeType, Extent, Size, Span

(* Cutting an area in two, as hypraid_pop_priority_area and                *)
(* hypraid_block_replacement_operation do.                                 *)
LEMMA CutNode ==
  ASSUME NEW v \in NodeIn, NEW n \in Int, n >= 0, n <= v.cnt
  PROVE  LET front == Node(v.ori.start, v.rep.start, n)
             back  == [ori |-> Extent(v.ori.start + n, v.ori.end),
                       rep |-> Extent(v.rep.start + n, v.rep.end), cnt |-> v.cnt - n]
         IN  /\ front \in NodeIn /\ Span(front.rep) \subseteq Span(v.rep)
             /\ back \in NodeIn /\ Span(back.rep) \subseteq Span(v.rep)
             /\ Span(front.rep) \union Span(back.rep) = Span(v.rep)
             /\ Span(front.rep) \intersect Span(back.rep) = {}
<1>1. /\ v.ori.start \in Int /\ v.ori.end \in Int /\ v.rep.start \in Int /\ v.rep.end \in Int
      /\ v.cnt \in Int /\ v.cnt = v.ori.end - v.ori.start + 1
      /\ v.cnt = v.rep.end - v.rep.start + 1
      /\ v.ori.start .. v.ori.end \subseteq Block /\ v.rep.start .. v.rep.end \subseteq Block
  BY DEF NodeIn, NodeType, Size, Span
<1>2. /\ v.ori.start .. (v.ori.start + n - 1) \subseteq v.ori.start .. v.ori.end
      /\ v.rep.start .. (v.rep.start + n - 1) \subseteq v.rep.start .. v.rep.end
  BY <1>1
<1>3. /\ (v.ori.start + n) .. v.ori.end \subseteq v.ori.start .. v.ori.end
      /\ (v.rep.start + n) .. v.rep.end \subseteq v.rep.start .. v.rep.end
  BY <1>1
<1>4. Node(v.ori.start, v.rep.start, n) \in NodeIn
  BY <1>1, <1>2, NewNode
<1>5. Span(Node(v.ori.start, v.rep.start, n).rep) \subseteq Span(v.rep)
  BY <1>1, <1>2 DEF Node, Extent, Span
<1> DEFINE back == [ori |-> Extent(v.ori.start + n, v.ori.end),
                    rep |-> Extent(v.rep.start + n, v.rep.end), cnt |-> v.cnt - n]
<1>6. /\ back.ori = [start |-> v.ori.start + n, end |-> v.ori.end]
      /\ back.rep = [start |-> v.rep.start + n, end |-> v.rep.end]
      /\ back.cnt = v.cnt - n
  BY DEF Extent
<1>7. back \in NodeType
  BY <1>1 DEF Extent, NodeType
<1>8. back \in NodeIn /\ Span(back.rep) \subseteq Span(v.rep)
  BY <1>1, <1>3, <1>6, <1>7 DEF NodeIn, Size, Span
<1>9. /\ Span(Node(v.ori.start, v.rep.start, n).rep) = v.rep.start .. (v.rep.start + n - 1)
      /\ Span(back.rep) = (v.rep.start + n) .. v.rep.end
      /\ Span(v.rep) = v.rep.start .. v.rep.end
  BY <1>6 DEF Node, Extent, Span
<1>10. /\ Span(Node(v.ori.start, v.rep.start, n).rep) \union Span(back.rep) = Span(v.rep)
       /\ Span(Node(v.ori.start, v.rep.start, n).rep) \intersect Span(back.rep) = {}
  <2>1. n >= 0 /\ n <= v.rep.end - v.rep.start + 1
    BY <1>1
  <2>2. v.rep.start \in Int /\ v.rep.end \in Int
    BY <1>1
  <2> HIDE DEF back
  <2> QED BY SMTT(60), <1>9, <2>1, <2>2, CutInterval
<1> QED BY <1>4, <1>5, <1>8, <1>10

(* priority_area_extract and the two insertions keep each group's list to  *)
(* its own areas.                                                          *)
LEMMA PriExtractType ==
  ASSUME NEW p \in PriIn, NEW n
  PROVE  PriExtract(p, n) \in PriIn
<1>1. \A t \in Tiers : p[t] \in Seq(NodeIn) /\ p[t] \in Seq(NodeOf(t))
  BY DEF PriIn
<1>2. \A t \in Tiers : Unlink(p[t], n) \in Seq(NodeIn) /\ Unlink(p[t], n) \in Seq(NodeOf(t))
  BY <1>1, UnlinkType
<1> QED BY <1>2 DEF PriExtract, PriIn

LEMMA PriInsertType ==
  ASSUME NEW p \in PriIn, NEW t \in Tiers, NEW n \in NodeOf(t)
  PROVE  PriInsert(p, t, n) \in PriIn /\ PriInsertLow(p, t, n) \in PriIn
<1>1. p \in [Tiers -> Seq(NodeIn)] /\ \A u \in Tiers : p[u] \in Seq(NodeOf(u))
  BY DEF PriIn
<1>2. n \in NodeIn
  BY DEF NodeOf
<1>3. /\ Cons(n, p[t]) \in Seq(NodeIn) /\ Cons(n, p[t]) \in Seq(NodeOf(t))
      /\ Append(p[t], n) \in Seq(NodeIn) /\ Append(p[t], n) \in Seq(NodeOf(t))
  BY <1>1, <1>2, AppendProperties, ConcatProperties DEF Cons
<1>4. [p EXCEPT ![t] = Cons(n, @)] \in PriIn
  BY <1>1, <1>3 DEF PriIn
<1>5. [p EXCEPT ![t] = Append(@, n)] \in PriIn
  BY <1>1, <1>3 DEF PriIn
<1> QED BY <1>4, <1>5 DEF PriInsert, PriInsertLow

(* available_area_insert and _extract do the same for the free extents.    *)
LEMMA AvailType ==
  ASSUME NEW a \in AvailIn, NEW t \in Tiers, NEW x
  PROVE  /\ AvailExtract(a, t, x) \in AvailIn
         /\ Span(x) \subseteq Own(t) => AvailInsert(a, t, x) \in AvailIn
<1>1. Own(t) \subseteq Block
  BY Geometry DEF Own
<1>2. a \in [Tiers -> SUBSET Block] /\ \A u \in Tiers : a[u] \subseteq Own(u)
  BY DEF AvailIn
<1>3. AvailExtract(a, t, x) \in AvailIn
  BY <1>2 DEF AvailExtract, AvailIn
<1>4. ASSUME Span(x) \subseteq Own(t) PROVE AvailInsert(a, t, x) \in AvailIn
  BY <1>1, <1>2, <1>4 DEF AvailInsert, AvailIn
<1> QED BY <1>3, <1>4

(* hypraid_is_area_bitmap_free answers with a number.                      *)
LEMMA AreaFreeType ==
  ASSUME NEW t \in Tiers, NEW n \in Int
  PROVE  AreaFree(t, n) \in Int
<1>1. Cardinality(bits \intersect TierBlocks(t)) \in Nat /\ AreaBlocks[t] \in Nat
  BY Sizes, Geometry, FS_Subset, FS_CardinalityType
<1> QED BY <1>1 DEF AreaFree

(* A new loop has no area; the loops under the running one are frames too. *)
LEMMA FrameType ==
  ASSUME NEW t \in {0, 1}, NEW n \in Int
  PROVE  Frame(t, n) \in FrameIn /\ NoNode \in NodeIn
<1>1. 0 .. (0 + 0 - 1) \subseteq Block
  OBVIOUS
<1>2. NoNode \in NodeIn
  BY <1>1, NewNode DEF NoNode
<1>3. Span(NoNode.rep) = {}
  BY DEF NoNode, Node, Span, Extent
<1> QED BY <1>2, <1>3 DEF Frame, FrameIn, NodeOf

LEMMA StackType ==
  ASSUME ev \in Seq(FrameIn), ev # <<>>
  PROVE  Top \in FrameIn /\ Under \in Seq(FrameIn)
<1>1. Len(ev) \in Nat \ {0}
  BY EmptySeq
<1>2. Top \in FrameIn
  BY <1>1, ElementOfSeq DEF Top, Last
<1>3. \A i \in 1 .. (Len(ev) - 1) : ev[i] \in FrameIn
  BY <1>1, ElementOfSeq
<1>4. Under \in Seq(FrameIn)
  BY <1>1, <1>3, SubSeqProperties DEF Under, Front
<1> QED BY <1>2, <1>4

-----------------------------------------------------------------------------
LEMMA InitIInv == Init => IInv
<1> SUFFICES ASSUME Init PROVE IInv
  OBVIOUS
<1>1. avail \in AvailIn
  BY Geometry DEF Init, AvailIn, Own
<1>2. pri \in PriIn
  BY EmptySeq DEF Init, PriIn
<1>3. NoReq \in RequestIn
  BY Geometry DEF NoReq, Call, Extent, RequestIn
<1>4. <<>> \in Seq(FrameIn)
  BY EmptySeq
<1> QED BY <1>1, <1>2, <1>3, <1>4, Geometry
        DEF Init, IInv, SpaceIn, CallIn, DataIn, Causes, NoData

(* The calls the ioctls and the bios begin: their extents are blocks.      *)
LEMMA StartType ==
  ASSUME NEW x \in Logical, NEW w \in BOOLEAN
  PROVE  Call(x, w) \in RequestIn /\ Call(x, w).start \in Nat
  BY Geometry DEF Logical, Call, RequestIn, Block

LEMMA BeginKeeps == IInv /\ (Submit \/ Discard \/ Evict \/ Delete) => IInv'
<1> SUFFICES ASSUME IInv, Submit \/ Discard \/ Evict \/ Delete PROVE IInv'
  OBVIOUS
<1> USE DEF IInv
<1>1. ASSUME NEW p \in {"search", "delete"}, NEW x \in Logical, NEW w \in BOOLEAN,
             Start(p, Call(x, w))
      PROVE  IInv'
  <2>1. CallIn'
    BY <1>1, StartType DEF Start, CallIn
  <2> QED BY <1>1, <2>1 DEF Start, space, data, SpaceIn, DataIn
<1>2. CASE Submit
  <2>1. PICK r \in Requests : Start("search", r)
    BY <1>2 DEF Submit
  <2>2. PICK x \in Logical, w \in BOOLEAN : r = Call(x, w)
    BY BlockAreaAssumption
  <2>3. Start("search", Call(x, w))
    BY <2>1, <2>2
  <2> QED BY <1>1, <2>3
<1>3. CASE Delete
  <2>1. PICK x \in Deletes : Start("delete", Call(x, FALSE))
    BY <1>3 DEF Delete
  <2>2. x \in Logical /\ FALSE \in BOOLEAN
    BY BlockAreaAssumption
  <2> QED BY <1>1, <2>1, <2>2
<1>4. CASE Discard
  <2>1. DataIn'
    BY <1>4 DEF Discard, DataIn
  <2> QED BY <1>4, <2>1 DEF Discard, space, call, SpaceIn, CallIn
<1>5. CASE Evict
  <2>1. PICK n \in Evictions : ev' = <<Frame(0, n)>>
    BY <1>5 DEF Evict
  <2>2. n \in Int
    BY <2>1, BlockAreaAssumption
  <2>3. Frame(0, n) \in FrameIn
    BY <2>2, FrameType
  <2>4. ev' \in Seq(FrameIn)
    BY <2>1, <2>3
  <2>5. pc' = "evict" /\ UNCHANGED <<space, req, blk, off, fault, data, foreign>>
    BY <1>5 DEF Evict
  <2> QED BY <2>4, <2>5 DEF space, data, SpaceIn, CallIn, DataIn
<1> QED BY <1>2, <1>3, <1>4, <1>5

-----------------------------------------------------------------------------
(* An area found in the tree, for the first block of a range.              *)
LEMMA FoundType ==
  ASSUME IInv, NEW n \in At(blk)
  PROVE  /\ n \in NodeOf(0) /\ n \in NodeIn /\ n.ori.start \in Int /\ n.ori.end \in Int
         /\ n.cnt \in Int /\ n.cnt >= 1 /\ n.cnt = n.ori.end - n.ori.start + 1
         /\ n.ori.start <= blk /\ blk <= n.ori.end /\ n.rep.start \in Int
<1>1. n \in NodeIn /\ blk \in n.ori.start .. n.ori.end
  BY DEF IInv, SpaceIn, At, Span
<1>2. n \in NodeOf(0)
  BY <1>1 DEF NodeOf, Own, NodeIn
<1>3. /\ n.ori.start \in Int /\ n.ori.end \in Int /\ n.cnt \in Int /\ n.rep.start \in Int
      /\ n.cnt = n.ori.end - n.ori.start + 1
  BY <1>1 DEF NodeIn, NodeType, Size
<1> QED BY <1>1, <1>2, <1>3

(* The front of a free extent that an allocation of m blocks takes.        *)
LEMMA FitType ==
  ASSUME NEW F, F \subseteq Block, NEW m \in Int, NEW x \in FirstFit(F, m)
  PROVE  LET n == MIN(m, Size(x))
         IN  /\ x.start \in Int /\ n \in Int /\ n <= m /\ (n = m \/ n >= 1)
             /\ m >= 1 => n >= 1
             /\ x.start .. (x.start + n - 1) \subseteq F
<1>1. x.start \in F /\ x.end \in F /\ x.start <= x.end /\ x.start .. x.end \subseteq F
  BY FitIsFree DEF Span
<1>2. F \subseteq Int
  BY Geometry
<1>3. x.start \in Int /\ x.end \in Int /\ Size(x) = x.end - x.start + 1
  BY <1>1, <1>2 DEF Size
<1>4. Size(x) \in Int /\ Size(x) >= 1
  BY <1>1, <1>3
<1> DEFINE n == MIN(m, Size(x))
<1>5. n \in Int /\ n <= m /\ n <= Size(x) /\ (n = m \/ n = Size(x))
  BY <1>4, MinInt
<1> HIDE DEF n
<1>6. x.start .. (x.start + n - 1) \subseteq x.start .. x.end
  BY <1>3, <1>5
<1> QED BY <1>1, <1>3, <1>4, <1>5, <1>6 DEF n

LEMMA TouchKeeps == IInv /\ Touch => IInv'
<1> SUFFICES ASSUME IInv, Touch PROVE IInv'
  OBVIOUS
<1> USE DEF IInv
<1>1. PICK n \in At(blk) : /\ pri' = PriInsert(PriExtract(pri, n), 0, n)
                           /\ blk' = Behind(n)
                           /\ foreign' = (foreign \/ Stray(n))
  BY DEF Touch
<1>2. UNCHANGED <<avail, repTree, bits, pc, req, off, ev, fault, disk, written>>
      /\ pc = "search"
  BY DEF Touch, data, Searching, Running
<1>3. pri' \in PriIn
  BY <1>1, FoundType, PriExtractType, PriInsertType DEF SpaceIn, Tiers
<1>4. blk' \in Nat
  BY <1>1, FoundType DEF Behind, CallIn
<1>5. foreign' \in BOOLEAN
  BY <1>1
<1> QED BY <1>2, <1>3, <1>4, <1>5 DEF SpaceIn, CallIn, DataIn

LEMMA MakeRoomKeeps == IInv /\ MakeRoom => IInv'
<1> SUFFICES ASSUME IInv, MakeRoom PROVE IInv'
  OBVIOUS
<1> USE DEF IInv
<1> DEFINE left == AreaFree(0, req.end - blk + 1)
<1>1. ev' = (IF left < 0 THEN <<Frame(0, -left)>> ELSE <<>>) /\ pc' = "alloc" /\ blk <= req.end
  BY DEF MakeRoom, Searching
<1>2. left \in Int
  BY AreaFreeType DEF CallIn, RequestIn, Tiers
<1> HIDE DEF left
<1>3. Frame(0, -left) \in FrameIn
  BY <1>2, FrameType
<1>4. ev' \in Seq(FrameIn)
  BY <1>1, <1>3, EmptySeq
<1>5. UNCHANGED <<space, req, blk, off, fault, data, foreign>>
  BY DEF MakeRoom
<1> QED BY <1>1, <1>4, <1>5 DEF space, data, SpaceIn, CallIn, DataIn

(* hypraid_insert_block_area maps a new area to free blocks of group 0.    *)
LEMMA AllocDoes ==
  ASSUME IInv, Alloc
  PROVE  /\ UNCHANGED <<req, off, ev, fault, disk, written, foreign>>
         /\ pc' = "search" /\ pc = "alloc"
         /\ \E area \in NodeIn :
              /\ area.cnt >= 1 /\ Span(area.rep) \subseteq avail[0]
              /\ bits' = bits \union Span(area.rep)
              /\ avail' = AvailExtract(avail, 0, area.rep)
              /\ pri' = PriInsert(pri, 0, area)
              /\ repTree' = RepInsert(repTree, area)
              /\ blk' = blk + area.cnt
<1> USE DEF IInv
<1>1. PICK x \in FirstFit(avail[0], req.end - blk + 1) :
        LET n    == MIN(req.end - blk + 1, Size(x))
            area == Node(blk, x.start, n)
        IN  /\ bits' = bits \union Span(area.rep)
            /\ avail' = AvailExtract(avail, 0, area.rep)
            /\ pri' = PriInsert(pri, 0, area)
            /\ repTree' = RepInsert(repTree, area)
            /\ blk' = blk + n
  BY DEF Alloc
<1> DEFINE n    == MIN(req.end - blk + 1, Size(x))
           area == Node(blk, x.start, n)
<1>2. UNCHANGED <<req, off, ev, fault, disk, written, foreign>>
      /\ pc' = "search" /\ pc = "alloc"
  BY DEF Alloc, data, Running
<1>3. /\ blk \in Nat /\ req.end \in Int /\ blk <= req.end /\ req.end < Total /\ Total \in Nat
      /\ avail[0] \subseteq Block
  BY <1>2, Geometry DEF SpaceIn, AvailIn, CallIn, RequestIn, Tiers
<1>4. req.end - blk + 1 \in Int /\ req.end - blk + 1 >= 1
  BY <1>3
<1>5. /\ x.start \in Int /\ n \in Int /\ n >= 1 /\ n <= req.end - blk + 1
      /\ x.start .. (x.start + n - 1) \subseteq avail[0]
  BY <1>1, <1>3, <1>4, FitType
<1> HIDE DEF n
<1>6. /\ blk .. (blk + n - 1) \subseteq Block
      /\ x.start .. (x.start + n - 1) \subseteq Block
  BY <1>3, <1>5 DEF Block
<1>7. area \in NodeIn
  <2>1. blk \in Int /\ x.start \in Int /\ n \in Int
    BY <1>3, <1>5
  <2>2. Node(blk, x.start, n) \in NodeIn
    BY <1>6, <2>1, NewNode
  <2> QED BY <2>2
<1>8. Span(area.rep) = x.start .. (x.start + n - 1) /\ area.cnt = n
  BY DEF Node, Extent, Span
<1> HIDE DEF area
<1>9. /\ bits' = bits \union Span(area.rep) /\ avail' = AvailExtract(avail, 0, area.rep)
      /\ pri' = PriInsert(pri, 0, area) /\ repTree' = RepInsert(repTree, area)
      /\ blk' = blk + area.cnt
  BY <1>1, <1>8 DEF n, area
<1>10. area.cnt >= 1 /\ Span(area.rep) \subseteq avail[0]
  BY <1>5, <1>8
<1> QED BY <1>2, <1>7, <1>9, <1>10

LEMMA AllocKeeps == IInv /\ Alloc => IInv'
<1> SUFFICES ASSUME IInv, Alloc PROVE IInv'
  OBVIOUS
<1> USE DEF IInv
<1>1. PICK area \in NodeIn :
        /\ area.cnt >= 1 /\ Span(area.rep) \subseteq avail[0]
        /\ bits' = bits \union Span(area.rep)
        /\ avail' = AvailExtract(avail, 0, area.rep)
        /\ pri' = PriInsert(pri, 0, area)
        /\ repTree' = RepInsert(repTree, area)
        /\ blk' = blk + area.cnt
  BY AllocDoes
<1>2. UNCHANGED <<req, off, ev, fault, disk, written, foreign>> /\ pc' = "search"
  BY AllocDoes
<1>3. Span(area.rep) \subseteq Block /\ area \in NodeOf(0)
  BY DEF NodeIn, NodeOf, Own
<1>4. SpaceIn'
  BY <1>1, <1>3, AvailType, PriInsertType DEF SpaceIn, RepInsert, Tiers
<1>5. CallIn'
  BY <1>1, <1>2 DEF CallIn, NodeIn, NodeType
<1> QED BY <1>2, <1>4, <1>5 DEF DataIn

LEMMA ReturnKeeps == IInv /\ (Inserted \/ Issued \/ Deleted) => IInv'
<1> SUFFICES ASSUME IInv, Inserted \/ Issued \/ Deleted PROVE IInv'
  OBVIOUS
<1> USE DEF IInv
<1>1. CASE Inserted
  <2>1. CallIn'
    BY <1>1 DEF Inserted, CallIn, RequestIn
  <2> QED BY <1>1, <2>1 DEF Inserted, space, data, SpaceIn, DataIn
<1>2. CASE Issued \/ Deleted
  <2>1. Return
    BY <1>2 DEF Issued, Deleted
  <2>2. NoReq \in RequestIn
    BY Geometry DEF NoReq, Call, Extent, RequestIn
  <2>3. CallIn'
    BY <2>1, <2>2 DEF Return, CallIn
  <2> QED BY <2>1, <2>3 DEF Return, space, data, SpaceIn, DataIn
<1> QED BY <1>1, <1>2

(* re_request_bio writes only blocks of the request, and of the device.    *)
LEMMA IssueKeeps == IInv /\ Issue => IInv'
<1> SUFFICES ASSUME IInv, Issue PROVE IInv'
  OBVIOUS
<1> USE DEF IInv
<1>1. PICK n \in At(blk) :
        /\ ~ SplitFails(n)
        /\ LET x    == Piece(n)
               sent == Sent(x.to.start, x.to.end, TargetSize)
               wrote == IF req.write THEN { x.from + (p - x.to.start) : p \in sent }
                                     ELSE {}
           IN  /\ disk' = [p \in Block |->
                            IF req.write /\ p \in sent
                              THEN x.from + (p - x.to.start)
                            ELSE IF disk[p] \in wrote THEN NoData ELSE disk[p]]
               /\ written' = written \union wrote
               /\ off' = x.from + x.cnt
        /\ blk' = n.ori.start + n.cnt
  BY DEF Issue
<1> DEFINE len   == IF LastPiece(n) THEN req.end - off + 1 ELSE n.cnt
           S     == n.rep.start + (blk - n.ori.start)
           sent  == Sent(S, S + len - 1, TargetSize)
           wrote == IF req.write THEN { off + (p - S) : p \in sent } ELSE {}
<1>2. /\ Piece(n).from = off /\ Piece(n).to.start = S /\ Piece(n).to.end = S + len - 1
      /\ Piece(n).cnt = len
  BY DEF Piece, Extent
<1>3. /\ disk' = [p \in Block |->
                  IF req.write /\ p \in sent THEN off + (p - S)
                  ELSE IF disk[p] \in wrote THEN NoData ELSE disk[p]]
      /\ written' = written \union wrote
      /\ off' = off + len
      /\ blk' = n.ori.start + n.cnt
  BY <1>1, <1>2
<1>4. /\ UNCHANGED <<avail, pri, repTree, bits, pc, req, ev, fault, foreign>>
      /\ pc = "issue" /\ blk <= req.end
  BY DEF Issue, Issuing, Running, space
<1>5. /\ n.ori.start \in Int /\ n.ori.end \in Int /\ n.cnt \in Int /\ n.cnt >= 1
      /\ n.ori.start <= blk /\ blk <= n.ori.end /\ n.rep.start \in Int
      /\ n.cnt = n.ori.end - n.ori.start + 1
  BY <1>1, FoundType
<1>6. blk \in Nat /\ off \in Nat /\ req.end \in Int /\ req.end < Total /\ Total \in Nat
  BY Geometry DEF CallIn, RequestIn
<1>7. S \in Int /\ len \in Int /\ off + len - 1 <= req.end /\ off + len >= 0
  <2>1. S \in Int
    BY SMTT(60), <1>5, <1>6
  <2>2. ~ LastPiece(n) => n.cnt < req.end - off + 1
    BY <1>1, <1>5, <1>6 DEF SplitFails
  <2>3. CASE LastPiece(n)
    <3>1. len = req.end - off + 1
      BY <2>3
    <3>2. req.end >= 0
      BY <1>4, <1>6
    <3> HIDE DEF len, S
    <3> QED BY <1>6, <2>1, <3>1, <3>2
  <2>4. CASE ~ LastPiece(n)
    <3>1. len = n.cnt
      BY <2>4
    <3>2. n.cnt \in Int /\ n.cnt >= 1 /\ n.cnt < req.end - off + 1
      BY <1>5, <2>2, <2>4
    <3> HIDE DEF len, S
    <3> QED BY <1>6, <2>1, <3>1, <3>2
  <2> QED BY <2>3, <2>4
<1> HIDE DEF len, S
<1>8. sent \subseteq S .. (S + len - 1)
  BY <1>7, SentWithin, BlockAreaAssumption
<1> HIDE DEF sent
<1>9. \A p \in sent : off + (p - S) \in Block
  BY <1>6, <1>7, <1>8 DEF Block
<1>10. wrote \subseteq Block
  BY <1>9
<1> HIDE DEF wrote
<1>11. DataIn'
  BY <1>3, <1>9, <1>10 DEF DataIn
<1>12. blk' \in Nat /\ off' \in Nat
  <2>1. off' = off + len /\ blk' = n.ori.start + n.cnt
    BY <1>3
  <2>2. n.ori.start + n.cnt \in Nat
    <3>1. n.ori.start + n.cnt = n.ori.end + 1 /\ blk <= n.ori.end
      BY <1>5
    <3> QED BY <1>5, <1>6, <3>1
  <2>3. off + len \in Nat
    BY <1>6, <1>7
  <2> QED BY <2>1, <2>2, <2>3
<1> QED BY <1>3, <1>4, <1>11, <1>12 DEF SpaceIn, CallIn

-----------------------------------------------------------------------------
(* The area hypraid_pop_priority_area takes, and what it leaves.           *)
LEMMA PopDoes ==
  ASSUME IInv, Pop
  PROVE  /\ UNCHANGED <<avail, bits, call, fault, data, foreign>>
         /\ ev # <<>> /\ Top.area = NoNode /\ Top.src \in {0, 1} /\ Top.src \in Tiers
         /\ Victim \in NodeIn /\ Victim \in Range(pri[Top.src])
         /\ \E f \in FrameIn, k \in Int :
              /\ f.src = Top.src /\ f.rest = f.area /\ f.want = Top.want - f.area.cnt
              /\ \/ ev' = Append(Under, f)
                 \/ Top.src = 0 /\ ev' = Under \o <<f, Frame(1, k)>>
              /\ \/ /\ f.area = Victim
                    /\ pri' = PriExtract(pri, Victim)
                    /\ repTree' = repTree \ {Victim}
                 \/ \E kept \in NodeOf(Top.src) :
                      /\ f.area.cnt >= 1 /\ kept.cnt >= 1
                      /\ Span(f.area.rep) \union Span(kept.rep) = Span(Victim.rep)
                      /\ Span(f.area.rep) \intersect Span(kept.rep) = {}
                      /\ pri' = PriInsertLow(PriExtract(pri, Victim), Top.src, kept)
                      /\ repTree' = RepInsert(repTree \ {Victim}, kept)
<1> USE DEF IInv
<1> DEFINE t     == Top.src
           v     == Victim
           n     == MIN(Top.want, v.cnt)
           front == Node(v.ori.start, v.rep.start, n)
           taken == IF n = v.cnt THEN v ELSE front
           kept  == [ ori |-> Extent(v.ori.start + n, v.ori.end),
                      rep |-> Extent(v.rep.start + n, v.rep.end),
                      cnt |-> v.rep.end - (v.rep.start + n) + 1 ]
           rest  == PriExtract(pri, v)
           left  == AreaFree(t + 1, taken.cnt)
           top   == [src |-> t, want |-> Top.want - n, area |-> taken, rest |-> taken]
<1>1. /\ pri' = (IF n = v.cnt THEN rest ELSE PriInsertLow(rest, t, kept))
      /\ repTree' = (IF n = v.cnt THEN repTree \ {v} ELSE RepInsert(repTree \ {v}, kept))
      /\ ev' = (IF t = 0 /\ left < 0 THEN Under \o <<top, Frame(1, -left)>>
                                     ELSE Append(Under, top))
  BY DEF Pop
<1>2. /\ UNCHANGED <<avail, bits, call, fault, data, foreign>>
      /\ ev # <<>> /\ Top.want > 0 /\ pri[Top.src] # <<>> /\ Top.area = NoNode
  BY DEF Pop, Popping, Evicting
<1>3. /\ Top \in FrameIn /\ Under \in Seq(FrameIn) /\ t \in {0, 1} /\ t \in Tiers
      /\ t + 1 \in Tiers /\ Top.want \in Int
      /\ Top = [src |-> t, want |-> Top.want, area |-> Top.area, rest |-> Top.rest]
  BY <1>2, StackType DEF FrameIn, Tiers
<1>4. v \in NodeOf(t) /\ v \in NodeIn /\ v \in Range(pri[t])
  <2>1. pri[t] \in Seq(NodeOf(t)) /\ pri[t] # <<>>
    BY <1>2, <1>3 DEF SpaceIn, PriIn
  <2>2. Len(pri[t]) \in 1 .. Len(pri[t])
    BY <2>1, EmptySeq
  <2>3. pri[t][Len(pri[t])] \in NodeOf(t)
    BY <2>1, <2>2, ElementOfSeq
  <2>4. pri[t][Len(pri[t])] \in Range(pri[t])
    BY <2>1, <2>2, LenProperties DEF Range
  <2> QED BY <2>3, <2>4 DEF Victim, Last, NodeOf
<1>5. /\ v.cnt \in Int /\ v.rep.end \in Int /\ v.rep.start \in Int
      /\ v.cnt = v.rep.end - v.rep.start + 1
  BY <1>4 DEF NodeIn, NodeType, Size
<1>6. n \in Int /\ n <= v.cnt /\ (n = v.cnt \/ n > 0)
  BY <1>2, <1>3, <1>5, MinInt
<1> HIDE DEF n
<1>7. n # v.cnt => /\ front \in NodeOf(t) /\ kept \in NodeOf(t)
                  /\ front.cnt >= 1 /\ kept.cnt >= 1
                  /\ Span(front.rep) \union Span(kept.rep) = Span(v.rep)
                  /\ Span(front.rep) \intersect Span(kept.rep) = {}
  <2> HAVE n # v.cnt
  <2>1. n >= 0 /\ v.rep.end - (v.rep.start + n) + 1 = v.cnt - n
    BY <1>5, <1>6
  <2>2. /\ front \in NodeIn /\ Span(front.rep) \subseteq Span(v.rep)
        /\ kept \in NodeIn /\ Span(kept.rep) \subseteq Span(v.rep)
        /\ Span(front.rep) \union Span(kept.rep) = Span(v.rep)
        /\ Span(front.rep) \intersect Span(kept.rep) = {}
    BY <1>4, <1>6, <2>1, CutNode
  <2>3. front.cnt = n /\ kept.cnt = v.cnt - n
    BY <2>1 DEF Node
  <2>4. front.cnt >= 1 /\ kept.cnt >= 1
    BY <1>5, <1>6, <2>3
  <2> QED BY <1>4, <2>2, <2>4 DEF NodeOf
<1>8. taken \in NodeOf(t) /\ taken \in NodeIn /\ taken.cnt \in Int
  BY <1>4, <1>7 DEF NodeOf, NodeIn, NodeType
<1>9. /\ n = v.cnt => taken = v
      /\ n # v.cnt => taken = front
      /\ taken.cnt = n
  BY DEF Node
<1> HIDE DEF front, kept, taken, rest
<1>10. left \in Int
  BY <1>3, <1>8, AreaFreeType
<1> HIDE DEF left
<1>11. /\ top \in FrameIn /\ top.src = t /\ top.area = taken /\ top.rest = taken
       /\ top.want = Top.want - n
  <2>1. Top.want - n \in Int
    BY <1>3, <1>6
  <2> QED BY <1>3, <1>8, <2>1 DEF FrameIn
<1> HIDE DEF top
<1>12. /\ -left \in Int
       /\ \/ ev' = Append(Under, top)
          \/ t = 0 /\ ev' = Under \o <<top, Frame(1, -left)>>
  BY <1>1, <1>10
<1>13. \/ /\ top.area = v /\ pri' = rest /\ repTree' = repTree \ {v}
       \/ /\ kept \in NodeOf(t) /\ top.area.cnt >= 1 /\ kept.cnt >= 1
          /\ Span(top.area.rep) \union Span(kept.rep) = Span(v.rep)
          /\ Span(top.area.rep) \intersect Span(kept.rep) = {}
          /\ pri' = PriInsertLow(rest, t, kept)
          /\ repTree' = RepInsert(repTree \ {v}, kept)
  <2>1. CASE n = v.cnt
    BY <1>1, <1>9, <1>11, <2>1
  <2>2. CASE n # v.cnt
    BY <1>1, <1>7, <1>9, <1>11, <2>2
  <2> QED BY <2>1, <2>2
<1> DEFINE Whole(f) == f.area = v /\ pri' = rest /\ repTree' = repTree \ {v}
           Part(f)  == \E w \in NodeOf(t) :
                         /\ f.area.cnt >= 1 /\ w.cnt >= 1
                         /\ Span(f.area.rep) \union Span(w.rep) = Span(v.rep)
                         /\ Span(f.area.rep) \intersect Span(w.rep) = {}
                         /\ pri' = PriInsertLow(rest, t, w)
                         /\ repTree' = RepInsert(repTree \ {v}, w)
<1>14. Whole(top) \/ Part(top)
  BY <1>13
<1> HIDE DEF Whole, Part
<1>15. \E f \in FrameIn, k \in Int :
         /\ f.src = t /\ f.rest = f.area /\ f.want = Top.want - f.area.cnt
         /\ \/ ev' = Append(Under, f)
            \/ t = 0 /\ ev' = Under \o <<f, Frame(1, k)>>
         /\ Whole(f) \/ Part(f)
  BY <1>9, <1>11, <1>12, <1>14
<1> QED BY <1>2, <1>3, <1>4, <1>15 DEF rest, Whole, Part

LEMMA PopKeeps == IInv /\ Pop => IInv'
<1> SUFFICES ASSUME IInv, Pop PROVE IInv'
  OBVIOUS
<1> USE DEF IInv
<1> DEFINE rest == PriExtract(pri, Victim)
<1>1. /\ UNCHANGED <<avail, bits, call, fault, data, foreign>>
      /\ ev # <<>> /\ Top.src \in Tiers
  BY PopDoes
<1>2. PICK f \in FrameIn, k \in Int : /\ \/ ev' = Append(Under, f)
                                         \/ ev' = Under \o <<f, Frame(1, k)>>
                                      /\ \/ /\ pri' = rest /\ repTree' = repTree \ {Victim}
                                         \/ \E kept \in NodeOf(Top.src) :
                                              /\ pri' = PriInsertLow(rest, Top.src, kept)
                                              /\ repTree' = RepInsert(repTree \ {Victim}, kept)
  BY PopDoes
<1>3. ev' \in Seq(FrameIn)
  <2>1. Under \in Seq(FrameIn) /\ Frame(1, k) \in FrameIn
    BY <1>1, StackType, FrameType
  <2>2. Append(Under, f) \in Seq(FrameIn)
    BY <2>1, AppendProperties
  <2>3. <<f, Frame(1, k)>> \in Seq(FrameIn)
    BY <2>1
  <2>4. Under \o <<f, Frame(1, k)>> \in Seq(FrameIn)
    BY <2>1, <2>3, ConcatProperties
  <2> QED BY <1>2, <2>2, <2>4
<1>4. rest \in PriIn
  BY PriExtractType DEF SpaceIn
<1> HIDE DEF rest
<1>5. pri' \in PriIn
  BY <1>1, <1>2, <1>4, PriInsertType
<1>6. repTree' \subseteq NodeIn
  BY <1>2 DEF SpaceIn, RepInsert, NodeOf
<1> QED BY <1>1, <1>3, <1>5, <1>6 DEF SpaceIn, CallIn, DataIn, call, data

(* Where hypraid_block_replacement_operation puts it: in the next group,   *)
(* and its old blocks go back to the group it came from.                   *)
LEMMA PlaceDoes ==
  ASSUME IInv, Place
  PROVE  /\ UNCHANGED <<call, fault, written, foreign>>
         /\ ev # <<>> /\ Top \in FrameIn /\ Top.area # NoNode
         /\ Top.src \in Tiers /\ Top.src + 1 \in Tiers
         /\ \E n \in Int, dst \in NodeOf(Top.src + 1), f \in FrameIn :
              /\ n <= Top.rest.cnt /\ (n = Top.rest.cnt \/ n >= 1)
              /\ dst.cnt = n /\ dst.rep.start \in Int
              /\ Span(dst.rep) = dst.rep.start .. (dst.rep.start + n - 1)
              /\ Span(dst.rep) \subseteq avail[Top.src + 1]
              /\ bits' = (bits \union Span(dst.rep))
                           \ (Top.rest.rep.start .. (Top.rest.rep.start + n - 1))
              /\ pri' = PriInsert(pri, Top.src + 1, dst)
              /\ repTree' = RepInsert(repTree, dst)
              /\ disk' = Copy(disk, Top.rest.rep.start, dst.rep.start, n)
              /\ ev' = Append(Under, f) /\ f.src = Top.src /\ f.want = Top.want
              /\ LET a == AvailExtract(avail, Top.src + 1, dst.rep)
                 IN  \/ /\ n = Top.rest.cnt
                        /\ avail' = AvailInsert(a, Top.src, Top.area.rep)
                        /\ f = Frame(Top.src, Top.want)
                     \/ /\ n < Top.rest.cnt
                        /\ avail' = a
                        /\ f.area = Top.area /\ f.rest.cnt = Top.rest.cnt - n
                        /\ Span(f.rest.rep) = (Top.rest.rep.start + n) .. Top.rest.rep.end
<1> USE DEF IInv
<1>1. PICK x \in FirstFit(avail[Top.src + 1], Top.rest.cnt) :
        LET t   == Top.src
            s   == Top.rest
            n   == MIN(s.cnt, Size(x))
            dst == Node(s.ori.start, x.start, n)
            top == [ori |-> Extent(s.ori.start + n, s.ori.end),
                    rep |-> Extent(s.rep.start + n, s.rep.end),
                    cnt |-> s.cnt - n]
            a   == AvailExtract(avail, t + 1, dst.rep)
        IN  /\ bits' = (bits \union Span(dst.rep))
                         \ (s.rep.start .. (s.rep.start + n - 1))
            /\ pri' = PriInsert(pri, t + 1, dst)
            /\ repTree' = RepInsert(repTree, dst)
            /\ disk' = Copy(disk, s.rep.start, dst.rep.start, n)
            /\ IF n = s.cnt
               THEN /\ avail' = AvailInsert(a, t, Top.area.rep)
                    /\ ev' = Append(Under, Frame(t, Top.want))
               ELSE /\ avail' = a
                    /\ ev' = Append(Under, [Top EXCEPT !.rest = top])
  BY DEF Place
<1> DEFINE t   == Top.src
           s   == Top.rest
           n   == MIN(s.cnt, Size(x))
           dst == Node(s.ori.start, x.start, n)
           top == [ori |-> Extent(s.ori.start + n, s.ori.end),
                   rep |-> Extent(s.rep.start + n, s.rep.end),
                   cnt |-> s.cnt - n]
           a   == AvailExtract(avail, t + 1, dst.rep)
<1>2. UNCHANGED <<call, fault, written, foreign>> /\ ev # <<>> /\ Top.area # NoNode
  BY DEF Place, Placing, Evicting
<1>3. /\ Top \in FrameIn /\ Under \in Seq(FrameIn) /\ t \in {0, 1} /\ t \in Tiers
      /\ t + 1 \in Tiers /\ Top.want \in Int /\ s \in NodeIn
      /\ Span(Top.area.rep) \subseteq Own(t)
  BY <1>2, StackType DEF FrameIn, Tiers, NodeOf
<1>4. avail[t + 1] \subseteq Own(t + 1) /\ Own(t + 1) \subseteq Block
      /\ avail[t + 1] \subseteq Block
  <2>1. avail[t + 1] \subseteq Own(t + 1)
    BY <1>3 DEF SpaceIn, AvailIn
  <2>2. Own(t + 1) \subseteq Block
    BY <1>3, Geometry DEF Own
  <2> QED BY <2>1, <2>2
<1>5. /\ s.cnt \in Int /\ s.ori.start \in Int /\ s.ori.end \in Int
      /\ s.rep.start \in Int /\ s.rep.end \in Int
      /\ s.cnt = s.ori.end - s.ori.start + 1 /\ s.cnt = s.rep.end - s.rep.start + 1
      /\ s.ori.start .. s.ori.end \subseteq Block /\ s.rep.start .. s.rep.end \subseteq Block
  BY <1>3 DEF NodeIn, NodeType, Size, Span
<1>6. /\ x.start \in Int /\ n \in Int /\ n <= s.cnt /\ (n = s.cnt \/ n >= 1)
      /\ x.start .. (x.start + n - 1) \subseteq avail[t + 1]
  BY <1>1, <1>4, <1>5, FitType
<1> HIDE DEF n
<1>7. /\ s.ori.start .. (s.ori.start + n - 1) \subseteq Block
      /\ s.rep.start .. (s.rep.start + n - 1) \subseteq Block
      /\ x.start .. (x.start + n - 1) \subseteq Block
  <2>1. \A i, j \in Int : n <= j - i + 1 => i .. (i + n - 1) \subseteq i .. j
    BY <1>6
  <2>2. n <= s.ori.end - s.ori.start + 1 /\ n <= s.rep.end - s.rep.start + 1
    BY <1>5, <1>6
  <2> QED BY <1>4, <1>5, <1>6, <2>1, <2>2
<1>8. /\ dst \in NodeOf(t + 1) /\ dst.rep.start = x.start /\ dst.cnt = n
      /\ Span(dst.rep) = x.start .. (x.start + n - 1)
  <2>1. Node(s.ori.start, x.start, n) \in NodeIn
    BY <1>5, <1>6, <1>7, NewNode
  <2>2. /\ dst.rep.start = x.start /\ dst.cnt = n
        /\ Span(dst.rep) = x.start .. (x.start + n - 1)
    BY DEF Node, Extent, Span
  <2> QED BY <1>4, <1>6, <2>1, <2>2 DEF NodeOf
<1> HIDE DEF dst
<1>9. /\ top.cnt = s.cnt - n
      /\ Span(top.rep) = (s.rep.start + n) .. s.rep.end
      /\ n # s.cnt => top \in NodeIn
  <2>1. top.cnt = s.cnt - n /\ Span(top.rep) = (s.rep.start + n) .. s.rep.end
    BY DEF Extent, Span
  <2>2. n # s.cnt => top \in NodeIn
    <3> HAVE n # s.cnt
    <3>1. n >= 0 /\ n <= s.cnt
      BY <1>6
    <3> QED BY <1>3, <1>6, <3>1, CutNode
  <2> QED BY <2>1, <2>2
<1> HIDE DEF top
<1> DEFINE f == IF n = s.cnt THEN Frame(t, Top.want) ELSE [Top EXCEPT !.rest = top]
<1>10. f \in FrameIn
  <2>1. Frame(t, Top.want) \in FrameIn
    BY <1>3, FrameType
  <2>2. n # s.cnt => [Top EXCEPT !.rest = top] \in FrameIn
    BY <1>3, <1>9 DEF FrameIn
  <2> QED BY <2>1, <2>2
<1>11. /\ f.src = t /\ f.want = Top.want
       /\ n # s.cnt => f.area = Top.area /\ f.rest = top
  BY <1>3 DEF Frame, FrameIn
<1>12. /\ bits' = (bits \union Span(dst.rep)) \ (s.rep.start .. (s.rep.start + n - 1))
       /\ pri' = PriInsert(pri, t + 1, dst) /\ repTree' = RepInsert(repTree, dst)
       /\ disk' = Copy(disk, s.rep.start, dst.rep.start, n)
       /\ ev' = Append(Under, f)
       /\ n = s.cnt => avail' = AvailInsert(a, t, Top.area.rep) /\ f = Frame(t, Top.want)
       /\ n # s.cnt => avail' = a
  BY <1>1 DEF n, dst, top
<1> HIDE DEF f
<1>13. \/ n = s.cnt /\ avail' = AvailInsert(a, t, Top.area.rep) /\ f = Frame(t, Top.want)
       \/ /\ n < s.cnt /\ avail' = a
          /\ f.area = Top.area /\ f.rest.cnt = s.cnt - n
          /\ Span(f.rest.rep) = (s.rep.start + n) .. s.rep.end
  <2>1. CASE n = s.cnt
    BY <1>12, <2>1
  <2>2. CASE n # s.cnt
    <3>1. n < s.cnt
      BY <1>5, <1>6, <2>2
    <3> QED BY <1>9, <1>11, <1>12, <2>2, <3>1
  <2> QED BY <2>1, <2>2
<1>14. Span(dst.rep) = dst.rep.start .. (dst.rep.start + n - 1) /\ dst.rep.start \in Int
       /\ Span(dst.rep) \subseteq avail[t + 1]
  BY <1>6, <1>8
<1> DEFINE R(m, d, g) ==
             /\ m <= s.cnt /\ (m = s.cnt \/ m >= 1)
             /\ d.cnt = m /\ d.rep.start \in Int
             /\ Span(d.rep) = d.rep.start .. (d.rep.start + m - 1)
             /\ Span(d.rep) \subseteq avail[t + 1]
             /\ bits' = (bits \union Span(d.rep)) \ (s.rep.start .. (s.rep.start + m - 1))
             /\ pri' = PriInsert(pri, t + 1, d)
             /\ repTree' = RepInsert(repTree, d)
             /\ disk' = Copy(disk, s.rep.start, d.rep.start, m)
             /\ ev' = Append(Under, g) /\ g.src = t /\ g.want = Top.want
             /\ LET c == AvailExtract(avail, t + 1, d.rep)
                IN  \/ /\ m = s.cnt
                       /\ avail' = AvailInsert(c, t, Top.area.rep)
                       /\ g = Frame(t, Top.want)
                    \/ /\ m < s.cnt
                       /\ avail' = c
                       /\ g.area = Top.area /\ g.rest.cnt = s.cnt - m
                       /\ Span(g.rest.rep) = (s.rep.start + m) .. s.rep.end
<1> HIDE DEF s, t
<1>15. R(n, dst, f)
  BY <1>6, <1>8, <1>11, <1>12, <1>13, <1>14
<1> HIDE DEF R, a
<1>16. \E m \in Int, d \in NodeOf(t + 1), g \in FrameIn : R(m, d, g)
  BY <1>6, <1>8, <1>10, <1>15
<1>17. /\ UNCHANGED <<call, fault, written, foreign>>
       /\ ev # <<>> /\ Top \in FrameIn /\ Top.area # NoNode
       /\ Top.src \in Tiers /\ Top.src + 1 \in Tiers
  BY <1>2, <1>3 DEF t
<1> QED BY <1>16, <1>17, Zenon DEF R, s, t

LEMMA PlaceKeeps == IInv /\ Place => IInv'
<1> SUFFICES ASSUME IInv, Place PROVE IInv'
  OBVIOUS
<1> USE DEF IInv
<1> DEFINE t == Top.src
           s == Top.rest
<1>1. /\ UNCHANGED <<call, fault, written, foreign>>
      /\ ev # <<>> /\ Top \in FrameIn /\ t \in Tiers /\ t + 1 \in Tiers
  BY PlaceDoes
<1>2. PICK n \in Int, dst \in NodeOf(t + 1), f \in FrameIn :
        /\ n <= s.cnt
        /\ Span(dst.rep) = dst.rep.start .. (dst.rep.start + n - 1) /\ dst.rep.start \in Int
        /\ bits' = (bits \union Span(dst.rep)) \ (s.rep.start .. (s.rep.start + n - 1))
        /\ pri' = PriInsert(pri, t + 1, dst)
        /\ repTree' = RepInsert(repTree, dst)
        /\ disk' = Copy(disk, s.rep.start, dst.rep.start, n)
        /\ ev' = Append(Under, f)
        /\ LET a == AvailExtract(avail, t + 1, dst.rep)
           IN  avail' = AvailInsert(a, t, Top.area.rep) \/ avail' = a
  BY PlaceDoes
<1>3. Under \in Seq(FrameIn) /\ Span(Top.area.rep) \subseteq Own(t) /\ s \in NodeIn
  BY <1>1, StackType DEF FrameIn, NodeOf
<1>4. dst \in NodeIn /\ Span(dst.rep) \subseteq Block
  BY DEF NodeOf, NodeIn
<1>5. avail' \in AvailIn
  <2> DEFINE a == AvailExtract(avail, t + 1, dst.rep)
  <2>1. a \in AvailIn
    BY <1>1, AvailType DEF SpaceIn
  <2>2. avail' = AvailInsert(a, t, Top.area.rep) \/ avail' = a
    BY <1>2
  <2> HIDE DEF a
  <2> QED BY <1>1, <1>3, <2>1, <2>2, AvailType
<1>6. pri' \in PriIn
  BY <1>1, <1>2, PriInsertType DEF SpaceIn
<1>7. repTree' \subseteq NodeIn /\ bits' \subseteq Block
  BY <1>2, <1>4 DEF SpaceIn, RepInsert
<1>8. ev' \in Seq(FrameIn)
  BY <1>2, <1>3, AppendProperties
<1>9. DataIn'
  <2> DEFINE x == dst.rep.start
             m == MIN(MaxPages, n)
  <2>1. m \in Int /\ m <= n
    <3>1. MaxPages \in Int
      BY BlockAreaAssumption
    <3> QED BY <3>1, MinInt
  <2>2. disk' = [p \in Block |-> IF p \in x .. (x + m - 1)
                                 THEN disk[s.rep.start + (p - x)] ELSE disk[p]]
    BY <1>2 DEF Copy
  <2>3. s.rep.start \in Int /\ s.rep.end \in Int /\ s.cnt = s.rep.end - s.rep.start + 1
        /\ s.rep.start .. s.rep.end \subseteq Block
    BY <1>3 DEF NodeIn, NodeType, Size, Span
  <2>4. x \in Int /\ n <= s.cnt
    BY <1>2
  <2> HIDE DEF m, s, x
  <2>5. ASSUME NEW p \in x .. (x + m - 1)
        PROVE  s.rep.start + (p - x) \in Block
    <3>1. s.rep.start + (p - x) \in s.rep.start .. s.rep.end
      BY <2>1, <2>3, <2>4
    <3> QED BY <2>3, <3>1
  <2>6. \A p \in Block : disk[p] \in Block \union {NoData}
    BY DEF DataIn
  <2>7. disk' \in [Block -> Block \union {NoData}]
    BY <2>2, <2>5, <2>6
  <2> QED BY <1>1, <2>7 DEF DataIn
<1> QED BY <1>1, <1>5, <1>6, <1>7, <1>8, <1>9 DEF SpaceIn, CallIn, call

LEMMA EvictedKeeps == IInv /\ Evicted => IInv'
<1> SUFFICES ASSUME IInv, Evicted PROVE IInv'
  OBVIOUS
<1> USE DEF IInv
<1>1. ev # <<>> /\ ev' = Under /\ pc' \in {pc, "idle"} /\ (pc = "alloc" => pc' \in {pc, "idle"})
      /\ UNCHANGED <<space, req, blk, off, fault, data, foreign>>
  BY DEF Evicted, Evicting
<1>2. ev' \in Seq(FrameIn)
  BY <1>1, StackType
<1>3. CallIn'
  BY <1>1 DEF CallIn
<1> QED BY <1>1, <1>2, <1>3 DEF space, data, SpaceIn, DataIn

(* hypraid_delete_block_area files what it gives up in group 0.            *)
LEMMA DeleteAreaKeeps == IInv /\ DeleteArea => IInv'
<1> SUFFICES ASSUME IInv, DeleteArea PROVE IInv'
  OBVIOUS
<1> USE DEF IInv
<1>1. PICK n \in At(blk) :
        /\ pri' = PriExtract(pri, n)
        /\ repTree' = repTree \ {n}
        /\ bits' = Unmark(n)
        /\ avail' = AvailInsert(avail, 0, n.rep)
        /\ disk' = [p \in Block |-> IF disk[p] \in Span(n.ori) THEN NoData ELSE disk[p]]
        /\ written' = written \ Span(n.ori)
        /\ foreign' = (foreign \/ Stray(n))
        /\ blk' = Behind(n)
  BY DEF DeleteArea
<1>2. UNCHANGED <<pc, req, off, ev, fault>> /\ pc = "delete"
  BY DEF DeleteArea, Deleting, Running
<1>3. Span(n.rep) \subseteq Own(0) /\ 0 \in Tiers
  BY <1>1, FoundType DEF NodeOf, Tiers
<1>4. avail' \in AvailIn
  BY <1>1, <1>3, AvailType DEF SpaceIn
<1>5. pri' \in PriIn
  BY <1>1, PriExtractType DEF SpaceIn
<1>6. repTree' \subseteq NodeIn /\ bits' \subseteq Block
  BY <1>1 DEF SpaceIn, Unmark
<1>7. blk' \in Nat
  BY <1>1, FoundType DEF Behind, CallIn
<1>8. DataIn'
  BY <1>1 DEF DataIn
<1>9. foreign' \in BOOLEAN
  BY <1>1
<1> QED BY <1>2, <1>4, <1>5, <1>6, <1>7, <1>8, <1>9 DEF SpaceIn, CallIn

LEMMA FailKeeps == IInv /\ (Fail \/ Halted \/ UNCHANGED vars) => IInv'
<1> SUFFICES ASSUME IInv, Fail \/ Halted \/ UNCHANGED vars PROVE IInv'
  OBVIOUS
<1>1. /\ UNCHANGED <<space, call, ev, data>>
      /\ fault' \in Causes /\ foreign' \in BOOLEAN
  BY DEF Fail, IssueUnmapped, IssueSplit, PopEmpty, PopUnlinked, PlaceNone, EraseRoot, Stop,
         Halted, vars, IInv, Causes
<1> QED BY <1>1 DEF IInv, space, call, data, SpaceIn, CallIn, DataIn

-----------------------------------------------------------------------------
LEMMA NextIInv == IInv /\ [Next]_vars => IInv'
<1> SUFFICES ASSUME IInv, [Next]_vars PROVE IInv'
  OBVIOUS
<1>1. CASE Step
  BY <1>1, TouchKeeps, MakeRoomKeeps, AllocKeeps, ReturnKeeps, IssueKeeps,
     PopKeeps, PlaceKeeps, EvictedKeeps, DeleteAreaKeeps DEF Step
<1>2. CASE ~ Step
  BY <1>2, BeginKeeps, FailKeeps DEF Next
<1> QED BY <1>1, <1>2

(* Every list of the block area manager holds well-formed areas, and every *)
(* variable is of its type, whatever the groups, the requests, the deletes *)
(* and the evictions.                                                      *)
THEOREM TypeCorrect == Spec => []TypeOK
<1>1. IInv => TypeOK
  <2> SUFFICES ASSUME IInv PROVE TypeOK
    OBVIOUS
  <2>1. NodeIn \subseteq NodeType
    BY DEF NodeIn
  <2>2. pri \in [Tiers -> Seq(NodeType)]
    <3>1. \A t \in Tiers : pri[t] \in Seq(NodeType)
      BY <2>1, SeqMonotonic DEF IInv, SpaceIn, PriIn
    <3> QED BY <3>1 DEF IInv, SpaceIn, PriIn
  <2>3. ev \in Seq([src : {0, 1}, want : Int, area : NodeType, rest : NodeType])
    <3>1. FrameIn \subseteq [src : {0, 1}, want : Int, area : NodeType, rest : NodeType]
      BY <2>1 DEF FrameIn
    <3> QED BY <3>1, SeqMonotonic DEF IInv
  <2> QED BY <2>1, <2>2, <2>3
          DEF IInv, SpaceIn, AvailIn, CallIn, DataIn, RequestIn, TypeOK
<1> QED BY InitIInv, NextIInv, <1>1, PTL DEF Spec

(* What a lower group's lists hold is the group's own, however often its   *)
(* areas are found, filed in group 0, demoted or deleted.                  *)
THEOREM LowerGroupsArePure == Spec => []TierPurity
<1>1. ASSUME IInv, NEW t \in {1, 2}
      PROVE  /\ avail[t] \subseteq TierBlocks(t)
             /\ \A n \in Listed(t) : Span(n.rep) \subseteq TierBlocks(t)
  <2>1. t \in Tiers /\ Own(t) = TierBlocks(t)
    BY DEF Tiers, Own
  <2>2. avail[t] \subseteq TierBlocks(t) /\ pri[t] \in Seq(NodeOf(t))
    BY <1>1, <2>1 DEF IInv, SpaceIn, AvailIn, PriIn
  <2>3. Listed(t) \subseteq NodeOf(t)
    BY <2>2, RangeOfSeq DEF Listed
  <2> QED BY <2>1, <2>2, <2>3 DEF NodeOf
<1>2. IInv => TierPurity
  BY <1>1 DEF TierPurity
<1> QED BY InitIInv, NextIInv, <1>2, PTL DEF Spec

-----------------------------------------------------------------------------
(* For the rest the state is three families of sets of blocks: a, the free *)
(* blocks of each group; L, the areas each group lists; and M, the blocks  *)
(* each replacement loop is moving.  What an action does to the lists      *)
(* becomes one of six changes of the families.                             *)
FreeOnce(a) ==
  \A p \in Block, t, u \in Tiers : p \in a[t] /\ p \in a[u] => t = u

ListedOnce(L) ==
  \A p \in Block, t, u \in Tiers : \A n \in L[t], m \in L[u] :
    p \in Span(n.rep) /\ p \in Span(m.rep) => t = u /\ n = m

MovingOnce(M) ==
  \A p \in Block, i, j \in Nat : p \in M[i] /\ p \in M[j] => i = j

FreeOrListed(a, L) ==
  \A p \in Block, t, u \in Tiers : \A n \in L[u] : ~ (p \in a[t] /\ p \in Span(n.rep))

FreeOrMoving(a, M) ==
  \A p \in Block, t \in Tiers, i \in Nat : ~ (p \in a[t] /\ p \in M[i])

ListedOrMoving(L, M) ==
  \A p \in Block, t \in Tiers, i \in Nat : \A n \in L[t] :
    ~ (p \in Span(n.rep) /\ p \in M[i])

Covered(a, L, M) ==
  \A p \in Block : \/ \E t \in Tiers : p \in a[t]
                   \/ \E t \in Tiers : \E n \in L[t] : p \in Span(n.rep)
                   \/ \E i \in Nat : p \in M[i]

Partition(a, L, M) ==
  /\ FreeOnce(a) /\ ListedOnce(L) /\ MovingOnce(M)
  /\ FreeOrListed(a, L) /\ FreeOrMoving(a, M) /\ ListedOrMoving(L, M)
  /\ Covered(a, L, M)

RepIn == { n \in NodeType : Span(n.rep) \subseteq Block }

Areas3 == [Tiers -> SUBSET RepIn]

-----------------------------------------------------------------------------
(* Free blocks become an area's: an allocation, or the target of a         *)
(* demotion.                                                               *)
LEMMA FreeToListed ==
  ASSUME NEW a \in [Tiers -> SUBSET Block], NEW L \in Areas3, NEW M,
         Partition(a, L, M), NEW t \in Tiers, NEW u \in Tiers, NEW n,
         Span(n.rep) \subseteq a[t]
  PROVE  Partition([a EXCEPT ![t] = @ \ Span(n.rep)], [L EXCEPT ![u] = @ \union {n}], M)
<1> DEFINE b == [a EXCEPT ![t] = @ \ Span(n.rep)]
           K == [L EXCEPT ![u] = @ \union {n}]
<1>1. \A v \in Tiers : b[v] = IF v = t THEN a[t] \ Span(n.rep) ELSE a[v]
  OBVIOUS
<1>2. \A v \in Tiers : K[v] = IF v = u THEN L[u] \union {n} ELSE L[v]
  BY DEF Areas3
<1> HIDE DEF b, K
<1>3. \A p \in Span(n.rep) : p \in Block /\ p \in a[t]
  OBVIOUS
<1>4. FreeOnce(b)
  BY <1>1 DEF Partition, FreeOnce
<1>5. ListedOnce(K)
  BY <1>2, <1>3 DEF Partition, ListedOnce, FreeOrListed
<1>6. FreeOrListed(b, K)
  BY <1>1, <1>2, <1>3 DEF Partition, FreeOrListed, FreeOnce
<1>7. FreeOrMoving(b, M)
  BY <1>1 DEF Partition, FreeOrMoving
<1>8. ListedOrMoving(K, M)
  BY <1>2, <1>3 DEF Partition, ListedOrMoving, FreeOrMoving
<1>9. Covered(b, K, M)
  BY <1>1, <1>2 DEF Partition, Covered
<1> QED BY <1>4, <1>5, <1>6, <1>7, <1>8, <1>9 DEF Partition, b, K

(* An area's blocks become free: a deletion.                               *)
LEMMA ListedToFree ==
  ASSUME NEW a \in [Tiers -> SUBSET Block], NEW L \in Areas3, NEW M,
         Partition(a, L, M), NEW t \in Tiers, NEW u \in Tiers, NEW n \in L[t],
         Span(n.rep) # {}
  PROVE  Partition([a EXCEPT ![u] = @ \union Span(n.rep)],
                   [v \in Tiers |-> L[v] \ {n}], M)
<1> DEFINE b == [a EXCEPT ![u] = @ \union Span(n.rep)]
           K == [v \in Tiers |-> L[v] \ {n}]
<1>1. \A v \in Tiers : b[v] = IF v = u THEN a[u] \union Span(n.rep) ELSE a[v]
  OBVIOUS
<1>2. \A v \in Tiers : K[v] = L[v] \ {n}
  OBVIOUS
<1> HIDE DEF b, K
<1>3. \A p \in Span(n.rep) : p \in Block
  BY DEF Areas3, RepIn
<1>4. FreeOnce(b)
  BY <1>1, <1>3 DEF Partition, FreeOnce, FreeOrListed
<1>5. ListedOnce(K)
  BY <1>2 DEF Partition, ListedOnce
<1>6. FreeOrListed(b, K)
  BY <1>1, <1>2, <1>3 DEF Partition, FreeOrListed, ListedOnce
<1>7. FreeOrMoving(b, M)
  BY <1>1 DEF Partition, FreeOrMoving, ListedOrMoving
<1>8. ListedOrMoving(K, M)
  BY <1>2 DEF Partition, ListedOrMoving
<1>9. Covered(b, K, M)
  BY <1>1, <1>2 DEF Partition, Covered
<1> QED BY <1>4, <1>5, <1>6, <1>7, <1>8, <1>9 DEF Partition, b, K

(* The least recent area, or the front of it, leaves its list to be moved; *)
(* the rest k of it, when there is one, stays.                             *)
LEMMA ListedToMoving ==
  ASSUME NEW a \in [Tiers -> SUBSET Block], NEW L \in Areas3,
         NEW M \in [Nat -> SUBSET Block], Partition(a, L, M),
         NEW t \in Tiers, NEW n \in L[t], NEW i \in Nat, M[i] = {}, Span(n.rep) # {}
  PROVE  Partition(a, [v \in Tiers |-> L[v] \ {n}], [M EXCEPT ![i] = Span(n.rep)])
<1> DEFINE K == [v \in Tiers |-> L[v] \ {n}]
           N == [M EXCEPT ![i] = Span(n.rep)]
<1>1. \A v \in Tiers : K[v] = L[v] \ {n}
  OBVIOUS
<1>2. \A j \in Nat : N[j] = IF j = i THEN Span(n.rep) ELSE M[j]
  OBVIOUS
<1> HIDE DEF K, N
<1>3. \A p \in Span(n.rep) : p \in Block
  BY DEF Areas3, RepIn
<1>4. ListedOnce(K)
  BY <1>1 DEF Partition, ListedOnce
<1>5. MovingOnce(N)
  BY <1>2, <1>3 DEF Partition, MovingOnce, ListedOrMoving
<1>6. FreeOrListed(a, K)
  BY <1>1 DEF Partition, FreeOrListed
<1>7. FreeOrMoving(a, N)
  BY <1>2, <1>3 DEF Partition, FreeOrMoving, FreeOrListed
<1>8. ListedOrMoving(K, N)
  BY <1>1, <1>2, <1>3 DEF Partition, ListedOrMoving, ListedOnce
<1>9. Covered(a, K, N)
  BY <1>1, <1>2 DEF Partition, Covered
<1> QED BY <1>4, <1>5, <1>6, <1>7, <1>8, <1>9 DEF Partition, K, N

LEMMA ListedToMovingPart ==
  ASSUME NEW a \in [Tiers -> SUBSET Block], NEW L \in Areas3,
         NEW M \in [Nat -> SUBSET Block], Partition(a, L, M),
         NEW t \in Tiers, NEW n \in L[t], NEW i \in Nat, M[i] = {},
         NEW F, NEW k, F \union Span(k.rep) = Span(n.rep),
         F \intersect Span(k.rep) = {}, Span(k.rep) # {}
  PROVE  Partition(a, [[v \in Tiers |-> L[v] \ {n}] EXCEPT ![t] = @ \union {k}],
                   [M EXCEPT ![i] = F])
<1> DEFINE K == [[v \in Tiers |-> L[v] \ {n}] EXCEPT ![t] = @ \union {k}]
           N == [M EXCEPT ![i] = F]
<1>1. \A v \in Tiers : \A m : m \in K[v] <=> (m \in L[v] /\ m # n) \/ (v = t /\ m = k)
  OBVIOUS
<1>2. \A j \in Nat : N[j] = IF j = i THEN F ELSE M[j]
  OBVIOUS
<1> HIDE DEF K, N
<1>3. \A p \in Span(n.rep) : p \in Block
  BY DEF Areas3, RepIn
<1>4. \A p : p \in Span(n.rep) <=> p \in F \/ p \in Span(k.rep)
  OBVIOUS
<1>5. \A p : ~ (p \in F /\ p \in Span(k.rep))
  OBVIOUS
<1>6. ListedOnce(K)
  BY <1>1, <1>3, <1>4 DEF Partition, ListedOnce
<1>7. MovingOnce(N)
  BY <1>2, <1>3, <1>4 DEF Partition, MovingOnce, ListedOrMoving
<1>8. FreeOrListed(a, K)
  BY <1>1, <1>4 DEF Partition, FreeOrListed
<1>9. FreeOrMoving(a, N)
  BY <1>2, <1>3, <1>4 DEF Partition, FreeOrMoving, FreeOrListed
<1>10. ListedOrMoving(K, N)
  BY <1>1, <1>2, <1>3, <1>4, <1>5 DEF Partition, ListedOrMoving, ListedOnce
<1>11. Covered(a, K, N)
  BY <1>1, <1>2, <1>4 DEF Partition, Covered
<1> QED BY <1>6, <1>7, <1>8, <1>9, <1>10, <1>11 DEF Partition, K, N

(* What was moved leaves its old blocks free.                              *)
LEMMA MovingToFree ==
  ASSUME NEW a \in [Tiers -> SUBSET Block], NEW L \in Areas3,
         NEW M \in [Nat -> SUBSET Block], Partition(a, L, M),
         NEW t \in Tiers, NEW i \in Nat
  PROVE  Partition([a EXCEPT ![t] = @ \union M[i]], L, [M EXCEPT ![i] = {}])
<1> DEFINE b == [a EXCEPT ![t] = @ \union M[i]]
           N == [M EXCEPT ![i] = {}]
<1>1. \A v \in Tiers : b[v] = IF v = t THEN a[t] \union M[i] ELSE a[v]
  OBVIOUS
<1>2. \A j \in Nat : N[j] = IF j = i THEN {} ELSE M[j]
  OBVIOUS
<1> HIDE DEF b, N
<1>3. \A p \in M[i] : p \in Block
  OBVIOUS
<1>4. FreeOnce(b)
  BY <1>1, <1>3 DEF Partition, FreeOnce, FreeOrMoving
<1>5. MovingOnce(N)
  BY <1>2 DEF Partition, MovingOnce
<1>6. FreeOrListed(b, L)
  BY <1>1, <1>3 DEF Partition, FreeOrListed, ListedOrMoving
<1>7. FreeOrMoving(b, N)
  BY <1>1, <1>2, <1>3 DEF Partition, FreeOrMoving, MovingOnce
<1>8. ListedOrMoving(L, N)
  BY <1>2 DEF Partition, ListedOrMoving
<1>9. Covered(b, L, N)
  BY <1>1, <1>2 DEF Partition, Covered
<1> QED BY <1>4, <1>5, <1>6, <1>7, <1>8, <1>9 DEF Partition, b, N

(* An area goes from one list to another.                                  *)
LEMMA Refile ==
  ASSUME NEW a \in [Tiers -> SUBSET Block], NEW L \in Areas3, NEW M,
         Partition(a, L, M), NEW t \in Tiers, NEW u \in Tiers, NEW n \in L[t],
         Span(n.rep) # {}
  PROVE  Partition(a, [[v \in Tiers |-> L[v] \ {n}] EXCEPT ![u] = @ \union {n}], M)
<1> DEFINE K == [[v \in Tiers |-> L[v] \ {n}] EXCEPT ![u] = @ \union {n}]
<1>1. \A v \in Tiers : \A m : m \in K[v] <=> (m \in L[v] /\ m # n) \/ (v = u /\ m = n)
  OBVIOUS
<1> HIDE DEF K
<1>2. \A p \in Span(n.rep) : p \in Block
  BY DEF Areas3, RepIn
<1>3. ListedOnce(K)
  BY <1>1, <1>2 DEF Partition, ListedOnce
<1>4. FreeOrListed(a, K)
  BY <1>1 DEF Partition, FreeOrListed
<1>5. ListedOrMoving(K, M)
  BY <1>1 DEF Partition, ListedOrMoving
<1>6. Covered(a, K, M)
  BY <1>1 DEF Partition, Covered
<1> QED BY <1>3, <1>4, <1>5, <1>6 DEF Partition, K

-----------------------------------------------------------------------------
(* The priority lists as the family of the areas they hold.                *)
Lists(p) == [t \in Tiers |-> Range(p[t])]

(* No area is twice on a list, and none is empty.                          *)
Lined(p) ==
  \A t \in Tiers : IsInjective(p[t]) /\ \A n \in Range(p[t]) : n.cnt >= 1

(* An area that has blocks.                                                *)
AreaIn == { n \in RepIn : n.rep.start <= n.rep.end }

(* No area is twice on a list.                                             *)
OnceEach(p) == \A t \in Tiers : IsInjective(p[t])

LEMMA NodesAreAreas == \A n \in NodeIn : n.cnt >= 1 => n \in AreaIn
  BY DEF NodeIn, NodeType, AreaIn, RepIn, Size

(* Areas that share no block do not overlap, so that the insertions of     *)
(* priority_area_insert succeed.                                           *)
LEMMA NotFiled ==
  ASSUME NEW s, Range(s) \subseteq AreaIn, NEW n \in AreaIn,
         \A m \in Range(s), p \in Block : ~ (p \in Span(m.rep) /\ p \in Span(n.rep))
  PROVE  ~ Filed(s, n)
<1> SUFFICES ASSUME NEW m \in Range(s), Overlap(m.rep, n.rep) PROVE FALSE
  BY DEF Filed
<1>1. /\ m.rep.start \in Int /\ m.rep.end \in Int /\ m.rep.start <= m.rep.end
      /\ m.rep.start .. m.rep.end \subseteq Block
  BY DEF AreaIn, RepIn, NodeType, Span
<1>2. /\ n.rep.start \in Int /\ n.rep.end \in Int /\ n.rep.start <= n.rep.end
      /\ n.rep.start .. n.rep.end \subseteq Block
  BY DEF AreaIn, RepIn, NodeType, Span
<1>3. n.rep.start <= m.rep.end /\ m.rep.start <= n.rep.end
  BY <1>1, <1>2 DEF Overlap
<1>4. CASE m.rep.start <= n.rep.start
  <2>1. n.rep.start \in Span(m.rep) /\ n.rep.start \in Span(n.rep) /\ n.rep.start \in Block
    BY <1>1, <1>2, <1>3, <1>4 DEF Span
  <2> QED BY <2>1
<1>5. CASE ~ (m.rep.start <= n.rep.start)
  <2>1. m.rep.start \in Span(m.rep) /\ m.rep.start \in Span(n.rep) /\ m.rep.start \in Block
    BY <1>1, <1>2, <1>3, <1>5 DEF Span
  <2> QED BY <2>1
<1> QED BY <1>4, <1>5

(* What the extraction and the insertions do to lists of any areas.        *)
LEMMA ListsWithout ==
  ASSUME NEW S, NEW p \in [Tiers -> Seq(S)], OnceEach(p), NEW n
  PROVE  /\ PriExtract(p, n) \in [Tiers -> Seq(S)]
         /\ Lists(PriExtract(p, n)) = [t \in Tiers |-> Lists(p)[t] \ {n}]
         /\ OnceEach(PriExtract(p, n))
<1>1. ASSUME NEW t \in Tiers
      PROVE  /\ PriExtract(p, n)[t] = Unlink(p[t], n)
             /\ Unlink(p[t], n) \in Seq(S)
             /\ Range(Unlink(p[t], n)) = Range(p[t]) \ {n}
             /\ IsInjective(Unlink(p[t], n))
  <2>1. p[t] \in Seq(S) /\ IsInjective(p[t])
    BY DEF OnceEach
  <2> QED BY <2>1, UnlinkRange, UnlinkType DEF PriExtract
<1>2. PriExtract(p, n) \in [Tiers -> Seq(S)]
  BY <1>1 DEF PriExtract
<1> QED BY <1>1, <1>2 DEF Lists, OnceEach

LEMMA ListsWith ==
  ASSUME NEW S, NEW p \in [Tiers -> Seq(S)], OnceEach(p), NEW t \in Tiers,
         Range(p[t]) \subseteq AreaIn, NEW n \in S, n \in AreaIn,
         \A m \in Lists(p)[t], b \in Block : ~ (b \in Span(m.rep) /\ b \in Span(n.rep))
  PROVE  /\ PriInsert(p, t, n) \in [Tiers -> Seq(S)]
         /\ PriInsertLow(p, t, n) \in [Tiers -> Seq(S)]
         /\ Lists(PriInsert(p, t, n)) = [Lists(p) EXCEPT ![t] = @ \union {n}]
         /\ Lists(PriInsertLow(p, t, n)) = [Lists(p) EXCEPT ![t] = @ \union {n}]
         /\ OnceEach(PriInsert(p, t, n)) /\ OnceEach(PriInsertLow(p, t, n))
<1>1. p[t] \in Seq(S) /\ IsInjective(p[t])
  BY DEF OnceEach
<1>2. ~ Filed(p[t], n)
  BY NotFiled DEF Lists
<1>3. n \notin Range(p[t])
  <2>1. n.rep.start \in Span(n.rep) /\ n.rep.start \in Block
    BY DEF AreaIn, RepIn, NodeType, Span
  <2> QED BY <2>1 DEF Lists
<1>4. /\ Range(Cons(n, p[t])) = Range(p[t]) \union {n} /\ IsInjective(Cons(n, p[t]))
      /\ Range(Append(p[t], n)) = Range(p[t]) \union {n} /\ IsInjective(Append(p[t], n))
  BY <1>1, <1>3, AddRange
<1>5. Cons(n, p[t]) \in Seq(S) /\ Append(p[t], n) \in Seq(S)
  BY <1>1, AppendProperties, ConcatProperties DEF Cons
<1>6. /\ PriInsert(p, t, n) = [p EXCEPT ![t] = Cons(n, p[t])]
      /\ PriInsertLow(p, t, n) = [p EXCEPT ![t] = Append(p[t], n)]
  BY <1>2 DEF PriInsert, PriInsertLow
<1>7. ASSUME NEW c \in Seq(S), Range(c) = Range(p[t]) \union {n}, IsInjective(c)
      PROVE  /\ [p EXCEPT ![t] = c] \in [Tiers -> Seq(S)]
             /\ Lists([p EXCEPT ![t] = c]) = [Lists(p) EXCEPT ![t] = @ \union {n}]
             /\ OnceEach([p EXCEPT ![t] = c])
  <2> DEFINE q == [p EXCEPT ![t] = c]
  <2>1. q \in [Tiers -> Seq(S)] /\ \A u \in Tiers : q[u] = IF u = t THEN c ELSE p[u]
    OBVIOUS
  <2> HIDE DEF q
  <2>2. Lists(q) = [Lists(p) EXCEPT ![t] = @ \union {n}]
    BY <1>7, <2>1 DEF Lists
  <2>3. OnceEach(q)
    BY <1>7, <2>1 DEF OnceEach
  <2> QED BY <2>1, <2>2, <2>3 DEF q
<1> QED BY <1>4, <1>5, <1>6, <1>7

(* And of areas that have as many blocks as they count.                    *)
LEMMA ExtractLists ==
  ASSUME NEW p \in PriIn, Lined(p), NEW n
  PROVE  /\ Lists(PriExtract(p, n)) = [t \in Tiers |-> Lists(p)[t] \ {n}]
         /\ Lined(PriExtract(p, n))
<1>1. p \in [Tiers -> Seq(NodeIn)] /\ OnceEach(p)
  BY DEF PriIn, Lined, OnceEach
<1>2. /\ Lists(PriExtract(p, n)) = [t \in Tiers |-> Lists(p)[t] \ {n}]
      /\ OnceEach(PriExtract(p, n))
  BY <1>1, ListsWithout
<1>3. \A t \in Tiers : Range(PriExtract(p, n)[t]) = Range(p[t]) \ {n}
  BY <1>2 DEF Lists
<1> QED BY <1>2, <1>3 DEF Lined, OnceEach

LEMMA InsertLists ==
  ASSUME NEW p \in PriIn, Lined(p), NEW t \in Tiers, NEW n \in NodeIn, n.cnt >= 1,
         \A m \in Lists(p)[t], b \in Block : ~ (b \in Span(m.rep) /\ b \in Span(n.rep))
  PROVE  /\ Lists(PriInsert(p, t, n)) = [Lists(p) EXCEPT ![t] = @ \union {n}]
         /\ Lists(PriInsertLow(p, t, n)) = [Lists(p) EXCEPT ![t] = @ \union {n}]
         /\ Lined(PriInsert(p, t, n)) /\ Lined(PriInsertLow(p, t, n))
<1>1. p \in [Tiers -> Seq(NodeIn)] /\ p[t] \in Seq(NodeIn) /\ OnceEach(p)
  BY DEF PriIn, Lined, OnceEach
<1>2. Range(p[t]) \subseteq NodeIn /\ \A m \in Range(p[t]) : m.cnt >= 1
  BY <1>1, RangeOfSeq DEF Lined
<1>3. Range(p[t]) \subseteq AreaIn /\ n \in AreaIn
  BY <1>2, NodesAreAreas
<1>4. /\ Lists(PriInsert(p, t, n)) = [Lists(p) EXCEPT ![t] = @ \union {n}]
      /\ Lists(PriInsertLow(p, t, n)) = [Lists(p) EXCEPT ![t] = @ \union {n}]
      /\ OnceEach(PriInsert(p, t, n)) /\ OnceEach(PriInsertLow(p, t, n))
  <2>1. /\ PriInsert(p, t, n) \in [Tiers -> Seq(NodeIn)]
        /\ PriInsertLow(p, t, n) \in [Tiers -> Seq(NodeIn)]
        /\ Lists(PriInsert(p, t, n)) = [Lists(p) EXCEPT ![t] = @ \union {n}]
        /\ Lists(PriInsertLow(p, t, n)) = [Lists(p) EXCEPT ![t] = @ \union {n}]
        /\ OnceEach(PriInsert(p, t, n)) /\ OnceEach(PriInsertLow(p, t, n))
    BY <1>1, <1>3, ListsWith
  <2> QED BY <2>1
<1>5. ASSUME NEW q, Lists(q) = [Lists(p) EXCEPT ![t] = @ \union {n}], OnceEach(q)
      PROVE  Lined(q)
  <2>1. \A u \in Tiers : Range(q[u]) = IF u = t THEN Range(p[t]) \union {n} ELSE Range(p[u])
    <3>1. \A u \in Tiers : Lists(q)[u] = Range(q[u]) /\ Lists(p)[u] = Range(p[u])
      BY DEF Lists
    <3> QED BY <1>5, <3>1 DEF Lists
  <2> QED BY <1>5, <2>1 DEF Lined, OnceEach
<1> QED BY <1>4, <1>5

-----------------------------------------------------------------------------
(* The stack of loops as the family of the blocks each is moving, and of   *)
(* those it has not yet copied; a loop that moves nothing has none.        *)
MovingIn(e) == [i \in Nat |-> IF i \in DOMAIN e THEN Span(e[i].area.rep) ELSE {}]

RestIn(e) == [i \in Nat |-> IF i \in DOMAIN e THEN Span(e[i].rest.rep) ELSE {}]

(* What is left to copy is a part of the area, and not empty.              *)
FrameHeld(f) ==
  /\ Span(f.rest.rep) \subseteq Span(f.area.rep)
  /\ f.area = NoNode => f.rest = NoNode
  /\ f.area # NoNode => f.rest.cnt >= 1

Held(e) == \A i \in DOMAIN e : FrameHeld(e[i])

LEMMA NoNodeSpan == Span(NoNode.rep) = {}
  BY DEF NoNode, Node, Span, Extent

LEMMA StackIndex ==
  ASSUME NEW S, ev \in Seq(S), ev # <<>>, NEW f \in S, NEW g \in S
  PROVE  /\ Len(ev) \in Nat /\ Len(ev) >= 1 /\ DOMAIN ev = 1 .. Len(ev)
         /\ Top = ev[Len(ev)]
         /\ DOMAIN Under = 1 .. (Len(ev) - 1)
         /\ \A i \in 1 .. (Len(ev) - 1) : Under[i] = ev[i]
         /\ DOMAIN Append(Under, f) = 1 .. Len(ev)
         /\ \A i \in 1 .. (Len(ev) - 1) : Append(Under, f)[i] = ev[i]
         /\ Append(Under, f)[Len(ev)] = f
         /\ DOMAIN (Under \o <<f, g>>) = 1 .. (Len(ev) + 1)
         /\ \A i \in 1 .. (Len(ev) - 1) : (Under \o <<f, g>>)[i] = ev[i]
         /\ (Under \o <<f, g>>)[Len(ev)] = f
         /\ (Under \o <<f, g>>)[Len(ev) + 1] = g
<1>1. StackFacts(ev, f, g)
  BY StackTop
<1> QED BY <1>1 DEF StackFacts, Top, Under

(* The running loop changes; another may start above it, or it ends.       *)
LEMMA LoopFamilies ==
  ASSUME NEW S, ev \in Seq(S), ev # <<>>, Held(ev),
         NEW f \in S, FrameHeld(f), NEW t, NEW k, Frame(t, k) \in S,
         NEW e, e = Append(Under, f) \/ e = Under \o <<f, Frame(t, k)>>
  PROVE  /\ Held(e)
         /\ MovingIn(e) = [MovingIn(ev) EXCEPT ![Len(ev)] = Span(f.area.rep)]
         /\ RestIn(e) = [RestIn(ev) EXCEPT ![Len(ev)] = Span(f.rest.rep)]
<1> DEFINE g == Frame(t, k)
<1>1. g \in S /\ g.area = NoNode /\ g.rest = NoNode
  BY DEF Frame
<1>2. FrameHeld(g) /\ Span(g.area.rep) = {} /\ Span(g.rest.rep) = {}
  BY <1>1, NoNodeSpan DEF FrameHeld
<1> HIDE DEF g
<1> DEFINE N == Len(ev)
<1>3. /\ N \in Nat /\ N >= 1 /\ DOMAIN ev = 1 .. N
      /\ \A i \in 1 .. (N - 1) : e[i] = ev[i]
      /\ e[N] = f
  <2>1. StackFacts(ev, f, g)
    BY <1>1, StackTop
  <2>2. CASE e = Append(Under, f)
    BY <2>1, <2>2 DEF StackFacts, Under
  <2>3. CASE e = Under \o <<f, g>>
    BY <2>1, <2>3 DEF StackFacts, Under
  <2> QED BY <2>2, <2>3 DEF g
<1>4. \/ DOMAIN e = 1 .. N
      \/ DOMAIN e = 1 .. (N + 1) /\ e[N + 1] = g
  BY <1>1, StackIndex DEF g
<1> HIDE DEF N
<1>5. ASSUME NEW i \in Nat
      PROVE  /\ i \in DOMAIN e => \/ i = N /\ e[i] = f
                                  \/ i \in DOMAIN ev /\ i # N /\ e[i] = ev[i]
                                  \/ i \notin DOMAIN ev /\ i # N /\ e[i] = g
             /\ i \notin DOMAIN e => i # N /\ i \notin DOMAIN ev
  BY <1>3, <1>4
<1>6. \A i \in DOMAIN e : i \in Nat
  BY <1>3, <1>4
<1>7. Held(e)
  BY <1>2, <1>5, <1>6 DEF Held
<1>8. MovingIn(e) = [MovingIn(ev) EXCEPT ![N] = Span(f.area.rep)]
  BY <1>2, <1>3, <1>5 DEF MovingIn
<1>9. RestIn(e) = [RestIn(ev) EXCEPT ![N] = Span(f.rest.rep)]
  BY <1>2, <1>3, <1>5 DEF RestIn
<1> QED BY <1>7, <1>8, <1>9 DEF N

LEMMA StackFamilies ==
  ASSUME ev \in Seq(FrameIn), ev # <<>>, Held(ev),
         NEW f \in FrameIn, FrameHeld(f), NEW t \in {0, 1}, NEW k \in Int,
         NEW e, e = Append(Under, f) \/ e = Under \o <<f, Frame(t, k)>>
  PROVE  /\ Held(e)
         /\ MovingIn(e) = [MovingIn(ev) EXCEPT ![Len(ev)] = Span(f.area.rep)]
         /\ RestIn(e) = [RestIn(ev) EXCEPT ![Len(ev)] = Span(f.rest.rep)]
<1>1. Frame(t, k) \in FrameIn
  BY FrameType
<1> QED BY <1>1, LoopFamilies

LEMMA EndFamilies ==
  ASSUME NEW S, ev \in Seq(S), ev # <<>>, Held(ev), Top.area = NoNode
  PROVE  /\ Held(Under) /\ MovingIn(Under) = MovingIn(ev) /\ RestIn(Under) = RestIn(ev)
<1> DEFINE N == Len(ev)
           u == Under
<1>1. /\ N \in Nat /\ N >= 1 /\ DOMAIN ev = 1 .. N /\ Top = ev[N]
      /\ DOMAIN u = 1 .. (N - 1) /\ \A i \in 1 .. (N - 1) : u[i] = ev[i]
  <2>1. ev[Len(ev)] \in S
    BY EmptySeq, ElementOfSeq, LenProperties
  <2> QED BY <2>1, StackIndex
<1> HIDE DEF N, u
<1>2. Span(ev[N].area.rep) = {} /\ Span(ev[N].rest.rep) = {}
  BY <1>1, NoNodeSpan DEF Held, FrameHeld
<1>3. \A i \in DOMAIN u : i \in DOMAIN ev /\ u[i] = ev[i]
  BY <1>1
<1>4. \A i \in DOMAIN ev : i \notin DOMAIN u => i = N
  BY <1>1
<1>5. Held(u)
  BY <1>3 DEF Held
<1>6. MovingIn(u) = MovingIn(ev) /\ RestIn(u) = RestIn(ev)
  BY <1>2, <1>3, <1>4 DEF MovingIn, RestIn
<1> QED BY <1>5, <1>6 DEF u

LEMMA NoLoops ==
  ASSUME NEW e, e = <<>> \/ \E t \in {0, 1}, k \in Int : e = <<Frame(t, k)>>
  PROVE  /\ Held(e) /\ MovingIn(e) = [i \in Nat |-> {}] /\ RestIn(e) = [i \in Nat |-> {}]
<1>1. CASE e = <<>>
  BY <1>1 DEF Held, MovingIn, RestIn
<1>2. CASE \E t \in {0, 1}, k \in Int : e = <<Frame(t, k)>>
  <2>1. DOMAIN e = {1} /\ e[1].area = NoNode /\ e[1].rest = NoNode
    BY <1>2 DEF Frame
  <2> QED BY <2>1, NoNodeSpan DEF Held, FrameHeld, MovingIn, RestIn
<1> QED BY <1>1, <1>2

-----------------------------------------------------------------------------
(* The bitmap has the blocks of the listed areas, and of a moving area     *)
(* those not yet copied.                                                   *)
Marks(b, L, R) ==
  \A p \in Block : p \in b <=> \/ \E t \in Tiers : \E n \in L[t] : p \in Span(n.rep)
                               \/ \E i \in Nat : p \in R[i]

Tidy ==
  /\ Partition(avail, Lists(pri), MovingIn(ev))
  /\ Marks(bits, Lists(pri), RestIn(ev))
  /\ Lined(pri)
  /\ repTree \subseteq AllListed
  /\ Held(ev)

SpaceInv == IInv /\ Tidy

LEMMA FamiliesType ==
  ASSUME IInv
  PROVE  /\ avail \in [Tiers -> SUBSET Block] /\ Lists(pri) \in Areas3
         /\ MovingIn(ev) \in [Nat -> SUBSET Block] /\ RestIn(ev) \in [Nat -> SUBSET Block]
         /\ Held(ev) => \A i \in Nat : RestIn(ev)[i] \subseteq MovingIn(ev)[i]
         /\ \A t \in Tiers : Lists(pri)[t] \subseteq NodeIn
<1>1. avail \in [Tiers -> SUBSET Block]
  BY DEF IInv, SpaceIn, AvailIn
<1>2. Lists(pri) \in Areas3 /\ \A t \in Tiers : Lists(pri)[t] \subseteq NodeIn
  <2>1. \A t \in Tiers : pri[t] \in Seq(NodeIn)
    BY DEF IInv, SpaceIn, PriIn
  <2>2. \A t \in Tiers : Range(pri[t]) \subseteq NodeIn
    BY <2>1, RangeOfSeq
  <2> QED BY <2>2 DEF Lists, Areas3, RepIn, NodeIn
<1>3. ASSUME NEW i \in DOMAIN ev
      PROVE  Span(ev[i].area.rep) \subseteq Block /\ Span(ev[i].rest.rep) \subseteq Block
  <2>1. ev[i] \in FrameIn
    BY ElementOfSeq, LenProperties DEF IInv
  <2> QED BY <2>1 DEF FrameIn, NodeIn
<1>4. MovingIn(ev) \in [Nat -> SUBSET Block] /\ RestIn(ev) \in [Nat -> SUBSET Block]
  BY <1>3 DEF MovingIn, RestIn
<1>5. Held(ev) => \A i \in Nat : RestIn(ev)[i] \subseteq MovingIn(ev)[i]
  BY DEF Held, FrameHeld, MovingIn, RestIn
<1> QED BY <1>1, <1>2, <1>4, <1>5

(* An area of the tree is on a list, and a listed area has blocks.         *)
LEMMA OnList ==
  ASSUME SpaceInv
  PROVE  /\ \A n : n \in AllListed <=> \E t \in Tiers : n \in Lists(pri)[t]
         /\ \A t \in Tiers, n \in NodeIn : n \in Lists(pri)[t] =>
              n.cnt >= 1 /\ Span(n.rep) # {}
<1>1. \A n : n \in AllListed <=> \E t \in Tiers : n \in Lists(pri)[t]
  BY DEF AllListed, Listed, Lists
<1>2. ASSUME NEW t \in Tiers, NEW n \in NodeIn, n \in Lists(pri)[t]
      PROVE  n.cnt >= 1 /\ Span(n.rep) # {}
  <2>1. n.cnt >= 1
    BY <1>2 DEF Lists, SpaceInv, Tidy, Lined
  <2>2. n.rep.start \in Span(n.rep)
    BY <2>1 DEF NodeIn, NodeType, Size, Span
  <2> QED BY <2>1, <2>2
<1> QED BY <1>1, <1>2

-----------------------------------------------------------------------------
LEMMA InitTidy == Init => Tidy
<1> SUFFICES ASSUME Init PROVE Tidy
  OBVIOUS
<1>1. MovingIn(ev) = [i \in Nat |-> {}] /\ RestIn(ev) = [i \in Nat |-> {}] /\ Held(ev)
  BY NoLoops DEF Init
<1>2. \A t \in Tiers : pri[t] = <<>> /\ Range(pri[t]) = {}
  BY DEF Init, Range
<1>3. Lined(pri)
  BY <1>2 DEF Lined, IsInjective
<1>4. \A t \in Tiers : Lists(pri)[t] = {}
  BY <1>2 DEF Lists
<1>5. FreeOnce(avail) /\ \A p \in Block : \E t \in Tiers : p \in avail[t]
  BY OneGroup DEF Init, FreeOnce
<1>6. Partition(avail, Lists(pri), MovingIn(ev))
  BY <1>1, <1>4, <1>5 DEF Partition, ListedOnce, MovingOnce, FreeOrListed,
     FreeOrMoving, ListedOrMoving, Covered
<1>7. Marks(bits, Lists(pri), RestIn(ev))
  BY <1>1, <1>4 DEF Marks, Init
<1> QED BY <1>1, <1>3, <1>6, <1>7 DEF Tidy, Init

(* The steps that leave the lists, the tree and the bitmap alone, and end  *)
(* or begin loops that move nothing.                                       *)
LEMMA SameFamilies ==
  ASSUME SpaceInv, UNCHANGED space,
         MovingIn(ev') = MovingIn(ev), RestIn(ev') = RestIn(ev), Held(ev')
  PROVE  Tidy'
<1>1. Lists(pri)' = Lists(pri) /\ AllListed' = AllListed
  BY DEF space, Lists, AllListed, Listed
<1> QED BY <1>1 DEF space, SpaceInv, Tidy, Lined

LEMMA NewLoopTidy ==
  ASSUME SpaceInv, MakeRoom \/ Evict
  PROVE  Tidy'
<1>1. ev = <<>> /\ UNCHANGED space
  BY DEF MakeRoom, Evict, Searching, Running
<1>2. ev' = <<>> \/ \E t \in {0, 1}, k \in Int : ev' = <<Frame(t, k)>>
  <2>1. CASE MakeRoom
    <3>1. AreaFree(0, req.end - blk + 1) \in Int
      BY SMTT(60), AreaFreeType DEF SpaceInv, IInv, CallIn, RequestIn, Tiers
    <3> QED BY <2>1, <3>1 DEF MakeRoom
  <2>2. CASE Evict
    BY <2>2, BlockAreaAssumption DEF Evict
  <2> QED BY <2>1, <2>2
<1>3. /\ MovingIn(ev) = [i \in Nat |-> {}] /\ RestIn(ev) = [i \in Nat |-> {}]
      /\ MovingIn(ev') = [i \in Nat |-> {}] /\ RestIn(ev') = [i \in Nat |-> {}] /\ Held(ev')
  BY <1>1, <1>2, NoLoops
<1> QED BY <1>1, <1>3, SameFamilies

LEMMA EvictedTidy ==
  ASSUME SpaceInv, Evicted
  PROVE  Tidy'
<1>1. ev # <<>> /\ Top.area = NoNode /\ ev' = Under /\ UNCHANGED space
  BY DEF Evicted, Evicting
<1>2. /\ Held(Under) /\ MovingIn(Under) = MovingIn(ev) /\ RestIn(Under) = RestIn(ev)
  BY <1>1, EndFamilies DEF SpaceInv, IInv, Tidy
<1> QED BY <1>1, <1>2, SameFamilies

LEMMA TouchTidy ==
  ASSUME SpaceInv, Touch
  PROVE  Tidy'
<1> DEFINE a == avail
           L == Lists(pri)
           M == MovingIn(ev)
           R == RestIn(ev)
<1>1. PICK n \in At(blk) : pri' = PriInsert(PriExtract(pri, n), 0, n)
  BY DEF Touch
<1>2. UNCHANGED <<avail, repTree, bits, ev>>
  BY DEF Touch
<1>3. n \in NodeIn /\ n.cnt >= 1 /\ n \in AllListed /\ 0 \in Tiers
  BY FoundType DEF SpaceInv, Tidy, At, Tiers
<1>4. PICK t \in Tiers : n \in L[t]
  BY <1>3, OnList
<1>5. /\ a \in [Tiers -> SUBSET Block] /\ L \in Areas3 /\ Partition(a, L, M)
      /\ pri \in PriIn /\ Lined(pri) /\ Marks(bits, L, R) /\ Span(n.rep) # {}
  BY <1>3, <1>4, FamiliesType, OnList DEF SpaceInv, Tidy, IInv, SpaceIn
<1> DEFINE q == PriExtract(pri, n)
           X == [v \in Tiers |-> L[v] \ {n}]
           K == [X EXCEPT ![0] = @ \union {n}]
<1>6. q \in PriIn /\ Lists(q) = X /\ Lined(q)
  BY <1>5, ExtractLists, PriExtractType
<1> HIDE DEF q
<1>7. \A m \in Lists(q)[0], p \in Block : ~ (p \in Span(m.rep) /\ p \in Span(n.rep))
  BY <1>3, <1>4, <1>5, <1>6 DEF Partition, ListedOnce
<1>8. Lists(pri') = [Lists(q) EXCEPT ![0] = @ \union {n}] /\ Lined(pri')
  <2>1. pri' = PriInsert(q, 0, n)
    BY <1>1 DEF q
  <2>2. /\ Lists(PriInsert(q, 0, n)) = [Lists(q) EXCEPT ![0] = @ \union {n}]
        /\ Lined(PriInsert(q, 0, n))
    <3>1. q \in PriIn /\ Lined(q)
      BY <1>6
    <3> QED BY <1>3, <1>7, <3>1, InsertLists
  <2> QED BY <2>1, <2>2
<1>9. Lists(pri') = K
  BY <1>6, <1>8
<1>10. Partition(a, K, M)
  BY <1>3, <1>4, <1>5, Refile
<1>11. \A v \in Tiers : \A m : m \in K[v] <=> (m \in L[v] /\ m # n) \/ (v = 0 /\ m = n)
  OBVIOUS
<1> HIDE DEF K, X
<1>12. \A m : (\E v \in Tiers : m \in K[v]) <=> (\E v \in Tiers : m \in L[v])
  BY <1>3, <1>4, <1>11
<1>13. Marks(bits, K, R)
  BY <1>5, <1>12 DEF Marks
<1>14. AllListed' = AllListed
  BY <1>9, <1>12, OnList DEF AllListed, Listed, Lists
<1> QED BY <1>2, <1>8, <1>9, <1>10, <1>13, <1>14 DEF SpaceInv, Tidy

(* Free blocks of a group are mapped, and the area heads the group's list: *)
(* an allocation, or the target of a demotion.                             *)
LEMMA MapFree ==
  ASSUME SpaceInv, NEW t \in Tiers, NEW n \in NodeIn, n.cnt >= 1,
         Span(n.rep) \subseteq avail[t]
  PROVE  LET K == [Lists(pri) EXCEPT ![t] = @ \union {n}]
         IN  /\ Lists(PriInsert(pri, t, n)) = K
             /\ Lined(PriInsert(pri, t, n))
             /\ K \in Areas3
             /\ Partition(AvailExtract(avail, t, n.rep), K, MovingIn(ev))
             /\ \A v \in Tiers : \A m : m \in K[v] <=> m \in Lists(pri)[v] \/ (v = t /\ m = n)
<1> DEFINE L == Lists(pri)
           K == [L EXCEPT ![t] = @ \union {n}]
<1>1. /\ avail \in [Tiers -> SUBSET Block] /\ L \in Areas3
      /\ Partition(avail, L, MovingIn(ev)) /\ pri \in PriIn /\ Lined(pri)
  BY FamiliesType DEF SpaceInv, Tidy, IInv, SpaceIn
<1>2. \A m \in L[t], b \in Block : ~ (b \in Span(m.rep) /\ b \in Span(n.rep))
  BY <1>1 DEF Partition, FreeOrListed
<1>3. Lists(PriInsert(pri, t, n)) = K /\ Lined(PriInsert(pri, t, n))
  BY <1>1, <1>2, InsertLists
<1> HIDE DEF L
<1>4. Partition([avail EXCEPT ![t] = @ \ Span(n.rep)], K, MovingIn(ev))
  BY <1>1, FreeToListed
<1>5. /\ K \in Areas3
      /\ \A v \in Tiers : \A m : m \in K[v] <=> m \in L[v] \/ (v = t /\ m = n)
  BY <1>1 DEF Areas3, RepIn, NodeIn
<1> QED BY <1>3, <1>4, <1>5 DEF L, AvailExtract

(* Every area of the tree is listed, before and after.                     *)
LEMMA TreeListed ==
  ASSUME SpaceInv, NEW K, Lists(pri)' = K, NEW n, repTree' \subseteq repTree \union {n},
         \A v \in Tiers : \A m \in Lists(pri)[v] :
           m \in repTree' => \E u \in Tiers : m \in K[u],
         n \in repTree' => \E u \in Tiers : n \in K[u]
  PROVE  (repTree \subseteq AllListed)'
<1>1. \A m : m \in AllListed' <=> \E u \in Tiers : m \in K[u]
  BY DEF AllListed, Listed, Lists
<1>2. \A m : m \in AllListed <=> \E u \in Tiers : m \in Lists(pri)[u]
  BY OnList
<1>3. repTree \subseteq AllListed
  BY DEF SpaceInv, Tidy
<1> QED BY <1>1, <1>2, <1>3

LEMMA AllocTidy ==
  ASSUME SpaceInv, Alloc
  PROVE  Tidy'
<1> DEFINE L == Lists(pri)
<1>1. PICK n \in NodeIn :
        /\ n.cnt >= 1 /\ Span(n.rep) \subseteq avail[0]
        /\ bits' = bits \union Span(n.rep)
        /\ avail' = AvailExtract(avail, 0, n.rep)
        /\ pri' = PriInsert(pri, 0, n)
        /\ repTree' = RepInsert(repTree, n)
  BY AllocDoes DEF SpaceInv
<1>2. ev' = ev /\ 0 \in Tiers
  BY DEF Alloc, Tiers
<1> DEFINE K == [L EXCEPT ![0] = @ \union {n}]
<1>3. /\ Lists(pri') = K /\ Lined(pri')
      /\ Partition(avail', K, MovingIn(ev))
      /\ \A v \in Tiers : \A m : m \in K[v] <=> m \in L[v] \/ (v = 0 /\ m = n)
  BY <1>1, <1>2, MapFree
<1> HIDE DEF K
<1>4. Marks(bits', K, RestIn(ev))
  BY <1>1, <1>2, <1>3 DEF SpaceInv, Tidy, Marks
<1>5. (repTree \subseteq AllListed)'
  <2>1. repTree' \subseteq repTree \union {n}
    BY <1>1 DEF RepInsert
  <2> QED BY <1>2, <1>3, <2>1, TreeListed
<1> QED BY <1>2, <1>3, <1>4, <1>5 DEF SpaceInv, Tidy

LEMMA DeleteAreaTidy ==
  ASSUME SpaceInv, DeleteArea
  PROVE  Tidy'
<1> DEFINE L == Lists(pri)
           R == RestIn(ev)
           M == MovingIn(ev)
<1>1. PICK n \in At(blk) : /\ pri' = PriExtract(pri, n)
                           /\ repTree' = repTree \ {n}
                           /\ bits' = Unmark(n)
                           /\ avail' = AvailInsert(avail, 0, n.rep)
  BY DEF DeleteArea
<1>2. ev' = ev /\ 0 \in Tiers
  BY DEF DeleteArea, Tiers
<1>3. n \in NodeIn /\ n \in AllListed
  BY FoundType DEF SpaceInv, Tidy, At
<1>4. PICK t \in Tiers : n \in L[t]
  BY <1>3, OnList
<1>5. /\ avail \in [Tiers -> SUBSET Block] /\ L \in Areas3 /\ Partition(avail, L, M)
      /\ pri \in PriIn /\ Lined(pri) /\ Marks(bits, L, R) /\ Span(n.rep) # {}
      /\ Span(n.rep) \subseteq Block
      /\ \A i \in Nat : R[i] \subseteq M[i]
  BY <1>3, <1>4, FamiliesType, OnList DEF SpaceInv, Tidy, IInv, SpaceIn, NodeIn
<1> DEFINE K == [v \in Tiers |-> L[v] \ {n}]
<1>6. Lists(pri') = K /\ Lined(pri')
  BY <1>1, <1>5, ExtractLists
<1>7. avail' = [avail EXCEPT ![0] = @ \union Span(n.rep)]
  <2> HIDE DEF K, L, M, R
  <2>1. Span(n.rep) \intersect avail[0] = {}
    BY <1>2, <1>4, <1>5 DEF Partition, FreeOrListed
  <2> QED BY <1>1, <2>1 DEF AvailInsert
<1>8. Partition(avail', K, M)
  <2> HIDE DEF L, M, R
  <2>1. Partition([avail EXCEPT ![0] = @ \union Span(n.rep)], K, M)
    <3>1. /\ avail \in [Tiers -> SUBSET Block] /\ L \in Areas3 /\ Partition(avail, L, M)
          /\ Span(n.rep) # {}
      BY <1>5
    <3>2. 0 \in Tiers /\ t \in Tiers /\ n \in L[t]
      BY <1>2, <1>4
    <3> QED BY <3>1, <3>2, ListedToFree, ZenonT(60)
  <2> QED BY <1>7, <2>1
<1>9. \A v \in Tiers : \A m : m \in K[v] <=> m \in L[v] /\ m # n
  OBVIOUS
<1> HIDE DEF K, L, M, R
<1>10. bits' = bits \ Span(n.rep)
  BY <1>1, <1>3 DEF Unmark, NodeIn, NodeType, Size, Span
<1>11. Marks(bits', K, R)
  <2>1. \A p \in Block, v \in Tiers : \A m \in L[v] :
          p \in Span(n.rep) /\ p \in Span(m.rep) => m = n
    BY <1>4, <1>5 DEF Partition, ListedOnce
  <2>2. \A p \in Block, i \in Nat : ~ (p \in Span(n.rep) /\ p \in R[i])
    BY <1>4, <1>5 DEF Partition, ListedOrMoving
  <2> QED BY <1>4, <1>5, <1>9, <1>10, <2>1, <2>2 DEF Marks
<1>12. (repTree \subseteq AllListed)'
  BY <1>1, <1>6, <1>9, TreeListed DEF L
<1> QED BY <1>2, <1>6, <1>8, <1>11, <1>12 DEF SpaceInv, Tidy, M, R

(* The running loop's blocks, those of what it is moving.                  *)
LEMMA TopFamilies ==
  ASSUME SpaceInv, ev # <<>>
  PROVE  /\ Len(ev) \in Nat /\ FrameHeld(Top) /\ Top \in FrameIn
         /\ MovingIn(ev)[Len(ev)] = Span(Top.area.rep)
         /\ RestIn(ev)[Len(ev)] = Span(Top.rest.rep)
<1>1. Frame(0, 0) \in FrameIn /\ ev \in Seq(FrameIn)
  BY FrameType DEF SpaceInv, IInv
<1>2. /\ Len(ev) \in Nat /\ Len(ev) >= 1 /\ DOMAIN ev = 1 .. Len(ev) /\ Top = ev[Len(ev)]
  BY <1>1, StackIndex
<1>3. Len(ev) \in DOMAIN ev
  BY <1>2
<1>4. FrameHeld(Top)
  BY <1>2, <1>3 DEF SpaceInv, Tidy, Held
<1>5. Top \in FrameIn
  BY <1>1, StackType
<1> QED BY <1>2, <1>3, <1>4, <1>5 DEF MovingIn, RestIn

LEMMA PopTidy ==
  ASSUME SpaceInv, Pop
  PROVE  Tidy'
<1> DEFINE t == Top.src
           v == Victim
           i == Len(ev)
           L == Lists(pri)
           M == MovingIn(ev)
           R == RestIn(ev)
           q == PriExtract(pri, v)
<1>1. /\ UNCHANGED <<avail, bits>> /\ ev # <<>> /\ Top.area = NoNode
      /\ t \in Tiers /\ v \in NodeIn /\ v \in L[t]
  BY PopDoes DEF SpaceInv, Lists
<1>2. PICK f \in FrameIn, k \in Int :
        /\ f.rest = f.area
        /\ \/ ev' = Append(Under, f)
           \/ ev' = Under \o <<f, Frame(1, k)>>
        /\ \/ f.area = v /\ pri' = q /\ repTree' = repTree \ {v}
           \/ \E kept \in NodeOf(t) :
                /\ f.area.cnt >= 1 /\ kept.cnt >= 1
                /\ Span(f.area.rep) \union Span(kept.rep) = Span(v.rep)
                /\ Span(f.area.rep) \intersect Span(kept.rep) = {}
                /\ pri' = PriInsertLow(q, t, kept)
                /\ repTree' = RepInsert(repTree \ {v}, kept)
  BY PopDoes DEF SpaceInv
<1>3. /\ avail \in [Tiers -> SUBSET Block] /\ L \in Areas3 /\ M \in [Nat -> SUBSET Block]
      /\ R \in [Nat -> SUBSET Block]
      /\ Partition(avail, L, M) /\ Marks(bits, L, R) /\ pri \in PriIn /\ Lined(pri)
      /\ ev \in Seq(FrameIn) /\ Held(ev)
  BY FamiliesType DEF SpaceInv, Tidy, IInv, SpaceIn
<1>4. i \in Nat /\ M[i] = {} /\ R[i] = {}
  BY <1>1, TopFamilies, NoNodeSpan DEF FrameHeld
<1>5. v.cnt >= 1 /\ Span(v.rep) # {} /\ Span(v.rep) \subseteq Block
  BY <1>1, OnList DEF NodeIn
<1>6. FrameHeld(f)
  <2>1. f.area.cnt >= 1
    BY <1>2, <1>5
  <2> QED BY <1>2, <2>1 DEF FrameHeld
<1> DEFINE F == Span(f.area.rep)
           N == [M EXCEPT ![i] = F]
           S == [R EXCEPT ![i] = F]
<1>7. Held(ev') /\ MovingIn(ev') = N /\ RestIn(ev') = S
  <2>1. 1 \in {0, 1}
    OBVIOUS
  <2> QED BY <1>1, <1>2, <1>3, <1>6, <2>1, StackFamilies
<1> DEFINE X == [u \in Tiers |-> L[u] \ {v}]
<1>8. q \in PriIn /\ Lists(q) = X /\ Lined(q)
  BY <1>3, PriExtractType, ExtractLists
<1>9. \A j \in Nat : S[j] = IF j = i THEN F ELSE R[j]
  BY <1>3
<1>10. \A u \in Tiers : \A m : m \in X[u] <=> m \in L[u] /\ m # v
  OBVIOUS
<1> HIDE DEF t, v, i, L, M, R, q, F, S
<1>11. CASE f.area = v /\ pri' = q /\ repTree' = repTree \ {v}
  <2>1. F = Span(v.rep)
    BY <1>11 DEF F
  <2>2. Partition(avail, X, N)
    BY <1>1, <1>3, <1>4, <1>5, <2>1, ListedToMoving
  <2> HIDE DEF X, N
  <2>3. Marks(bits, X, S)
    <3> SUFFICES ASSUME NEW p \in Block
                 PROVE  p \in bits <=> \/ \E u \in Tiers : \E n \in X[u] : p \in Span(n.rep)
                                       \/ \E j \in Nat : p \in S[j]
      BY DEF Marks
    <3>1. (\E u \in Tiers : \E n \in L[u] : p \in Span(n.rep)) <=>
            (\E u \in Tiers : \E n \in X[u] : p \in Span(n.rep)) \/ p \in Span(v.rep)
      BY <1>1, <1>10
    <3>2. (\E j \in Nat : p \in S[j]) <=> (\E j \in Nat : p \in R[j]) \/ p \in F
      BY <1>4, <1>9
    <3>3. p \in bits <=> \/ \E u \in Tiers : \E n \in L[u] : p \in Span(n.rep)
                         \/ \E j \in Nat : p \in R[j]
      BY <1>3 DEF Marks
    <3> QED BY <2>1, <3>1, <3>2, <3>3
  <2>4. Lists(pri') = X /\ Lined(pri')
    BY <1>8, <1>11
  <2>5. (repTree \subseteq AllListed)'
    BY <1>10, <1>11, <2>4, TreeListed DEF L
  <2> QED BY <1>1, <1>7, <2>2, <2>3, <2>4, <2>5 DEF Tidy
<1>12. ASSUME NEW w \in NodeOf(t), w.cnt >= 1,
              F \union Span(w.rep) = Span(v.rep), F \intersect Span(w.rep) = {},
              pri' = PriInsertLow(q, t, w), repTree' = RepInsert(repTree \ {v}, w)
       PROVE  Tidy'
  <2>1. w \in NodeIn
    BY DEF NodeOf
  <2>2. Span(w.rep) # {}
    <3>1. w.rep.start \in Span(w.rep)
      BY <1>12, <2>1 DEF NodeIn, NodeType, Size, Span
    <3> QED BY <3>1
  <2> DEFINE K == [X EXCEPT ![t] = @ \union {w}]
  <2>3. Partition(avail, K, N)
    BY <1>1, <1>3, <1>4, <1>12, <2>1, <2>2, ListedToMovingPart
  <2>4. \A m \in Lists(q)[t], p \in Block : ~ (p \in Span(m.rep) /\ p \in Span(w.rep))
    BY <1>1, <1>3, <1>8, <1>10, <1>12 DEF Partition, ListedOnce
  <2>5. Lists(pri') = K /\ Lined(pri')
    <3>1. /\ Lists(PriInsertLow(q, t, w)) = [Lists(q) EXCEPT ![t] = @ \union {w}]
          /\ Lined(PriInsertLow(q, t, w))
      <4>1. q \in PriIn /\ Lined(q) /\ t \in Tiers /\ w.cnt >= 1
        BY <1>1, <1>8, <1>12
      <4> QED BY <2>1, <2>4, <4>1, InsertLists
    <3> QED BY <1>8, <1>12, <3>1
  <2>6. \A u \in Tiers : \A m : m \in K[u] <=> (m \in L[u] /\ m # v) \/ (u = t /\ m = w)
    BY <1>10
  <2> HIDE DEF X, N, K
  <2>7. \A p : p \in Span(v.rep) <=> p \in F \/ p \in Span(w.rep)
    BY <1>12
  <2>8. Marks(bits, K, S)
    BY <1>1, <1>3, <1>4, <1>9, <2>6, <2>7 DEF Marks
  <2>9. (repTree \subseteq AllListed)'
    <3>1. repTree' \subseteq repTree \union {w} /\ (v \in repTree' => v = w)
      BY <1>12 DEF RepInsert
    <3> QED BY <1>1, <2>5, <2>6, <3>1, TreeListed DEF L
  <2> QED BY <1>1, <1>7, <2>3, <2>5, <2>8, <2>9 DEF Tidy
<1> QED BY <1>2, <1>11, <1>12 DEF F

LEMMA PlaceTidy ==
  ASSUME SpaceInv, Place
  PROVE  Tidy'
<1> DEFINE t == Top.src
           s == Top.rest
           i == Len(ev)
           L == Lists(pri)
           M == MovingIn(ev)
           R == RestIn(ev)
<1>1. /\ ev # <<>> /\ Top \in FrameIn /\ Top.area # NoNode /\ t \in Tiers /\ t + 1 \in Tiers
  BY PlaceDoes DEF SpaceInv
<1>2. PICK n \in Int, dst \in NodeOf(t + 1), f \in FrameIn :
        /\ n <= s.cnt /\ (n = s.cnt \/ n >= 1)
        /\ dst.cnt = n /\ Span(dst.rep) \subseteq avail[t + 1]
        /\ bits' = (bits \union Span(dst.rep)) \ (s.rep.start .. (s.rep.start + n - 1))
        /\ pri' = PriInsert(pri, t + 1, dst)
        /\ repTree' = RepInsert(repTree, dst)
        /\ ev' = Append(Under, f)
        /\ LET a == AvailExtract(avail, t + 1, dst.rep)
           IN  \/ /\ n = s.cnt
                  /\ avail' = AvailInsert(a, t, Top.area.rep)
                  /\ f = Frame(t, Top.want)
               \/ /\ n < s.cnt
                  /\ avail' = a
                  /\ f.area = Top.area /\ f.rest.cnt = s.cnt - n
                  /\ Span(f.rest.rep) = (s.rep.start + n) .. s.rep.end
  BY PlaceDoes DEF SpaceInv
<1>3. /\ avail \in [Tiers -> SUBSET Block] /\ L \in Areas3 /\ M \in [Nat -> SUBSET Block]
      /\ R \in [Nat -> SUBSET Block] /\ \A j \in Nat : R[j] \subseteq M[j]
      /\ Partition(avail, L, M) /\ Marks(bits, L, R)
      /\ ev \in Seq(FrameIn) /\ Held(ev)
  BY FamiliesType DEF SpaceInv, Tidy, IInv
<1>4. /\ i \in Nat /\ FrameHeld(Top) /\ M[i] = Span(Top.area.rep) /\ R[i] = Span(s.rep)
  BY <1>1, TopFamilies
<1>5. s.cnt >= 1 /\ Span(s.rep) \subseteq Span(Top.area.rep)
  BY <1>1, <1>4 DEF FrameHeld
<1>6. /\ s.rep.start \in Int /\ s.rep.end \in Int /\ s.cnt \in Int
      /\ s.cnt = s.rep.end - s.rep.start + 1 /\ Span(s.rep) = s.rep.start .. s.rep.end
  BY <1>1 DEF FrameIn, NodeIn, NodeType, Size, Span
<1> DEFINE K == [L EXCEPT ![t + 1] = @ \union {dst}]
           a == AvailExtract(avail, t + 1, dst.rep)
           C == s.rep.start .. (s.rep.start + n - 1)
<1>7. dst \in NodeIn /\ dst.cnt >= 1
  BY <1>2, <1>5 DEF NodeOf
<1>8. /\ Lists(pri') = K /\ Lined(pri') /\ K \in Areas3 /\ Partition(a, K, M)
      /\ \A v \in Tiers : \A m : m \in K[v] <=> m \in L[v] \/ (v = t + 1 /\ m = dst)
  BY <1>1, <1>2, <1>7, MapFree
<1>9. a \in [Tiers -> SUBSET Block]
  BY <1>3 DEF AvailExtract
<1>10. C \subseteq Span(s.rep)
  BY <1>2, <1>6
<1> HIDE DEF K, L, M, R
<1>11. FrameHeld(f) /\ Span(f.rest.rep) = Span(s.rep) \ C
  <2>1. CASE n = s.cnt
    <3>1. f = Frame(t, Top.want)
      BY <1>2, <1>6, <2>1
    <3>2. Span(s.rep) \ C = {}
      BY <1>6, <2>1
    <3> QED BY <3>1, <3>2, NoNodeSpan DEF Frame, FrameHeld
  <2>2. CASE n < s.cnt
    <3>1. /\ f.area = Top.area /\ f.rest.cnt = s.cnt - n
          /\ Span(f.rest.rep) = (s.rep.start + n) .. s.rep.end
      BY <1>2, <2>2
    <3>2. Span(f.rest.rep) = Span(s.rep) \ C
      <4>1. n >= 0 /\ n <= s.rep.end - s.rep.start + 1
        <5>1. n \in Int /\ (n = s.cnt \/ n >= 1)
          BY <1>2, Zenon
        <5> HIDE DEF s
        <5> QED BY <1>6, <2>2, <5>1
      <4>2. (s.rep.start .. s.rep.end) \ (s.rep.start .. (s.rep.start + n - 1))
              = (s.rep.start + n) .. s.rep.end
        BY <1>6, <4>1, CutInterval
      <4>3. Span(s.rep) = s.rep.start .. s.rep.end
        BY <1>6
      <4> QED BY <3>1, <4>2, <4>3, Zenon
    <3>3. f.rest.cnt >= 1
      BY <1>6, <2>2, <3>1
    <3> QED BY <1>1, <1>5, <3>1, <3>2, <3>3 DEF FrameHeld
  <2> QED BY <1>2, <1>6, <2>1, <2>2
<1> DEFINE N == [M EXCEPT ![i] = Span(f.area.rep)]
           S == [R EXCEPT ![i] = Span(f.rest.rep)]
<1>12. Held(ev') /\ MovingIn(ev') = N /\ RestIn(ev') = S
  <2>1. 0 \in {0, 1} /\ 0 \in Int
    OBVIOUS
  <2> QED BY <1>1, <1>2, <1>3, <1>11, <2>1, StackFamilies DEF M, R
<1>13. Partition(avail', K, N)
  <2> HIDE DEF a
  <2>1. CASE n = s.cnt
    <3>1. avail' = AvailInsert(a, t, Top.area.rep) /\ f = Frame(t, Top.want)
      BY <1>2, <1>6, <2>1 DEF a
    <3>2. Span(Top.area.rep) \intersect a[t] = {}
      BY <1>1, <1>3, <1>4, <1>8 DEF Partition, FreeOrMoving
    <3>3. avail' = [a EXCEPT ![t] = @ \union M[i]]
      BY <1>4, <3>1, <3>2 DEF AvailInsert
    <3>4. N = [M EXCEPT ![i] = {}]
      BY <3>1, NoNodeSpan DEF Frame
    <3> HIDE DEF N, t, i
    <3>5. Partition([a EXCEPT ![t] = @ \union M[i]], K, [M EXCEPT ![i] = {}])
      BY <1>1, <1>3, <1>4, <1>8, <1>9, MovingToFree
    <3> QED BY <3>3, <3>4, <3>5
  <2>2. CASE n < s.cnt
    <3>1. avail' = a /\ f.area = Top.area
      BY <1>2, <2>2 DEF a
    <3>2. N = M
      BY <1>3, <1>4, <3>1
    <3> QED BY <1>8, <3>1, <3>2
  <2> QED BY <1>2, <1>6, <2>1, <2>2
<1>14. Marks(bits', K, S)
  <2>1. \A j \in Nat : S[j] = IF j = i THEN R[i] \ C ELSE R[j]
    BY <1>3, <1>4, <1>11
  <2>2. bits' = (bits \union Span(dst.rep)) \ C /\ C \subseteq R[i]
    BY <1>2, <1>4, <1>10
  <2> HIDE DEF S, C, t, s, i
  <2> SUFFICES ASSUME NEW p \in Block
               PROVE  p \in bits' <=> \/ \E u \in Tiers : \E m \in K[u] : p \in Span(m.rep)
                                      \/ \E j \in Nat : p \in S[j]
    BY DEF Marks
  <2>3. (\E u \in Tiers : \E m \in K[u] : p \in Span(m.rep)) <=>
          (\E u \in Tiers : \E m \in L[u] : p \in Span(m.rep)) \/ p \in Span(dst.rep)
    BY <1>1, <1>8
  <2>4. p \in bits <=> \/ \E u \in Tiers : \E m \in L[u] : p \in Span(m.rep)
                       \/ \E j \in Nat : p \in R[j]
    BY <1>3 DEF Marks
  <2>5. CASE p \in C
    <3>1. p \in R[i] /\ p \in M[i]
      BY <1>3, <1>4, <2>2, <2>5
    <3>2. ~ \E u \in Tiers : \E m \in K[u] : p \in Span(m.rep)
      BY <1>4, <1>8, <3>1 DEF Partition, ListedOrMoving
    <3>3. ~ \E j \in Nat : p \in S[j]
      BY <1>3, <1>4, <2>1, <2>5, <3>1 DEF Partition, MovingOnce
    <3> QED BY <2>2, <2>5, <3>2, <3>3
  <2>6. CASE p \notin C
    <3>1. (\E j \in Nat : p \in S[j]) <=> (\E j \in Nat : p \in R[j])
      BY <1>4, <2>1, <2>6
    <3> QED BY <2>2, <2>3, <2>4, <2>6, <3>1
  <2> QED BY <2>5, <2>6
<1>15. (repTree \subseteq AllListed)'
  <2>1. repTree' \subseteq repTree \union {dst}
    BY <1>2 DEF RepInsert
  <2>2. dst \in K[t + 1] /\ \A v \in Tiers : \A m \in L[v] : m \in K[v]
    BY <1>1, <1>8
  <2> HIDE DEF t
  <2> QED BY <1>1, <1>8, <2>1, <2>2, TreeListed DEF L
<1> QED BY <1>8, <1>12, <1>13, <1>14, <1>15 DEF Tidy

-----------------------------------------------------------------------------
LEMMA NextSpaceInv == SpaceInv /\ [Next]_vars => SpaceInv'
<1> SUFFICES ASSUME SpaceInv, [Next]_vars PROVE Tidy'
  BY NextIInv DEF SpaceInv
<1>1. CASE Touch \/ MakeRoom \/ Alloc \/ Pop \/ Place \/ Evicted \/ DeleteArea \/ Evict
  BY <1>1, TouchTidy, NewLoopTidy, AllocTidy, PopTidy, PlaceTidy, EvictedTidy,
     DeleteAreaTidy
<1>2. ASSUME UNCHANGED <<space, ev>> PROVE Tidy'
  BY <1>2, SameFamilies DEF SpaceInv, Tidy
<1>3. CASE Submit \/ Discard \/ Delete
  BY <1>2, <1>3 DEF Submit, Discard, Delete, Start
<1>4. CASE Inserted \/ Issue \/ Issued \/ Deleted
  BY <1>2, <1>4 DEF Inserted, Issue, Issued, Deleted, Return
<1>5. CASE Fail \/ Halted \/ UNCHANGED vars
  BY <1>2, <1>5 DEF Fail, IssueUnmapped, IssueSplit, PopEmpty, PopUnlinked, PlaceNone, EraseRoot,
     Stop, Halted, vars
<1> QED BY <1>1, <1>3, <1>4, <1>5 DEF Next, Step

LEMMA SpaceInvariant == Spec => []SpaceInv
<1>1. Init => SpaceInv
  BY InitIInv, InitTidy DEF SpaceInv
<1> QED BY <1>1, NextSpaceInv, PTL DEF Spec

(* However the groups' lists are split, merged and moved between, no block *)
(* of the device is lost and none is given out twice.                      *)
THEOREM SpaceIsPartitioned == Spec => []SpacePartition
<1>1. SpaceInv => SpacePartition
  <2> SUFFICES ASSUME SpaceInv, NEW p \in Block
               PROVE  \E u \in Users(p) : Users(p) = {u}
    BY DEF SpacePartition
  <2>1. /\ Partition(avail, Lists(pri), MovingIn(ev))
        /\ \A t \in Tiers : Lists(pri)[t] = Listed(t)
        /\ \A i \in DOMAIN ev : i \in Nat /\ MovingIn(ev)[i] = Span(ev[i].area.rep)
        /\ \A i \in Nat : i \notin DOMAIN ev => MovingIn(ev)[i] = {}
    <3>1. DOMAIN ev = 1 .. Len(ev)
      BY LenProperties DEF SpaceInv, IInv
    <3> QED BY <3>1 DEF SpaceInv, Tidy, Lists, Listed, MovingIn
  <2>2. \A u : u \in Users(p) <=>
          \/ \E t \in Tiers : p \in avail[t] /\ u = <<"free", t>>
          \/ \E t \in Tiers : \E n \in Lists(pri)[t] :
               p \in Span(n.rep) /\ u = <<"area", t, n>>
          \/ \E i \in Nat : p \in MovingIn(ev)[i] /\ u = <<"move", i>>
    <3> DEFINE U == { <<"free", t>> : t \in { t \in Tiers : p \in avail[t] } }
               V(t) == { <<"area", t, n>> : n \in { n \in Listed(t) : p \in Span(n.rep) } }
               W == { <<"move", i>> : i \in { i \in DOMAIN ev : p \in Span(ev[i].area.rep) } }
    <3>1. Users(p) = U \union (UNION { V(t) : t \in Tiers }) \union W
      BY Zenon DEF Users
    <3> SUFFICES ASSUME NEW u
                 PROVE  u \in Users(p) <=>
                          \/ \E t \in Tiers : p \in avail[t] /\ u = <<"free", t>>
                          \/ \E t \in Tiers : \E n \in Lists(pri)[t] :
                               p \in Span(n.rep) /\ u = <<"area", t, n>>
                          \/ \E i \in Nat : p \in MovingIn(ev)[i] /\ u = <<"move", i>>
      OBVIOUS
    <3>2. u \in U <=> \E t \in Tiers : p \in avail[t] /\ u = <<"free", t>>
      OBVIOUS
    <3>3. ASSUME NEW t \in Tiers
          PROVE  u \in V(t) <=>
                   \E n \in Lists(pri)[t] : p \in Span(n.rep) /\ u = <<"area", t, n>>
      BY <2>1
    <3>4. u \in W <=> \E i \in Nat : p \in MovingIn(ev)[i] /\ u = <<"move", i>>
      BY <2>1
    <3> HIDE DEF U, V, W
    <3>5. u \in UNION { V(t) : t \in Tiers } <=> \E t \in Tiers : u \in V(t)
      OBVIOUS
    <3>6. u \in Users(p) <=> u \in U \/ (\E t \in Tiers : u \in V(t)) \/ u \in W
      BY <3>1, <3>5
    <3>7. (\E t \in Tiers : u \in V(t)) <=>
            \E t \in Tiers : \E n \in Lists(pri)[t] :
              p \in Span(n.rep) /\ u = <<"area", t, n>>
      BY <3>3, Zenon
    <3> QED BY <3>2, <3>4, <3>6, <3>7, Zenon
  <2>3. \E u : u \in Users(p)
    BY <2>1, <2>2 DEF Partition, Covered
  <2>4. \A u, w : u \in Users(p) /\ w \in Users(p) => u = w
    BY <2>1, <2>2 DEF Partition, FreeOnce, ListedOnce, MovingOnce, FreeOrListed,
       FreeOrMoving, ListedOrMoving
  <2> QED BY <2>3, <2>4
<1> QED BY <1>1, SpaceInvariant, PTL

(* The bitmap, set and cleared block by block, marks the blocks of the     *)
(* lists and those that a replacement loop has yet to copy, and no others. *)
THEOREM BitmapIsRight == Spec => []BitsMatchAreas
<1>1. SpaceInv => BitsMatchAreas
  <2> SUFFICES ASSUME SpaceInv PROVE BitsMatchAreas
    OBVIOUS
  <2>1. Marks(bits, Lists(pri), RestIn(ev)) /\ bits \subseteq Block
    BY DEF SpaceInv, Tidy, IInv, SpaceIn
  <2>2. \A p : (\E t \in Tiers : \E n \in Lists(pri)[t] : p \in Span(n.rep)) <=>
                 p \in UNION { Span(n.rep) : n \in AllListed }
    BY OnList
  <2>3. \A p : (\E i \in Nat : p \in RestIn(ev)[i]) <=>
                 p \in UNION { Span(f.rest.rep) : f \in Range(ev) }
    <3>1. DOMAIN ev = 1 .. Len(ev)
      BY LenProperties DEF SpaceInv, IInv
    <3>2. \A p : (\E i \in Nat : p \in RestIn(ev)[i]) <=>
                   \E i \in DOMAIN ev : p \in Span(ev[i].rest.rep)
      BY <3>1 DEF RestIn
    <3> QED BY <3>2 DEF Range
  <2>4. /\ UNION { Span(n.rep) : n \in AllListed } \subseteq Block
        /\ UNION { Span(f.rest.rep) : f \in Range(ev) } \subseteq Block
    BY <2>2, <2>3, FamiliesType DEF SpaceInv, Areas3, RepIn, NodeIn
  <2> DEFINE A == UNION { Span(n.rep) : n \in AllListed }
             B == UNION { Span(f.rest.rep) : f \in Range(ev) }
  <2> SUFFICES bits = A \union B
    BY DEF BitsMatchAreas
  <2> HIDE DEF A, B
  <2>5. \A p \in Block : p \in bits <=> p \in A \/ p \in B
    BY <2>1, <2>2, <2>3 DEF Marks, A, B
  <2>6. A \subseteq Block /\ B \subseteq Block
    BY <2>4 DEF A, B
  <2> QED BY <2>1, <2>5, <2>6
<1> QED BY <1>1, SpaceInvariant, PTL

(* A block is where the one area that has it puts it.                      *)
LEMMA NotShared == SpaceInv => NoSharedBlock
<1> DEFINE Holds(n, l) == n \in Areas /\ l \in Span(n.ori)
<1>1. ASSUME SpaceInv, NEW n, NEW l \in Block, Holds(n, l)
      PROVE  /\ n \in NodeIn /\ Where(n, l) \in Span(n.rep) /\ Where(n, l) \in Block
             /\ \/ \E t \in Tiers : n \in Lists(pri)[t]
                \/ \E i \in Nat : n = ev[i].rest /\ Span(n.rep) \subseteq MovingIn(ev)[i]
  <2>1. CASE n \in repTree
    <3>1. n \in NodeIn /\ \E t \in Tiers : n \in Lists(pri)[t]
      BY <1>1, <2>1, OnList DEF SpaceInv, Tidy, IInv, SpaceIn
    <3>2. Where(n, l) \in Span(n.rep) /\ Span(n.rep) \subseteq Block
      BY <1>1, <3>1 DEF Where, NodeIn, NodeType, Size, Span
    <3> QED BY <3>1, <3>2
  <2>2. CASE n \in { f.rest : f \in Range(ev) }
    <3>1. PICK i \in DOMAIN ev : n = ev[i].rest
      BY <2>2 DEF Range
    <3>2. i \in Nat /\ ev[i] \in FrameIn
      BY <1>1, LenProperties, ElementOfSeq DEF SpaceInv, IInv
    <3>3. n \in NodeIn /\ Span(n.rep) \subseteq MovingIn(ev)[i]
      BY <1>1, <3>1, <3>2 DEF FrameIn, SpaceInv, Tidy, Held, FrameHeld, MovingIn
    <3>4. Where(n, l) \in Span(n.rep) /\ Span(n.rep) \subseteq Block
      BY <1>1, <3>3 DEF Where, NodeIn, NodeType, Size, Span
    <3> QED BY <3>1, <3>2, <3>3, <3>4
  <2> QED BY <1>1, <2>1, <2>2 DEF Areas
<1>2. ASSUME SpaceInv, NEW l \in Block, NEW m \in Block, NEW n, NEW k,
             Holds(n, l), Holds(k, m), Where(n, l) = Where(k, m)
      PROVE  l = m
  <2>1. /\ n \in NodeIn /\ k \in NodeIn /\ Where(n, l) \in Block
        /\ Where(n, l) \in Span(n.rep) /\ Where(n, l) \in Span(k.rep)
    BY <1>1, <1>2
  <2>2. /\ \/ \E t \in Tiers : n \in Lists(pri)[t]
           \/ \E i \in Nat : n = ev[i].rest /\ Span(n.rep) \subseteq MovingIn(ev)[i]
        /\ \/ \E t \in Tiers : k \in Lists(pri)[t]
           \/ \E i \in Nat : k = ev[i].rest /\ Span(k.rep) \subseteq MovingIn(ev)[i]
    BY <1>1, <1>2
  <2>3. Partition(avail, Lists(pri), MovingIn(ev))
    BY <1>2 DEF SpaceInv, Tidy
  <2>4. n = k
    BY <2>1, <2>2, <2>3 DEF Partition, ListedOnce, MovingOnce, ListedOrMoving
  <2> QED BY <1>2, <2>1, <2>4, Geometry DEF Where, NodeIn, NodeType
<1>3. SpaceInv => NoSharedBlock
  <2> SUFFICES ASSUME SpaceInv, NEW l \in Block, NEW m \in Block,
                      Loc[l] # -1, Loc[l] = Loc[m]
               PROVE  l = m
    BY DEF NoSharedBlock, Storage!Injective, Storage!Mapped, Storage!NoBlock
  <2>1. ASSUME NEW b \in Block, Loc[b] # -1
        PROVE  \E n : Holds(n, b) /\ Loc[b] = Where(n, b)
    <3> DEFINE n == CHOOSE n \in Holders(b) : TRUE
    <3>1. Holders(b) # {} /\ Loc[b] = Where(n, b)
      BY <2>1 DEF Loc
    <3>2. n \in Holders(b)
      BY <3>1
    <3> QED BY <3>1, <3>2 DEF Holders
  <2>2. PICK n : Holds(n, l) /\ Loc[l] = Where(n, l)
    BY <2>1
  <2>3. PICK k : Holds(k, m) /\ Loc[m] = Where(k, m)
    BY <2>1
  <2> QED BY <1>2, <2>2, <2>3
<1> QED BY <1>3

(* No physical block serves two logical ones: an area that is being moved  *)
(* is found under its old blocks until they are copied, and its new blocks *)
(* are nobody else's.                                                      *)
THEOREM BlocksAreNotShared == Spec => []NoSharedBlock
  BY NotShared, SpaceInvariant, PTL

-----------------------------------------------------------------------------
(* There are enough free blocks for what MakeRoom was called for, counting *)
(* those the loop under way has still to win: the blocks it holds become   *)
(* free when it has placed them.                                           *)
Stacked(e) == \A i \in DOMAIN e : e[i].src = i - 1

Wins(e) == IF e = <<>> THEN 0 ELSE e[1].want + Cardinality(Span(e[1].area.rep))

Room == pc = "alloc" => Cardinality(avail[0]) + Wins(ev) >= req.end - blk + 1

(* Until an area of another group is found or deleted, group 0 is pure too. *)
Pure0(a, L, M) ==
  /\ a \subseteq TierBlocks(0)
  /\ \A n \in L : Span(n.rep) \subseteq TierBlocks(0)
  /\ M \subseteq TierBlocks(0)

AtHome == ~ foreign => Pure0(avail[0], Range(pri[0]), MovingIn(ev)[1])

RoomInv == SpaceInv /\ Stacked(ev) /\ Room /\ AtHome

(* Sets of blocks have sizes.                                              *)
LEMMA BlockSets ==
  /\ \A S : S \subseteq Block => IsFiniteSet(S) /\ Cardinality(S) \in Nat
  /\ \A S, T : S \subseteq T /\ T \subseteq Block => Cardinality(S) <= Cardinality(T)
  /\ \A S, T : S \subseteq Block /\ T \subseteq Block /\ S \intersect T = {} =>
       Cardinality(S \union T) = Cardinality(S) + Cardinality(T)
<1>1. IsFiniteSet(Block)
  BY Sizes
<1>2. ASSUME NEW S, S \subseteq Block PROVE IsFiniteSet(S) /\ Cardinality(S) \in Nat
  BY <1>1, <1>2, FS_Subset, FS_CardinalityType
<1>3. ASSUME NEW S, NEW T, S \subseteq T, T \subseteq Block
      PROVE  Cardinality(S) <= Cardinality(T)
  BY <1>2, <1>3, FS_Subset
<1>4. ASSUME NEW S, NEW T, S \subseteq Block, T \subseteq Block, S \intersect T = {}
      PROVE  Cardinality(S \union T) = Cardinality(S) + Cardinality(T)
  <2>1. IsFiniteSet(S) /\ IsFiniteSet(T) /\ Cardinality(S) \in Nat /\ Cardinality(T) \in Nat
    BY <1>2, <1>4
  <2>2. Cardinality(S \union T)
          = Cardinality(S) + Cardinality(T) - Cardinality(S \intersect T)
    BY <2>1, FS_Union
  <2>3. Cardinality(S \intersect T) = 0
    BY <1>4, FS_EmptySet
  <2> QED BY <2>1, <2>2, <2>3
<1> QED BY <1>2, <1>3, <1>4

(* An area has as many blocks as it says.                                  *)
LEMMA NodeBlocks ==
  ASSUME NEW n \in NodeIn, n.cnt >= 0
  PROVE  Cardinality(Span(n.rep)) = n.cnt
<1>1. n.rep.start \in Int /\ n.rep.end \in Int /\ n.cnt = n.rep.end - n.rep.start + 1
  BY DEF NodeIn, NodeType, Size
<1>2. Cardinality(n.rep.start .. n.rep.end)
        = IF n.rep.start > n.rep.end THEN 0 ELSE n.rep.end - n.rep.start + 1
  BY <1>1, FS_Interval
<1> QED BY <1>1, <1>2 DEF Span

-----------------------------------------------------------------------------
(* With no area on its way to the next tier, the counter of a group        *)
(* against its free blocks.                                                *)
LEMMA QuietCounts ==
  ASSUME SpaceInv, AtHome, \A i \in Nat : MovingIn(ev)[i] = {}
  PROVE  /\ Cardinality(avail[0]) >= AreaFree(0, 0)
         /\ \A t \in {1, 2} : Cardinality(avail[t]) <= AreaFree(t, 0)
         /\ ~ foreign => \A t \in Tiers : Cardinality(avail[t]) = AreaFree(t, 0)
<1> DEFINE Clear(t) == TierBlocks(t) \ bits
<1>1. ASSUME NEW t \in Tiers
      PROVE  /\ AreaFree(t, 0) = Cardinality(Clear(t)) /\ Clear(t) \subseteq Block
             /\ avail[t] \subseteq Block
  <2>1. /\ TierBlocks(t) \subseteq Block /\ AreaBlocks[t] \in Nat
        /\ IsFiniteSet(TierBlocks(t)) /\ Cardinality(TierBlocks(t)) = AreaBlocks[t]
    BY Sizes, Geometry
  <2>2. Cardinality(Clear(t)) = AreaBlocks[t] - Cardinality(TierBlocks(t) \intersect bits)
    BY <2>1, FS_Difference
  <2>3. TierBlocks(t) \intersect bits = bits \intersect TierBlocks(t)
    OBVIOUS
  <2>4. Cardinality(bits \intersect TierBlocks(t)) \in Nat
    BY <2>1, BlockSets
  <2>5. avail[t] \subseteq Block
    BY FamiliesType DEF SpaceInv
  <2>6. AreaFree(t, 0) = Cardinality(Clear(t))
    <3>1. Cardinality(TierBlocks(t) \intersect bits) = Cardinality(bits \intersect TierBlocks(t))
      BY <2>3, Zenon
    <3> HIDE DEF Clear
    <3> QED BY <2>1, <2>2, <2>4, <3>1 DEF AreaFree
  <2> QED BY <2>1, <2>5, <2>6
<1>2. /\ \A p \in Block, t \in Tiers : p \in avail[t] => p \notin bits
      /\ \A p \in Block : p \notin bits => \E t \in Tiers : p \in avail[t]
  <2>1. /\ Partition(avail, Lists(pri), MovingIn(ev)) /\ Marks(bits, Lists(pri), RestIn(ev))
        /\ \A i \in Nat : MovingIn(ev)[i] = {} /\ RestIn(ev)[i] = {}
    BY FamiliesType DEF SpaceInv, Tidy
  <2> QED BY <2>1 DEF Partition, FreeOrListed, Covered, Marks
<1>3. /\ \A t \in {1, 2} : avail[t] \subseteq TierBlocks(t)
      /\ ~ foreign => avail[0] \subseteq TierBlocks(0)
  BY DEF SpaceInv, IInv, SpaceIn, AvailIn, Own, Tiers, AtHome, Pure0
<1>4. Clear(0) \subseteq avail[0]
  <2> SUFFICES ASSUME NEW p \in TierBlocks(0), p \notin bits PROVE p \in avail[0]
    OBVIOUS
  <2>1. 0 \in Tiers /\ p \in Block
    BY Geometry DEF Tiers
  <2>2. PICK t \in Tiers : p \in avail[t]
    BY <1>2, <2>1
  <2>3. t \notin {1, 2}
    BY <1>3, <2>1, <2>2, OneGroup
  <2> QED BY <2>2, <2>3 DEF Tiers
<1>5. \A t \in {1, 2} : avail[t] \subseteq Clear(t)
  BY <1>1, <1>2, <1>3 DEF Tiers
<1>6. ~ foreign => \A t \in Tiers : avail[t] = Clear(t)
  <2> SUFFICES ASSUME ~ foreign, NEW t \in Tiers PROVE avail[t] = Clear(t)
    OBVIOUS
  <2>1. \A u \in Tiers : avail[u] \subseteq TierBlocks(u)
    BY <1>3 DEF Tiers
  <2>2. \A p \in avail[t] : p \in Clear(t)
    BY <1>1, <1>2, <2>1
  <2>3. ASSUME NEW p \in Clear(t) PROVE p \in avail[t]
    <3>1. p \in Block /\ p \in TierBlocks(t) /\ p \notin bits
      BY <1>1
    <3>2. PICK u \in Tiers : p \in avail[u]
      BY <1>2, <3>1
    <3> QED BY <2>1, <3>1, <3>2, OneGroup
  <2> QED BY <2>2, <2>3
<1> HIDE DEF Clear
<1>7. Cardinality(avail[0]) >= AreaFree(0, 0)
  BY <1>1, <1>4, BlockSets DEF Tiers
<1>8. \A t \in {1, 2} : Cardinality(avail[t]) <= AreaFree(t, 0)
  BY <1>1, <1>5, BlockSets DEF Tiers
<1> QED BY <1>1, <1>6, <1>7, <1>8

LEMMA Counts ==
  ASSUME SpaceInv, AtHome, ev = <<>>
  PROVE  Accounting
<1>1. \A i \in Nat : MovingIn(ev)[i] = {}
  BY NoLoops
<1> QED BY <1>1, QuietCounts DEF Accounting

-----------------------------------------------------------------------------
(* The first of the running loops is the one of group 0.                   *)
LEMMA FirstLoop ==
  ASSUME NEW e \in Seq(FrameIn)
  PROVE  MovingIn(e)[1] = IF e = <<>> THEN {} ELSE Span(e[1].area.rep)
<1>1. DOMAIN e = 1 .. Len(e) /\ Len(e) \in Nat /\ (Len(e) = 0 <=> e = <<>>)
  BY LenProperties, EmptySeq
<1> QED BY <1>1 DEF MovingIn

LEMMA StackedTop ==
  ASSUME ev \in Seq(FrameIn), ev # <<>>, Stacked(ev),
         NEW f \in FrameIn, f.src = Top.src, NEW k \in Int, NEW e,
         \/ e = Append(Under, f)
         \/ Top.src = 0 /\ e = Under \o <<f, Frame(1, k)>>
  PROVE  /\ Stacked(e) /\ e # <<>>
         /\ Top.src = 0 => ev[1] = Top /\ e[1] = f
         /\ Top.src # 0 => e[1] = ev[1]
<1> DEFINE g == Frame(1, k)
           N == Len(ev)
<1>1. g \in FrameIn /\ g.src = 1
  BY FrameType DEF Frame
<1> HIDE DEF g
<1>2. /\ N \in Nat /\ N >= 1 /\ DOMAIN ev = 1 .. N /\ Top = ev[N]
      /\ \A i \in 1 .. (N - 1) : e[i] = ev[i]
      /\ e[N] = f
  <2>1. CASE e = Append(Under, f)
    BY <1>1, <2>1, StackIndex
  <2>2. CASE e = Under \o <<f, g>>
    BY <1>1, <2>2, StackIndex
  <2> QED BY <2>1, <2>2 DEF g
<1>3. \/ DOMAIN e = 1 .. N
      \/ Top.src = 0 /\ DOMAIN e = 1 .. (N + 1) /\ e[N + 1] = g
  BY <1>1, StackIndex DEF g
<1>4. Top.src = N - 1
  BY <1>2 DEF Stacked
<1> HIDE DEF N
<1>5. \A i \in DOMAIN e : \/ i \in 1 .. (N - 1)
                          \/ i = N
                          \/ i = N + 1 /\ Top.src = 0 /\ e[i] = g
  <2>1. N \in Nat /\ N >= 1
    BY <1>2
  <2>2. \A i \in 1 .. (N + 1) : i \in 1 .. (N - 1) \/ i = N \/ i = N + 1
    BY <2>1
  <2>3. \A i \in 1 .. N : i \in 1 .. (N - 1) \/ i = N
    BY <2>1
  <2> QED BY <1>3, <2>2, <2>3, Zenon
<1>6. Stacked(e)
  BY <1>1, <1>2, <1>4, <1>5 DEF Stacked
<1>7. e # <<>>
  BY <1>2, <1>3
<1> QED BY <1>2, <1>4, <1>6, <1>7

(* What a change of the priority lists puts on them.                       *)
LEMMA OnlyFiled ==
  ASSUME NEW p \in PriIn, NEW t \in Tiers, NEW n \in NodeIn, NEW u \in Tiers
  PROVE  /\ \A m \in Range(PriInsert(p, t, n)[u]) : m \in Range(p[u]) \/ m = n
         /\ \A m \in Range(PriInsertLow(p, t, n)[u]) : m \in Range(p[u]) \/ m = n
         /\ u # t => PriInsert(p, t, n)[u] = p[u] /\ PriInsertLow(p, t, n)[u] = p[u]
<1>1. p \in [Tiers -> Seq(NodeIn)] /\ p[t] \in Seq(NodeIn)
  BY DEF PriIn
<1>2. /\ Range(Cons(n, p[t])) = Range(p[t]) \union {n}
      /\ Range(Append(p[t], n)) = Range(p[t]) \union {n}
  BY <1>1, AddRange
<1> QED BY <1>1, <1>2 DEF PriInsert, PriInsertLow

LEMMA OnlyExtracted ==
  ASSUME NEW p \in PriIn, Lined(p), NEW n, NEW u \in Tiers
  PROVE  Range(PriExtract(p, n)[u]) \subseteq Range(p[u])
<1>1. /\ Lists(PriExtract(p, n)) = [t \in Tiers |-> Lists(p)[t] \ {n}]
      /\ Lists(PriExtract(p, n))[u] = Range(PriExtract(p, n)[u])
      /\ Lists(p)[u] = Range(p[u])
  BY ExtractLists DEF Lists
<1> QED BY <1>1

-----------------------------------------------------------------------------
LEMMA InitRoom == Init => RoomInv
<1> SUFFICES ASSUME Init PROVE RoomInv
  OBVIOUS
<1>1. SpaceInv
  BY InitIInv, InitTidy DEF SpaceInv
<1>2. ev = <<>> /\ pc = "idle" /\ avail[0] = TierBlocks(0) /\ pri[0] = <<>>
  BY DEF Init, Tiers
<1>3. MovingIn(ev)[1] = {} /\ Range(pri[0]) = {}
  BY <1>2, NoLoops DEF Range
<1> QED BY <1>1, <1>2, <1>3 DEF RoomInv, Stacked, Room, AtHome, Pure0

(* The steps that leave the lists and the loops alone.                     *)
LEMMA SameRoom ==
  ASSUME RoomInv, UNCHANGED <<avail, pri, ev>>,
         foreign' = foreign \/ foreign' = TRUE,
         pc' # "alloc" \/ UNCHANGED <<pc, req, blk>>
  PROVE  (Stacked(ev) /\ Room /\ AtHome)'
<1>1. Stacked(ev)' /\ Wins(ev)' = Wins(ev) /\ MovingIn(ev)' = MovingIn(ev)
  BY DEF RoomInv, Stacked, Wins, MovingIn
<1>2. Room'
  BY <1>1 DEF RoomInv, Room
<1>3. AtHome'
  BY <1>1 DEF RoomInv, AtHome
<1> QED BY <1>1, <1>2, <1>3

LEMMA NewLoopRoom ==
  ASSUME RoomInv, MakeRoom \/ Evict
  PROVE  (Stacked(ev) /\ Room /\ AtHome)'
<1>1. ev = <<>> /\ UNCHANGED <<space, foreign, req, blk>>
  BY DEF MakeRoom, Evict, Searching, Running
<1>2. ev' = <<>> \/ \E k \in Int : ev' = <<Frame(0, k)>>
  <2>1. CASE MakeRoom
    <3>1. AreaFree(0, req.end - blk + 1) \in Int
      BY AreaFreeType DEF RoomInv, SpaceInv, IInv, CallIn, RequestIn, Tiers
    <3> QED BY <2>1, <3>1 DEF MakeRoom
  <2>2. CASE Evict
    BY <2>2, BlockAreaAssumption DEF Evict
  <2> QED BY <2>1, <2>2
<1>3. Stacked(ev')
  BY <1>2 DEF Stacked, Frame
<1>4. MovingIn(ev)[1] = {} /\ MovingIn(ev')[1] = {}
  BY <1>1, <1>2, NoLoops
<1>5. AtHome'
  BY <1>1, <1>4 DEF RoomInv, AtHome, space
<1>6. CASE Evict
  <2>1. Room'
    BY <1>6 DEF Evict, Room
  <2> QED BY <1>3, <1>5, <2>1
<1>7. CASE MakeRoom
  <2> DEFINE need == req.end - blk + 1
             left == AreaFree(0, need)
  <2>1. need \in Int /\ 0 \in Tiers
    BY DEF RoomInv, SpaceInv, IInv, CallIn, RequestIn, Tiers
  <2>2. left = AreaFree(0, 0) - need /\ left \in Int
    <3>1. AreaFree(0, 0) \in Int /\ left \in Int
      BY <2>1, AreaFreeType
    <3>2. Cardinality(bits \intersect TierBlocks(0)) \in Nat /\ AreaBlocks[0] \in Int
      BY <2>1, Geometry, BlockSets
    <3> HIDE DEF need
    <3> QED BY <2>1, <3>1, <3>2 DEF AreaFree
  <2>3. Cardinality(avail[0]) >= AreaFree(0, 0) /\ Cardinality(avail[0]) \in Nat
    <3>1. avail[0] \subseteq Block
      BY <2>1, FamiliesType DEF RoomInv, SpaceInv
    <3> QED BY <1>1, <3>1, Counts, BlockSets DEF RoomInv, Accounting
  <2>4. AreaFree(0, 0) \in Int
    BY <2>1, AreaFreeType
  <2>5. ev' = IF left < 0 THEN <<Frame(0, -left)>> ELSE <<>>
    BY <1>7 DEF MakeRoom
  <2>6. Wins(ev') = IF left < 0 THEN -left ELSE 0
    <3> HIDE DEF left
    <3>1. Frame(0, -left).area = NoNode /\ Frame(0, -left).want = -left
      BY DEF Frame
    <3>2. Cardinality(Span(NoNode.rep)) = 0
      BY NoNodeSpan, FS_EmptySet
    <3> QED BY <2>2, <2>5, <3>1, <3>2 DEF Wins
  <2>7. avail' = avail /\ need' = need
    BY <1>1 DEF space
  <2> HIDE DEF need, left
  <2>8. Cardinality(avail[0]) + Wins(ev') >= need
    BY <2>1, <2>2, <2>3, <2>4, <2>6
  <2>9. Room'
    BY <2>7, <2>8 DEF Room, need
  <2> QED BY <1>3, <1>5, <2>9
<1> QED BY <1>6, <1>7

LEMMA EvictedRoom ==
  ASSUME RoomInv, Evicted
  PROVE  (Stacked(ev) /\ Room /\ AtHome)'
<1>1. /\ ev # <<>> /\ Top.area = NoNode /\ Top.want <= 0 /\ ev' = Under
      /\ UNCHANGED <<avail, pri, foreign, req, blk>>
      /\ pc' = "alloc" => pc = "alloc"
  BY DEF Evicted, Evicting, space
<1>2. ev \in Seq(FrameIn) /\ Under \in Seq(FrameIn) /\ Held(ev)
  BY <1>1, StackType DEF RoomInv, SpaceInv, IInv, Tidy
<1>3. /\ Len(ev) \in Nat /\ Len(ev) >= 1 /\ DOMAIN ev = 1 .. Len(ev) /\ Top = ev[Len(ev)]
      /\ DOMAIN Under = 1 .. (Len(ev) - 1)
      /\ \A i \in 1 .. (Len(ev) - 1) : Under[i] = ev[i]
  <2>1. Frame(0, 0) \in FrameIn
    BY FrameType
  <2> QED BY <1>1, <1>2, <2>1, StackIndex
<1>4. Stacked(Under)
  BY <1>3 DEF RoomInv, Stacked
<1>5. MovingIn(Under) = MovingIn(ev)
  BY <1>1, <1>2, EndFamilies
<1>6. AtHome'
  BY <1>1, <1>5 DEF RoomInv, AtHome
<1>7. Wins(Under) >= Wins(ev) /\ Wins(Under) \in Int /\ Wins(ev) \in Int
  <2>1. ASSUME NEW i \in DOMAIN ev
        PROVE  ev[i].want \in Int /\ Cardinality(Span(ev[i].area.rep)) \in Nat
    <3>1. ev[i] \in FrameIn
      BY <1>2, <1>3, ElementOfSeq
    <3> QED BY <3>1, BlockSets DEF FrameIn, NodeIn
  <2>2. CASE Under = <<>>
    <3>1. Top = ev[1] /\ 1 \in DOMAIN ev
      <4>1. DOMAIN Under = 1 .. 0
        BY <1>2, <2>2, EmptySeq, LenProperties
      <4>2. 1 \notin 1 .. 0
        OBVIOUS
      <4>3. 1 \notin 1 .. (Len(ev) - 1)
        BY <1>3, <4>1, <4>2, Zenon
      <4> QED BY <1>3, <4>3
    <3>2. Cardinality(Span(NoNode.rep)) = 0
      BY NoNodeSpan, FS_EmptySet
    <3> QED BY <1>1, <2>1, <2>2, <3>1, <3>2 DEF Wins
  <2>3. CASE Under # <<>>
    <3>1. 1 \in DOMAIN ev /\ Under[1] = ev[1]
      <4>1. Len(ev) - 1 >= 1
        BY <1>2, <1>3, <2>3, EmptySeq, LenProperties
      <4> QED BY <1>3, <4>1
    <3> QED BY <1>1, <2>1, <2>3, <3>1 DEF Wins
  <2> QED BY <2>2, <2>3
<1>8. Room'
  <2>1. avail[0] \subseteq Block /\ Cardinality(avail[0]) \in Nat
    BY FamiliesType, BlockSets DEF RoomInv, SpaceInv, Tiers
  <2>2. req.end - blk + 1 \in Int
    BY DEF RoomInv, SpaceInv, IInv, CallIn, RequestIn
  <2>3. pc = "alloc" => Cardinality(avail[0]) + Wins(Under) >= req.end - blk + 1
    BY <1>7, <2>1, <2>2 DEF RoomInv, Room
  <2> QED BY <1>1, <2>3 DEF Room
<1> QED BY <1>1, <1>4, <1>6, <1>8

(* A found area of group 0, or no claim is made any more.                  *)
LEMMA FoundAtHome ==
  ASSUME RoomInv, NEW n \in At(blk), ~ foreign, ~ Stray(n)
  PROVE  Span(n.rep) \subseteq TierBlocks(0)
<1>1. n \in Range(pri[0])
  BY DEF Stray, Home
<1> QED BY <1>1 DEF RoomInv, AtHome, Pure0

LEMMA TouchRoom ==
  ASSUME RoomInv, Touch
  PROVE  (Stacked(ev) /\ Room /\ AtHome)'
<1>1. PICK n \in At(blk) : /\ pri' = PriInsert(PriExtract(pri, n), 0, n)
                           /\ foreign' = (foreign \/ Stray(n))
  BY DEF Touch
<1>2. ev' = ev /\ avail' = avail /\ pc' # "alloc"
  BY DEF Touch, Searching, Running
<1>3. n \in NodeIn /\ 0 \in Tiers /\ pri \in PriIn /\ Lined(pri)
  BY FoundType DEF RoomInv, SpaceInv, IInv, SpaceIn, Tidy, Tiers
<1>4. Stacked(ev)' /\ MovingIn(ev)' = MovingIn(ev) /\ Room'
  BY <1>2 DEF RoomInv, Stacked, MovingIn, Room
<1>5. AtHome'
  <2> SUFFICES ASSUME ~ foreign' PROVE Pure0(avail[0], Range(pri[0]), MovingIn(ev)[1])'
    BY DEF AtHome
  <2>1. ~ foreign /\ ~ Stray(n)
    BY <1>1 DEF RoomInv, SpaceInv, IInv
  <2>2. Span(n.rep) \subseteq TierBlocks(0)
    BY <2>1, FoundAtHome
  <2>3. PriExtract(pri, n) \in PriIn
    BY <1>3, PriExtractType
  <2>4. \A m \in Range(pri'[0]) : m \in Range(pri[0]) \/ m = n
    BY <1>1, <1>3, <2>3, OnlyFiled, OnlyExtracted
  <2> QED BY <1>2, <1>4, <2>1, <2>2, <2>4 DEF RoomInv, AtHome, Pure0
<1> QED BY <1>4, <1>5

LEMMA AllocRoom ==
  ASSUME RoomInv, Alloc
  PROVE  (Stacked(ev) /\ Room /\ AtHome)'
<1>1. PICK n \in NodeIn : /\ Span(n.rep) \subseteq avail[0]
                          /\ avail' = AvailExtract(avail, 0, n.rep)
                          /\ pri' = PriInsert(pri, 0, n)
  BY AllocDoes DEF RoomInv, SpaceInv
<1>2. ev' = ev /\ foreign' = foreign /\ pc' # "alloc"
  BY AllocDoes DEF RoomInv, SpaceInv
<1>3. 0 \in Tiers /\ pri \in PriIn /\ avail \in [Tiers -> SUBSET Block]
  BY FamiliesType DEF RoomInv, SpaceInv, IInv, SpaceIn, Tiers
<1>4. Stacked(ev)' /\ MovingIn(ev)' = MovingIn(ev) /\ Room'
  BY <1>2 DEF RoomInv, Stacked, MovingIn, Room
<1>5. avail'[0] \subseteq avail[0]
  BY <1>1, <1>3 DEF AvailExtract
<1>6. \A m \in Range(pri'[0]) : m \in Range(pri[0]) \/ m = n
  BY <1>1, <1>3, OnlyFiled
<1>7. AtHome'
  BY <1>1, <1>2, <1>4, <1>5, <1>6 DEF RoomInv, AtHome, Pure0
<1> QED BY <1>4, <1>7

LEMMA DeleteAreaRoom ==
  ASSUME RoomInv, DeleteArea
  PROVE  (Stacked(ev) /\ Room /\ AtHome)'
<1>1. PICK n \in At(blk) : /\ pri' = PriExtract(pri, n)
                           /\ avail' = AvailInsert(avail, 0, n.rep)
                           /\ foreign' = (foreign \/ Stray(n))
  BY DEF DeleteArea
<1>2. ev' = ev /\ pc' # "alloc"
  BY DEF DeleteArea, Deleting, Running
<1>3. 0 \in Tiers /\ pri \in PriIn /\ Lined(pri) /\ avail \in [Tiers -> SUBSET Block]
  BY FamiliesType DEF RoomInv, SpaceInv, IInv, SpaceIn, Tidy, Tiers
<1>4. Stacked(ev)' /\ MovingIn(ev)' = MovingIn(ev) /\ Room'
  BY <1>2 DEF RoomInv, Stacked, MovingIn, Room
<1>5. AtHome'
  <2> SUFFICES ASSUME ~ foreign' PROVE Pure0(avail[0], Range(pri[0]), MovingIn(ev)[1])'
    BY DEF AtHome
  <2>1. ~ foreign /\ ~ Stray(n)
    BY <1>1 DEF RoomInv, SpaceInv, IInv
  <2>2. Span(n.rep) \subseteq TierBlocks(0)
    BY <2>1, FoundAtHome
  <2>3. Range(pri'[0]) \subseteq Range(pri[0])
    BY <1>1, <1>3, OnlyExtracted
  <2>4. avail'[0] \subseteq avail[0] \union Span(n.rep)
    BY <1>1, <1>3 DEF AvailInsert
  <2> QED BY <1>4, <2>1, <2>2, <2>3, <2>4 DEF RoomInv, AtHome, Pure0
<1> QED BY <1>4, <1>5

(* What hypraid_pop_priority_area takes off the count it holds.            *)
LEMMA PopRoom ==
  ASSUME RoomInv, Pop
  PROVE  /\ (Stacked(ev) /\ Room /\ AtHome)'
         /\ Cardinality(avail'[0]) + Wins(ev') = Cardinality(avail[0]) + Wins(ev)
<1>1. /\ UNCHANGED <<avail, pc, req, blk, foreign>> /\ ev # <<>> /\ Top.area = NoNode
      /\ Top.src \in {0, 1} /\ Top.src \in Tiers
      /\ Victim \in NodeIn /\ Victim \in Range(pri[Top.src])
  BY PopDoes DEF RoomInv, SpaceInv, call
<1>2. PICK f \in FrameIn, k \in Int :
        /\ f.src = Top.src /\ f.want = Top.want - f.area.cnt
        /\ \/ ev' = Append(Under, f)
           \/ Top.src = 0 /\ ev' = Under \o <<f, Frame(1, k)>>
        /\ \/ f.area = Victim /\ pri' = PriExtract(pri, Victim)
           \/ \E kept \in NodeOf(Top.src) :
                /\ f.area.cnt >= 1
                /\ Span(f.area.rep) \union Span(kept.rep) = Span(Victim.rep)
                /\ pri' = PriInsertLow(PriExtract(pri, Victim), Top.src, kept)
  BY PopDoes DEF RoomInv, SpaceInv
<1>3. /\ ev \in Seq(FrameIn) /\ ev' \in Seq(FrameIn) /\ pri \in PriIn /\ Lined(pri)
      /\ Stacked(ev)
  BY PopKeeps DEF RoomInv, SpaceInv, IInv, SpaceIn, Tidy
<1>4. /\ Stacked(ev') /\ ev' # <<>>
      /\ Top.src = 0 => ev[1] = Top /\ ev'[1] = f
      /\ Top.src # 0 => ev'[1] = ev[1]
  BY <1>1, <1>2, <1>3, StackedTop
<1>5. /\ f.area \in NodeIn /\ f.area.cnt \in Int /\ f.area.cnt >= 1 /\ f.want \in Int
      /\ Top.want \in Int
  <2>1. Victim.cnt >= 1
    BY <1>1, OnList DEF RoomInv, Lists
  <2>2. Top \in FrameIn
    BY <1>1, <1>3, StackType
  <2> QED BY <1>2, <2>1, <2>2 DEF FrameIn, NodeIn, NodeType
<1>6. Wins(ev') = Wins(ev)
  <2>1. CASE Top.src = 0
    <3>1. Cardinality(Span(f.area.rep)) = f.area.cnt
      BY <1>5, NodeBlocks
    <3>2. Cardinality(Span(NoNode.rep)) = 0
      BY NoNodeSpan, FS_EmptySet
    <3>3. Wins(ev') = f.want + f.area.cnt /\ Wins(ev) = Top.want + 0
      BY <1>1, <1>4, <2>1, <3>1, <3>2 DEF Wins
    <3> QED BY <1>2, <1>5, <3>3
  <2>2. CASE Top.src # 0
    BY <1>1, <1>4, <2>2 DEF Wins
  <2> QED BY <2>1, <2>2
<1>7. Room'
  BY <1>1, <1>6 DEF RoomInv, Room
<1>8. /\ Span(f.area.rep) \subseteq Span(Victim.rep)
      /\ \A m \in Range(pri'[0]) :
           \/ m \in Range(pri[0])
           \/ Top.src = 0 /\ Span(m.rep) \subseteq Span(Victim.rep)
  <2> DEFINE q == PriExtract(pri, Victim)
  <2>1. q \in PriIn /\ Range(q[0]) \subseteq Range(pri[0]) /\ 0 \in Tiers
    <3>1. 0 \in Tiers
      BY DEF Tiers
    <3> QED BY <1>3, <3>1, PriExtractType, OnlyExtracted
  <2> HIDE DEF q
  <2>2. CASE f.area = Victim /\ pri' = q
    BY <2>1, <2>2
  <2>3. ASSUME NEW kept \in NodeOf(Top.src),
               Span(f.area.rep) \union Span(kept.rep) = Span(Victim.rep),
               pri' = PriInsertLow(q, Top.src, kept)
        PROVE  /\ Span(f.area.rep) \subseteq Span(Victim.rep)
               /\ \A m \in Range(pri'[0]) :
                    \/ m \in Range(pri[0])
                    \/ Top.src = 0 /\ Span(m.rep) \subseteq Span(Victim.rep)
    <3>1. kept \in NodeIn /\ Span(kept.rep) \subseteq Span(Victim.rep)
      BY <2>3 DEF NodeOf
    <3>2. /\ \A m \in Range(pri'[0]) : m \in Range(q[0]) \/ m = kept
          /\ Top.src # 0 => pri'[0] = q[0]
      BY <1>1, <2>1, <2>3, <3>1, OnlyFiled
    <3> QED BY <2>1, <2>3, <3>1, <3>2
  <2> QED BY <1>2, <2>2, <2>3 DEF q
<1>9. AtHome'
  <2> SUFFICES ASSUME ~ foreign
               PROVE  Pure0(avail[0], Range(pri'[0]), MovingIn(ev')[1])
    BY <1>1 DEF AtHome
  <2>1. Pure0(avail[0], Range(pri[0]), MovingIn(ev)[1])
    BY DEF RoomInv, AtHome
  <2>2. Top.src = 0 => Span(Victim.rep) \subseteq TierBlocks(0)
    BY <1>1, <2>1 DEF Pure0
  <2>3. MovingIn(ev')[1] = Span(ev'[1].area.rep) /\ MovingIn(ev)[1] = Span(ev[1].area.rep)
    BY <1>1, <1>3, <1>4, FirstLoop
  <2> QED BY <1>4, <1>8, <2>1, <2>2, <2>3 DEF Pure0
<1> QED BY <1>1, <1>4, <1>6, <1>7, <1>9

LEMMA PlaceRoom ==
  ASSUME RoomInv, Place
  PROVE  /\ (Stacked(ev) /\ Room /\ AtHome)'
         /\ Cardinality(avail'[0]) + Wins(ev') = Cardinality(avail[0]) + Wins(ev)
<1> DEFINE t == Top.src
<1>1. /\ UNCHANGED <<pc, req, blk, foreign>> /\ ev # <<>> /\ Top.area # NoNode
      /\ Top \in FrameIn /\ t \in Tiers /\ t + 1 \in Tiers
  BY PlaceDoes DEF RoomInv, SpaceInv, call, Place
<1>2. PICK dst \in NodeOf(t + 1), f \in FrameIn :
        /\ pri' = PriInsert(pri, t + 1, dst)
        /\ ev' = Append(Under, f) /\ f.src = t /\ f.want = Top.want
        /\ LET a == AvailExtract(avail, t + 1, dst.rep)
           IN  \/ avail' = AvailInsert(a, t, Top.area.rep) /\ f = Frame(t, Top.want)
               \/ avail' = a /\ f.area = Top.area
  BY PlaceDoes DEF RoomInv, SpaceInv
<1>3. /\ ev \in Seq(FrameIn) /\ ev' \in Seq(FrameIn) /\ Stacked(ev)
      /\ pri \in PriIn /\ avail \in [Tiers -> SUBSET Block]
      /\ Partition(avail, Lists(pri), MovingIn(ev))
  BY PlaceKeeps, FamiliesType DEF RoomInv, SpaceInv, IInv, SpaceIn, Tidy
<1>4. t \in {0, 1} /\ dst \in NodeIn /\ 0 \in Tiers /\ t + 1 # 0
  BY <1>1 DEF FrameIn, NodeOf, Tiers
<1>5. /\ Stacked(ev') /\ ev' # <<>>
      /\ t = 0 => ev[1] = Top /\ ev'[1] = f
      /\ t # 0 => ev'[1] = ev[1]
  <2>1. 0 \in Int
    OBVIOUS
  <2> QED BY <1>1, <1>2, <1>3, <2>1, StackedTop
<1>6. MovingIn(ev')[1] = Span(ev'[1].area.rep) /\ MovingIn(ev)[1] = Span(ev[1].area.rep)
  BY <1>1, <1>3, <1>5, FirstLoop
<1>7. pri'[0] = pri[0]
  BY <1>2, <1>3, <1>4, <1>1, OnlyFiled
<1> DEFINE a == AvailExtract(avail, t + 1, dst.rep)
           A == Span(Top.area.rep)
<1>8. a \in [Tiers -> SUBSET Block] /\ a[0] = avail[0]
  BY <1>1, <1>3, <1>4 DEF AvailExtract
<1>9. \/ avail'[0] = avail[0] /\ ev'[1].want = ev[1].want /\ ev'[1].area = ev[1].area
      \/ /\ t = 0 /\ avail'[0] = avail[0] \union A /\ avail[0] \intersect A = {}
         /\ ev'[1].want = Top.want /\ ev'[1].area = NoNode
  <2> HIDE DEF a
  <2>1. CASE avail' = a /\ f.area = Top.area
    BY <1>2, <1>5, <1>8, <2>1
  <2>2. CASE avail' = AvailInsert(a, t, Top.area.rep) /\ f = Frame(t, Top.want)
    <3>1. CASE t = 0
      <4>1. A \subseteq Block /\ avail[0] \intersect A = {}
        <5>1. A = MovingIn(ev)[1] /\ A \subseteq Block
          BY <1>1, <1>5, <1>6, <3>1 DEF FrameIn, NodeIn
        <5> QED BY <1>3, <1>4, <5>1 DEF Partition, FreeOrMoving
      <4>2. avail'[0] = avail[0] \union A
        BY <1>8, <1>4, <2>2, <3>1, <4>1 DEF AvailInsert
      <4>3. f.want = Top.want /\ f.area = NoNode
        BY <2>2 DEF Frame
      <4> QED BY <1>5, <3>1, <4>1, <4>2, <4>3
    <3>2. CASE t # 0
      <4>1. avail'[0] = a[0]
        BY <1>4, <1>8, <2>2, <3>2 DEF AvailInsert
      <4> QED BY <1>5, <1>8, <3>2, <4>1
    <3> QED BY <3>1, <3>2
  <2> QED BY <1>2, <2>1, <2>2 DEF a
<1> HIDE DEF a, t, A
<1>10. Cardinality(avail'[0]) + Wins(ev') = Cardinality(avail[0]) + Wins(ev)
  <2>1. CASE avail'[0] = avail[0] /\ ev'[1].want = ev[1].want /\ ev'[1].area = ev[1].area
    BY <1>1, <1>5, <2>1 DEF Wins
  <2>2. CASE /\ t = 0 /\ avail'[0] = avail[0] \union A /\ avail[0] \intersect A = {}
             /\ ev'[1].want = Top.want /\ ev'[1].area = NoNode
    <3>1. avail[0] \subseteq Block /\ A \subseteq Block
      BY <1>1, <1>3, <1>4 DEF FrameIn, NodeIn, A
    <3>2. /\ Cardinality(avail'[0]) = Cardinality(avail[0]) + Cardinality(A)
          /\ Cardinality(avail[0]) \in Nat /\ Cardinality(A) \in Nat
      BY <2>2, <3>1, BlockSets
    <3>3. Cardinality(Span(NoNode.rep)) = 0
      BY NoNodeSpan, FS_EmptySet
    <3>4. Wins(ev') = Top.want + 0
      BY <1>5, <2>2, <3>3 DEF Wins
    <3>5. Wins(ev) = Top.want + Cardinality(A)
      BY <1>1, <1>5, <2>2 DEF Wins, A
    <3>6. Top.want \in Int
      BY <1>1 DEF FrameIn
    <3> QED BY <3>2, <3>4, <3>5, <3>6
  <2> QED BY <1>9, <2>1, <2>2
<1>11. Room'
  BY <1>1, <1>10 DEF RoomInv, Room
<1>12. AtHome'
  <2>1. CASE avail'[0] = avail[0] /\ ev'[1].area = ev[1].area
    BY <1>1, <1>6, <1>7, <2>1 DEF RoomInv, AtHome
  <2>2. CASE t = 0 /\ avail'[0] = avail[0] \union A /\ ev'[1].area = NoNode
    BY <1>1, <1>5, <1>6, <1>7, <2>2, NoNodeSpan DEF RoomInv, AtHome, Pure0, A
  <2> QED BY <1>9, <2>1, <2>2
<1> QED BY <1>5, <1>10, <1>11, <1>12

LEMMA NextRoomInv == RoomInv /\ [Next]_vars => RoomInv'
<1> SUFFICES ASSUME RoomInv, [Next]_vars PROVE (Stacked(ev) /\ Room /\ AtHome)'
  BY NextSpaceInv DEF RoomInv
<1>1. CASE Touch \/ MakeRoom \/ Alloc \/ Pop \/ Place \/ Evicted \/ DeleteArea \/ Evict
  BY <1>1, TouchRoom, NewLoopRoom, AllocRoom, PopRoom, PlaceRoom, EvictedRoom,
     DeleteAreaRoom
<1>2. CASE Submit \/ Discard \/ Delete
  BY <1>2, SameRoom DEF Submit, Discard, Delete, Start, Running, space, call
<1>3. CASE Inserted \/ Issue \/ Issued \/ Deleted
  BY <1>3, SameRoom DEF Inserted, Issue, Issuing, Issued, Deleted, Return, Running, space
<1>4. CASE Fail \/ Halted \/ UNCHANGED vars
  BY <1>4, SameRoom DEF Fail, IssueUnmapped, IssueSplit, PopEmpty, PopUnlinked, PlaceNone, EraseRoot,
     Stop, Halted, vars, space, call
<1> QED BY <1>1, <1>2, <1>3, <1>4 DEF Next, Step

LEMMA RoomInvariant == Spec => []RoomInv
  BY InitRoom, NextRoomInv, PTL DEF Spec

LEMMA RoomMade == RoomInv => RoomWasMade
<1> SUFFICES ASSUME RoomInv, Running("alloc")
             PROVE  Cardinality(avail[0]) >= req.end - blk + 1
  BY DEF RoomWasMade
<1>1. Wins(ev) = 0 /\ pc = "alloc"
  BY DEF Running, Wins
<1>2. Cardinality(avail[0]) \in Nat
  BY FamiliesType, BlockSets DEF RoomInv, SpaceInv, Tiers
<1> QED BY <1>1, <1>2 DEF RoomInv, Room

(* hypraid_insert_block_area always finds the free extents it made room    *)
(* for: the list entries it takes without a test are there, whatever was   *)
(* evicted in between and however the free blocks lie.                     *)
THEOREM InsertFindsRoom == Spec => []RoomWasMade
  BY RoomMade, RoomInvariant, PTL

(* The bitmap's counters, which decide whether to evict, agree with the    *)
(* free lists, from which allocations are served, until an area of another *)
(* group has been found or deleted; and what they then say of group 0 is   *)
(* never too much.                                                         *)
THEOREM CountersAgree == Spec => []Accounting
<1>1. RoomInv => Accounting
  BY Counts DEF RoomInv, Accounting
<1> QED BY <1>1, RoomInvariant, PTL

-----------------------------------------------------------------------------
(* The ioctls (Ioctls).  INSERT_AREA files areas that count more blocks    *)
(* than they have, marks blocks that no area has, and moves areas to the   *)
(* list of a group that has them not, so that less holds of a state: no    *)
(* block is lost or given out twice; until such an area has been given up, *)
(* the blocks in use are marked, if not only they; and until an area has   *)
(* been filed with the wrong group, each group but the first keeps to its  *)
(* own blocks, and the first one does until a foreign area was accessed.   *)
LoopIn ==
  { f \in [src : {0, 1}, want : Int, area : NodeType, rest : NodeType] :
      Span(f.area.rep) \subseteq Block /\ f.rest.cnt = Size(f.rest.rep) }

CallShaped ==
  /\ req \in [start : Int, end : Int, write : BOOLEAN]
  /\ blk \in Int
  /\ pc = "alloc" => blk <= req.end

Shaped ==
  /\ avail \in [Tiers -> SUBSET Block]
  /\ pri \in [Tiers -> Seq(AreaIn)] /\ OnceEach(pri)
  /\ repTree \subseteq AllListed
  /\ ev \in Seq(LoopIn) /\ Held(ev)

UseMarked(b, L, R) ==
  \A p \in Block : \/ \E t \in Tiers : \E n \in L[t] : p \in Span(n.rep)
                   \/ \E i \in Nat : p \in R[i]
                   => p \in b

Keeps(t, a, L, e) ==
  /\ a[t] \subseteq TierBlocks(t)
  /\ \A n \in L[t] : Span(n.rep) \subseteq TierBlocks(t)
  /\ \A i \in DOMAIN e : e[i].src = t => Span(e[i].area.rep) \subseteq TierBlocks(t)

Homely(a, L, e) == \A t \in Tiers : (t = 0 /\ foreign) \/ Keeps(t, a, L, e)

IoInv ==
  /\ Shaped /\ CallShaped
  /\ Partition(avail, Lists(pri), MovingIn(ev))
  /\ ~ loose => UseMarked(bits, Lists(pri), RestIn(ev))
  /\ ~ misfiled => Homely(avail, Lists(pri), ev)

LEMMA LoopFrame ==
  ASSUME NEW t \in {0, 1}, NEW k \in Int
  PROVE  /\ Frame(t, k) \in LoopIn /\ Frame(t, k).area = NoNode /\ Frame(t, k).rest = NoNode
         /\ Span(NoNode.rep) = {} /\ NoNode \in NodeType
<1>1. NoNode \in NodeType /\ NoNode.cnt = Size(NoNode.rep)
  BY DEF NoNode, Node, Extent, NodeType, Size
<1> QED BY <1>1, NoNodeSpan DEF Frame, LoopIn

(* What the state looks like as families.                                  *)
LEMMA IoFamilies ==
  ASSUME IoInv
  PROVE  /\ Lists(pri) \in Areas3 /\ \A t \in Tiers : Lists(pri)[t] = Range(pri[t])
         /\ \A t \in Tiers : Lists(pri)[t] \subseteq AreaIn
         /\ MovingIn(ev) \in [Nat -> SUBSET Block] /\ RestIn(ev) \in [Nat -> SUBSET Block]
         /\ \A i \in Nat : RestIn(ev)[i] \subseteq MovingIn(ev)[i]
         /\ \A n : n \in AllListed <=> \E t \in Tiers : n \in Lists(pri)[t]
         /\ \A n \in repTree : n \in AreaIn /\ \E t \in Tiers : n \in Lists(pri)[t]
<1>1. \A t \in Tiers : pri[t] \in Seq(AreaIn)
  BY DEF IoInv, Shaped
<1>2. \A t \in Tiers : Lists(pri)[t] = Range(pri[t]) /\ Range(pri[t]) \subseteq AreaIn
  BY <1>1, RangeOfSeq DEF Lists
<1>3. Lists(pri) \in Areas3
  BY <1>2 DEF Lists, Areas3, AreaIn
<1>4. ASSUME NEW i \in DOMAIN ev
      PROVE  /\ Span(ev[i].area.rep) \subseteq Block
             /\ Span(ev[i].rest.rep) \subseteq Span(ev[i].area.rep)
  <2>1. ev[i] \in LoopIn
    BY ElementOfSeq, LenProperties DEF IoInv, Shaped
  <2> QED BY <2>1 DEF LoopIn, IoInv, Shaped, Held, FrameHeld
<1>5. /\ MovingIn(ev) \in [Nat -> SUBSET Block] /\ RestIn(ev) \in [Nat -> SUBSET Block]
      /\ \A i \in Nat : RestIn(ev)[i] \subseteq MovingIn(ev)[i]
  BY <1>4 DEF MovingIn, RestIn
<1>6. \A n : n \in AllListed <=> \E t \in Tiers : n \in Lists(pri)[t]
  BY <1>2 DEF AllListed, Listed
<1>7. \A n \in repTree : n \in AreaIn /\ \E t \in Tiers : n \in Lists(pri)[t]
  BY <1>2, <1>6 DEF IoInv, Shaped
<1> QED BY <1>2, <1>3, <1>5, <1>6, <1>7

LEMMA AreaForm ==
  ASSUME NEW n \in AreaIn
  PROVE  /\ n \in NodeType /\ n \in RepIn /\ Span(n.rep) \subseteq Block /\ Span(n.rep) # {}
         /\ n.ori.start \in Int /\ n.ori.end \in Int /\ n.cnt \in Int
         /\ n.rep.start \in Int /\ n.rep.end \in Int /\ n.rep.start <= n.rep.end
         /\ Span(n.rep) = n.rep.start .. n.rep.end
<1>1. /\ n \in NodeType /\ n \in RepIn /\ Span(n.rep) \subseteq Block
      /\ n.ori.start \in Int /\ n.ori.end \in Int /\ n.cnt \in Int
      /\ n.rep.start \in Int /\ n.rep.end \in Int /\ n.rep.start <= n.rep.end
      /\ Span(n.rep) = n.rep.start .. n.rep.end
  BY DEF AreaIn, RepIn, NodeType, Span
<1>2. n.rep.start \in Span(n.rep)
  BY <1>1
<1> QED BY <1>1, <1>2

(* The lists of the tree before and after.                                 *)
LEMMA StillListed ==
  ASSUME IoInv, NEW K, Lists(pri)' = K, NEW n, repTree' \subseteq repTree \union {n},
         \A v \in Tiers : \A m \in Lists(pri)[v] :
           m \in repTree' => \E u \in Tiers : m \in K[u],
         n \in repTree' => \E u \in Tiers : n \in K[u]
  PROVE  (repTree \subseteq AllListed)'
<1>1. \A m : m \in AllListed' <=> \E u \in Tiers : m \in K[u]
  BY DEF AllListed, Listed, Lists
<1>2. \A m \in repTree : \E u \in Tiers : m \in Lists(pri)[u]
  BY IoFamilies
<1> QED BY <1>1, <1>2

(* The steps that leave lists, tree and bitmap alone, and whose loops move *)
(* what they moved.                                                        *)
LEMMA IoSame ==
  ASSUME IoInv, UNCHANGED space, CallShaped', ev' \in Seq(LoopIn), Held(ev'),
         MovingIn(ev') = MovingIn(ev), RestIn(ev') = RestIn(ev),
         \A i \in DOMAIN ev' : \/ i \in DOMAIN ev /\ ev'[i] = ev[i]
                               \/ ev'[i].area = NoNode,
         foreign => foreign', loose => loose', misfiled => misfiled'
  PROVE  IoInv'
<1>1. Lists(pri)' = Lists(pri) /\ AllListed' = AllListed
  BY DEF space, Lists, AllListed, Listed
<1>2. ~ misfiled' => Homely(avail, Lists(pri), ev)'
  <2> SUFFICES ASSUME ~ misfiled', NEW t \in Tiers, ~ (t = 0 /\ foreign')
               PROVE  Keeps(t, avail', Lists(pri)', ev')
    BY DEF Homely
  <2>1. Keeps(t, avail, Lists(pri), ev)
    BY DEF IoInv, Homely
  <2>2. \A i \in DOMAIN ev' : ev'[i].src = t => Span(ev'[i].area.rep) \subseteq TierBlocks(t)
    BY <2>1, NoNodeSpan DEF Keeps
  <2> QED BY <1>1, <2>1, <2>2 DEF Keeps, space
<1> QED BY <1>1, <1>2 DEF IoInv, Shaped, space, OnceEach, UseMarked

-----------------------------------------------------------------------------
LEMMA InitIoInv == Init /\ loose = FALSE /\ misfiled = FALSE => IoInv
<1> SUFFICES ASSUME Init PROVE IoInv
  OBVIOUS
<1>1. IInv /\ Tidy
  BY InitIInv, InitTidy
<1>2. avail \in [Tiers -> SUBSET Block]
  BY <1>1 DEF IInv, SpaceIn, AvailIn
<1>3. pri \in [Tiers -> Seq(AreaIn)]
  BY EmptySeq DEF Init
<1>4. OnceEach(pri) /\ ev \in Seq(LoopIn)
  BY <1>1, EmptySeq DEF Tidy, Lined, OnceEach, Init
<1>5. Shaped
  BY <1>1, <1>2, <1>3, <1>4 DEF Tidy, Shaped
<1>6. CallShaped
  BY DEF Init, CallShaped, NoReq, Call, Extent
<1>7. UseMarked(bits, Lists(pri), RestIn(ev))
  BY <1>1 DEF Tidy, Marks, UseMarked
<1>8. \A t \in Tiers : Keeps(t, avail, Lists(pri), ev)
  <2>1. \A t \in Tiers : Lists(pri)[t] = {}
    BY DEF Init, Lists, Range
  <2>2. DOMAIN ev = {}
    BY DEF Init
  <2> QED BY <2>1, <2>2 DEF Keeps, Init
<1> QED BY <1>1, <1>5, <1>6, <1>7, <1>8 DEF IoInv, Tidy, Homely

(* The steps in which no list and no loop changes.                         *)
LEMMA IoQuiet ==
  ASSUME IoInv, UNCHANGED <<space, ev>>, CallShaped',
         foreign => foreign', loose => loose', misfiled => misfiled'
  PROVE  IoInv'
<1>1. ev' \in Seq(LoopIn) /\ Held(ev')
  BY DEF IoInv, Shaped
<1> QED BY <1>1, IoSame

LEMMA IoCalls ==
  ASSUME IoInv,
         Submit \/ Discard \/ Delete \/ Inserted \/ Issue \/ Issued \/ Deleted \/ Fail \/ Halted,
         loose => loose', misfiled' = misfiled
  PROVE  IoInv'
<1>1. ASSUME UNCHANGED call PROVE CallShaped'
  BY <1>1 DEF IoInv, CallShaped, call
<1>2. CASE Submit \/ Delete
  <2>1. PICK r, p : Start(p, r) /\ p # "alloc" /\ r \in [start : Int, end : Int, write : BOOLEAN]
    <3>1. CASE Submit
      <4>1. PICK r \in Requests : Start("search", r)
        BY <3>1 DEF Submit
      <4>2. PICK x \in Logical, w \in BOOLEAN : r = Call(x, w)
        BY BlockAreaAssumption
      <4>3. Call(x, w) \in [start : Int, end : Int, write : BOOLEAN]
        BY StartType DEF RequestIn
      <4> QED BY <4>1, <4>2, <4>3
    <3>2. CASE Delete
      <4>1. PICK x \in Deletes : Start("delete", Call(x, FALSE))
        BY <3>2 DEF Delete
      <4>2. x \in Logical /\ FALSE \in BOOLEAN
        BY <4>1, BlockAreaAssumption
      <4>3. Call(x, FALSE) \in RequestIn
        BY <4>2, StartType
      <4>4. Call(x, FALSE) \in [start : Int, end : Int, write : BOOLEAN]
        BY <4>3 DEF RequestIn
      <4> QED BY <4>1, <4>4
    <3> QED BY <1>2, <3>1, <3>2
  <2>2. CallShaped'
    BY <2>1 DEF Start, CallShaped
  <2> QED BY <2>1, <2>2, IoQuiet DEF Start
<1>3. CASE Discard
  BY <1>1, <1>3, IoQuiet DEF Discard
<1>4. CASE Inserted
  <2>1. CallShaped'
    BY <1>4 DEF Inserted, IoInv, CallShaped
  <2> QED BY <1>4, <2>1, IoQuiet DEF Inserted
<1>5. CASE Issue
  <2>1. PICK n \in At(blk) : blk' = n.ori.start + n.cnt
    BY <1>5 DEF Issue
  <2>2. n.ori.start \in Int /\ n.cnt \in Int
    BY <2>1, IoFamilies, AreaForm DEF At
  <2>3. CallShaped'
    BY <1>5, <2>1, <2>2 DEF Issue, Issuing, Running, IoInv, CallShaped
  <2> QED BY <1>5, <2>3, IoQuiet DEF Issue
<1>6. CASE Issued \/ Deleted
  <2>1. Return
    BY <1>6 DEF Issued, Deleted
  <2>2. CallShaped'
    BY <2>1 DEF Return, CallShaped, NoReq, Call, Extent
  <2> QED BY <2>1, <2>2, IoQuiet DEF Return
<1>7. CASE Fail \/ Halted
  <2>1. UNCHANGED <<space, call, ev>> /\ (foreign => foreign')
    BY <1>7 DEF Fail, IssueUnmapped, IssueSplit, PopEmpty, PopUnlinked, PlaceNone, EraseRoot,
       Stop, Halted, vars
  <2> QED BY <1>1, <2>1, IoQuiet
<1> QED BY <1>2, <1>3, <1>4, <1>5, <1>6, <1>7

(* A loop begins, or ends.                                                 *)
LEMMA IoLoops ==
  ASSUME IoInv, MakeRoom \/ Evict \/ Evicted, loose => loose', misfiled' = misfiled
  PROVE  IoInv'
<1>1. CASE MakeRoom \/ Evict
  <2>1. ev = <<>> /\ UNCHANGED space /\ UNCHANGED foreign
    BY <1>1 DEF MakeRoom, Evict, Searching, Running
  <2>2. ev' = <<>> \/ \E t \in {0, 1}, k \in Int : ev' = <<Frame(t, k)>>
    <3>1. CASE MakeRoom
      <4>1. req.end - blk + 1 \in Int
        BY DEF IoInv, CallShaped
      <4>2. AreaFree(0, req.end - blk + 1) \in Int
        BY <4>1, AreaFreeType DEF Tiers
      <4> QED BY <3>1, <4>2 DEF MakeRoom
    <3>2. CASE Evict
      BY <3>2, BlockAreaAssumption DEF Evict
    <3> QED BY <1>1, <3>1, <3>2
  <2>3. /\ MovingIn(ev) = [i \in Nat |-> {}] /\ RestIn(ev) = [i \in Nat |-> {}]
        /\ MovingIn(ev') = [i \in Nat |-> {}] /\ RestIn(ev') = [i \in Nat |-> {}] /\ Held(ev')
    BY <2>1, <2>2, NoLoops
  <2>4. ev' \in Seq(LoopIn) /\ \A i \in DOMAIN ev' : ev'[i].area = NoNode
    <3>1. CASE ev' = <<>>
      BY <3>1, EmptySeq
    <3>2. CASE \E t \in {0, 1}, k \in Int : ev' = <<Frame(t, k)>>
      <4>1. PICK t \in {0, 1}, k \in Int : ev' = <<Frame(t, k)>>
        BY <3>2
      <4>2. Frame(t, k) \in LoopIn /\ Frame(t, k).area = NoNode
        BY LoopFrame
      <4>3. DOMAIN ev' = {1} /\ ev'[1] = Frame(t, k)
        BY <4>1
      <4> QED BY <4>1, <4>2, <4>3
    <3> QED BY <2>2, <3>1, <3>2
  <2>5. CallShaped'
    <3>1. CASE MakeRoom
      BY <3>1 DEF MakeRoom, Searching, Running, IoInv, CallShaped
    <3>2. CASE Evict
      BY <3>2 DEF Evict, IoInv, CallShaped
    <3> QED BY <1>1, <3>1, <3>2
  <2> QED BY <2>1, <2>3, <2>4, <2>5, IoSame
<1>2. CASE Evicted
  <2>1. /\ ev # <<>> /\ Top.area = NoNode /\ ev' = Under /\ UNCHANGED space
        /\ UNCHANGED <<req, blk, foreign>>
        /\ pc' \in {"idle", pc}
    BY <1>2 DEF Evicted, Evicting
  <2>2. ev \in Seq(LoopIn) /\ Held(ev)
    BY DEF IoInv, Shaped
  <2>3. /\ Held(Under) /\ MovingIn(Under) = MovingIn(ev) /\ RestIn(Under) = RestIn(ev)
    BY <2>1, <2>2, EndFamilies
  <2>4. /\ DOMAIN Under = 1 .. (Len(ev) - 1) /\ DOMAIN ev = 1 .. Len(ev) /\ Len(ev) \in Nat
        /\ \A i \in 1 .. (Len(ev) - 1) : Under[i] = ev[i] /\ ev[i] \in LoopIn
    <3>1. DOMAIN ev = 1 .. Len(ev) /\ Len(ev) \in Nat /\ \A i \in 1 .. Len(ev) : ev[i] \in LoopIn
      BY <2>2, ElementOfSeq, LenProperties
    <3>2. ev[Len(ev)] \in LoopIn
      BY <2>1, <2>2, EmptySeq, ElementOfSeq, LenProperties
    <3>3. StackFacts(ev, ev[Len(ev)], ev[Len(ev)])
      BY <2>1, <2>2, <3>2, StackTop
    <3>4. /\ DOMAIN Under = 1 .. (Len(ev) - 1)
          /\ \A i \in 1 .. (Len(ev) - 1) : Under[i] = ev[i]
      BY <3>3 DEF StackFacts, Under
    <3>5. \A i \in 1 .. (Len(ev) - 1) : i \in 1 .. Len(ev)
      BY <3>1
    <3> QED BY <3>1, <3>4, <3>5
  <2>5. Under \in Seq(LoopIn)
    BY <2>4, SubSeqProperties DEF Under, Front
  <2>6. CallShaped'
    BY <2>1 DEF IoInv, CallShaped
  <2> QED BY <2>1, <2>3, <2>4, <2>5, <2>6, IoSame
<1> QED BY <1>1, <1>2

-----------------------------------------------------------------------------
LEMMA AreaListsWith ==
  ASSUME NEW p \in [Tiers -> Seq(AreaIn)], OnceEach(p), NEW t \in Tiers, NEW n \in AreaIn,
         \A m \in Lists(p)[t], b \in Block : ~ (b \in Span(m.rep) /\ b \in Span(n.rep))
  PROVE  /\ PriInsert(p, t, n) \in [Tiers -> Seq(AreaIn)]
         /\ PriInsertLow(p, t, n) \in [Tiers -> Seq(AreaIn)]
         /\ Lists(PriInsert(p, t, n)) = [Lists(p) EXCEPT ![t] = @ \union {n}]
         /\ Lists(PriInsertLow(p, t, n)) = [Lists(p) EXCEPT ![t] = @ \union {n}]
         /\ OnceEach(PriInsert(p, t, n)) /\ OnceEach(PriInsertLow(p, t, n))
<1>1. Range(p[t]) \subseteq AreaIn
  BY RangeOfSeq
<1> QED BY <1>1, ListsWith

(* Free blocks of a group are mapped: an allocation, the target of a       *)
(* demotion, or an INSERT.                                                 *)
LEMMA IoMapFree ==
  ASSUME IoInv, NEW t \in Tiers, NEW n \in AreaIn, Span(n.rep) \subseteq avail[t]
  PROVE  LET K == [Lists(pri) EXCEPT ![t] = @ \union {n}]
             a == AvailExtract(avail, t, n.rep)
         IN  /\ PriInsert(pri, t, n) \in [Tiers -> Seq(AreaIn)]
             /\ Lists(PriInsert(pri, t, n)) = K
             /\ OnceEach(PriInsert(pri, t, n))
             /\ K \in Areas3 /\ a \in [Tiers -> SUBSET Block]
             /\ Partition(a, K, MovingIn(ev))
             /\ \A v \in Tiers : a[v] \subseteq avail[v]
             /\ \A v \in Tiers : \A m : m \in K[v] <=> m \in Lists(pri)[v] \/ (v = t /\ m = n)
<1> DEFINE L == Lists(pri)
           K == [L EXCEPT ![t] = @ \union {n}]
           a == AvailExtract(avail, t, n.rep)
<1>1. /\ avail \in [Tiers -> SUBSET Block] /\ pri \in [Tiers -> Seq(AreaIn)] /\ OnceEach(pri)
      /\ Partition(avail, L, MovingIn(ev))
  BY DEF IoInv, Shaped
<1>2. L \in Areas3
  BY IoFamilies
<1>3. \A m \in L[t], b \in Block : ~ (b \in Span(m.rep) /\ b \in Span(n.rep))
  BY <1>1 DEF Partition, FreeOrListed
<1>4. /\ PriInsert(pri, t, n) \in [Tiers -> Seq(AreaIn)]
      /\ Lists(PriInsert(pri, t, n)) = K /\ OnceEach(PriInsert(pri, t, n))
  BY <1>1, <1>3, AreaListsWith
<1> HIDE DEF L
<1>5. Partition([avail EXCEPT ![t] = @ \ Span(n.rep)], K, MovingIn(ev))
  BY <1>1, <1>2, FreeToListed
<1>6. a = [avail EXCEPT ![t] = @ \ Span(n.rep)]
  BY DEF AvailExtract
<1>7. a \in [Tiers -> SUBSET Block] /\ \A v \in Tiers : a[v] \subseteq avail[v]
  BY <1>1, <1>6
<1>8. \A v \in Tiers : \A m : m \in K[v] <=> m \in L[v] \/ (v = t /\ m = n)
  BY <1>2 DEF Areas3
<1>9. K \in Areas3
  BY <1>2, AreaForm DEF Areas3
<1> QED BY <1>4, <1>5, <1>6, <1>7, <1>8, <1>9 DEF L

LEMMA IoMapped ==
  ASSUME IoInv, NEW t \in Tiers, NEW n \in AreaIn, Span(n.rep) \subseteq avail[t],
         bits \union Span(n.rep) \subseteq bits', avail' = AvailExtract(avail, t, n.rep),
         pri' = PriInsert(pri, t, n), repTree' = RepInsert(repTree, n),
         UNCHANGED <<ev, foreign>>, CallShaped', loose => loose', misfiled' = misfiled
  PROVE  IoInv'
<1> DEFINE L == Lists(pri)
           K == [L EXCEPT ![t] = @ \union {n}]
<1>1. /\ pri' \in [Tiers -> Seq(AreaIn)] /\ Lists(pri') = K /\ OnceEach(pri')
      /\ avail' \in [Tiers -> SUBSET Block] /\ Partition(avail', K, MovingIn(ev))
      /\ \A v \in Tiers : avail'[v] \subseteq avail[v]
      /\ \A v \in Tiers : \A m : m \in K[v] <=> m \in L[v] \/ (v = t /\ m = n)
  BY IoMapFree
<1> HIDE DEF K
<1>2. (repTree \subseteq AllListed)'
  <2>1. repTree' \subseteq repTree \union {n}
    BY DEF RepInsert
  <2> QED BY <1>1, <2>1, StillListed
<1>3. Shaped'
  BY <1>1, <1>2 DEF IoInv, Shaped
<1>4. ~ loose' => UseMarked(bits', K, RestIn(ev))
  BY <1>1 DEF IoInv, UseMarked
<1>5. ~ misfiled' => Homely(avail, Lists(pri), ev)'
  <2> SUFFICES ASSUME ~ misfiled', NEW u \in Tiers, ~ (u = 0 /\ foreign')
               PROVE  Keeps(u, avail', K, ev)
    BY <1>1 DEF Homely
  <2>1. Keeps(u, avail, L, ev)
    BY DEF IoInv, Homely
  <2> QED BY <1>1, <2>1 DEF Keeps
<1> QED BY <1>1, <1>3, <1>4, <1>5 DEF IoInv

(* An area of the tree goes to the head of a list.                         *)
LEMMA IoRefiled ==
  ASSUME IoInv, NEW t \in Tiers, NEW n \in repTree,
         pri' = PriInsert(PriExtract(pri, n), t, n),
         UNCHANGED <<avail, repTree, bits, ev>>, CallShaped',
         foreign => foreign', loose => loose', misfiled => misfiled',
         misfiled' \/ (t = 0 /\ foreign') \/ n \in Range(pri[t])
  PROVE  IoInv'
<1> DEFINE L == Lists(pri)
           M == MovingIn(ev)
           q == PriExtract(pri, n)
           X == [v \in Tiers |-> L[v] \ {n}]
           K == [X EXCEPT ![t] = @ \union {n}]
<1>1. /\ avail \in [Tiers -> SUBSET Block] /\ pri \in [Tiers -> Seq(AreaIn)] /\ OnceEach(pri)
      /\ Partition(avail, L, M)
  BY DEF IoInv, Shaped
<1>2. PICK s \in Tiers : n \in L[s]
  BY IoFamilies
<1>3. L \in Areas3 /\ n \in AreaIn /\ Span(n.rep) # {} /\ L[t] = Range(pri[t])
  BY IoFamilies, AreaForm
<1>4. q \in [Tiers -> Seq(AreaIn)] /\ Lists(q) = X /\ OnceEach(q)
  BY <1>1, ListsWithout
<1> HIDE DEF q
<1>6. \A m \in Lists(q)[t], p \in Block : ~ (p \in Span(m.rep) /\ p \in Span(n.rep))
  BY <1>1, <1>2, <1>4 DEF Partition, ListedOnce
<1>7. pri' \in [Tiers -> Seq(AreaIn)] /\ Lists(pri') = K /\ OnceEach(pri')
  <2>1. pri' = PriInsert(q, t, n)
    BY DEF q
  <2>2. /\ PriInsert(q, t, n) \in [Tiers -> Seq(AreaIn)]
        /\ Lists(PriInsert(q, t, n)) = [Lists(q) EXCEPT ![t] = @ \union {n}]
        /\ OnceEach(PriInsert(q, t, n))
    <3> HIDE DEF X, K, L, M
    <3>1. q \in [Tiers -> Seq(AreaIn)] /\ OnceEach(q) /\ n \in AreaIn
      BY <1>3, <1>4
    <3> QED BY <1>6, <3>1, AreaListsWith
  <2> QED BY <1>4, <2>1, <2>2
<1>8. Partition(avail, K, M)
  BY <1>1, <1>2, <1>3, Refile
<1>9. \A v \in Tiers : \A m : m \in K[v] <=> (m \in L[v] /\ m # n) \/ (v = t /\ m = n)
  OBVIOUS
<1> HIDE DEF K, X
<1>10. \A m : (\E v \in Tiers : m \in K[v]) <=> (\E v \in Tiers : m \in L[v])
  BY <1>2, <1>9
<1>11. (repTree \subseteq AllListed)'
  BY <1>2, <1>7, <1>10, StillListed
<1>12. Shaped'
  BY <1>7, <1>11 DEF IoInv, Shaped
<1>13. ~ loose' => UseMarked(bits', K, RestIn(ev))
  BY <1>10 DEF IoInv, UseMarked
<1>14. ~ misfiled' => Homely(avail, Lists(pri), ev)'
  <2> SUFFICES ASSUME ~ misfiled', NEW u \in Tiers, ~ (u = 0 /\ foreign')
               PROVE  Keeps(u, avail, K, ev)
    BY <1>7 DEF Homely
  <2>1. Keeps(u, avail, L, ev)
    BY DEF IoInv, Homely
  <2>2. \A m : m \in K[u] => m \in L[u]
    BY <1>3, <1>9
  <2> QED BY <2>1, <2>2 DEF Keeps
<1> QED BY <1>7, <1>8, <1>12, <1>13, <1>14 DEF IoInv

-----------------------------------------------------------------------------
LEMMA NewArea ==
  \A o, p, n \in Int :
    n >= 1 /\ p .. (p + n - 1) \subseteq Block =>
      /\ Node(o, p, n) \in AreaIn
      /\ Span(Node(o, p, n).rep) = p .. (p + n - 1)
  BY DEF Node, Extent, AreaIn, RepIn, NodeType, Span

LEMMA IoAlloc ==
  ASSUME IoInv, Alloc, loose => loose', misfiled' = misfiled
  PROVE  IoInv'
<1>1. PICK x \in FirstFit(avail[0], req.end - blk + 1) :
        LET n    == MIN(req.end - blk + 1, Size(x))
            area == Node(blk, x.start, n)
        IN  /\ bits' = bits \union Span(area.rep)
            /\ avail' = AvailExtract(avail, 0, area.rep)
            /\ pri' = PriInsert(pri, 0, area)
            /\ repTree' = RepInsert(repTree, area)
            /\ blk' = blk + n
  BY DEF Alloc
<1> DEFINE n    == MIN(req.end - blk + 1, Size(x))
           area == Node(blk, x.start, n)
<1>2. UNCHANGED <<req, ev, foreign>> /\ pc' = "search" /\ pc = "alloc" /\ 0 \in Tiers
  BY DEF Alloc, Running, Tiers
<1>3. /\ blk \in Int /\ req.end \in Int /\ blk <= req.end /\ avail[0] \subseteq Block
  BY <1>2 DEF IoInv, Shaped, CallShaped
<1>4. req.end - blk + 1 \in Int /\ req.end - blk + 1 >= 1
  BY <1>3
<1>5. /\ x.start \in Int /\ n \in Int /\ n >= 1
      /\ x.start .. (x.start + n - 1) \subseteq avail[0]
  BY <1>1, <1>3, <1>4, FitType
<1> HIDE DEF n
<1>6. area \in AreaIn /\ Span(area.rep) = x.start .. (x.start + n - 1)
  <2>1. x.start .. (x.start + n - 1) \subseteq Block
    BY <1>3, <1>5
  <2>2. blk \in Int /\ x.start \in Int /\ n \in Int /\ n >= 1
    BY <1>3, <1>5
  <2>3. /\ Node(blk, x.start, n) \in AreaIn
        /\ Span(Node(blk, x.start, n).rep) = x.start .. (x.start + n - 1)
    BY <2>1, <2>2, NewArea
  <2> QED BY <2>3
<1>7. CallShaped'
  BY <1>1, <1>2, <1>3, <1>5 DEF n, IoInv, CallShaped
<1>8. /\ bits' = bits \union Span(area.rep) /\ avail' = AvailExtract(avail, 0, area.rep)
      /\ pri' = PriInsert(pri, 0, area) /\ repTree' = RepInsert(repTree, area)
  BY <1>1 DEF n
<1> HIDE DEF area
<1>9. Span(area.rep) \subseteq avail[0] /\ bits \union Span(area.rep) \subseteq bits'
  BY <1>5, <1>6, <1>8
<1> QED BY <1>2, <1>6, <1>7, <1>8, <1>9, IoMapped

(* A block is in the group that hypraid_get_bitmap_area answers.           *)
LEMMA GroupOf ==
  ASSUME NEW b \in Block
  PROVE  /\ Group(b) \in Tiers /\ b \in TierBlocks(Group(b))
         /\ \A t \in Tiers : b \in TierBlocks(t) => Group(b) = t
  BY OneGroup DEF Group

LEMMA IoInsertFree ==
  ASSUME IoInv, InsertFree
  PROVE  IoInv'
<1>a. PICK r \in Inserts : \E x \in FreeAt(Group(r.start), r.start) :
        /\ r.end <= x.end
        /\ avail' = AvailExtract(avail, Group(r.start), Placed(x, r).rep)
        /\ bits' = bits \union Marked(Placed(x, r))
        /\ pri' = PriInsert(pri, Group(r.start), Placed(x, r))
        /\ repTree' = RepInsert(repTree, Placed(x, r))
  BY DEF InsertFree
<1>1. PICK x \in FreeAt(Group(r.start), r.start) :
        /\ r.end <= x.end
        /\ avail' = AvailExtract(avail, Group(r.start), Placed(x, r).rep)
        /\ bits' = bits \union Marked(Placed(x, r))
        /\ pri' = PriInsert(pri, Group(r.start), Placed(x, r))
        /\ repTree' = RepInsert(repTree, Placed(x, r))
  BY <1>a
<1>2. UNCHANGED <<call, ev, foreign, loose, misfiled>>
  BY DEF InsertFree
<1> DEFINE t == Group(r.start)
           n == Placed(x, r)
<1>3. r.start \in Block /\ r.end \in Block /\ r.start <= r.end
  BY IoctlsAssumption DEF Logical
<1>4. t \in Tiers /\ avail[t] \subseteq Block
  BY <1>3, GroupOf DEF IoInv, Shaped
<1>5. /\ x.start \in avail[t] /\ x.end \in avail[t] /\ Span(x) \subseteq avail[t]
      /\ r.start \in Span(x)
  BY <1>1 DEF FreeAt, Runs
<1>6. /\ r.start \in Int /\ r.end \in Int /\ x.start \in Int /\ x.end \in Int
      /\ x.start <= r.start
  <2>a. Block \subseteq Int
    BY Geometry
  <2>1. Block \subseteq Int /\ avail[t] \subseteq Int
    BY <1>4, <2>a
  <2>2. r.start \in Int /\ r.end \in Int
    BY <1>3, <2>1
  <2>3. x.start \in Int /\ x.end \in Int /\ r.start \in x.start .. x.end
    BY <1>5, <2>1 DEF Span
  <2> QED BY <2>2, <2>3
<1>7. /\ n.ori = [start |-> r.start, end |-> r.end] /\ n.rep = [start |-> r.start, end |-> r.end]
      /\ n.cnt = x.end - x.start + 1
      /\ n = [ori |-> n.ori, rep |-> n.rep, cnt |-> n.cnt]
  BY DEF Placed, Extent, Size
<1> HIDE DEF n, t
<1>8. Span(n.rep) = r.start .. r.end /\ r.start .. r.end \subseteq x.start .. x.end
  BY <1>1, <1>6, <1>7 DEF Span
<1>9. Span(n.rep) \subseteq avail[t]
  BY <1>5, <1>8 DEF Span
<1>10. n \in AreaIn
  <2>1. n \in NodeType
    <3>1. x.end - x.start + 1 \in Int
      BY <1>6
    <3>2. [start |-> r.start, end |-> r.end] \in [start : Int, end : Int]
      BY <1>6
    <3> QED BY <1>7, <3>1, <3>2 DEF NodeType
  <2>2. Span(n.rep) \subseteq Block /\ n.rep.start <= n.rep.end
    BY <1>3, <1>4, <1>7, <1>9
  <2> QED BY <2>1, <2>2 DEF AreaIn, RepIn
<1>11. Span(n.rep) \subseteq Marked(n)
  <2>1. r.start + (x.end - x.start + 1) - 1 >= r.end
    BY <1>1, <1>6
  <2>2. Marked(n) = r.start .. (r.start + (x.end - x.start + 1) - 1)
    BY <1>7 DEF Marked
  <2> QED BY <1>6, <1>8, <2>1, <2>2
<1>12. CallShaped'
  BY <1>2 DEF IoInv, CallShaped, call
<1>13. /\ avail' = AvailExtract(avail, t, n.rep) /\ bits \union Span(n.rep) \subseteq bits'
       /\ pri' = PriInsert(pri, t, n) /\ repTree' = RepInsert(repTree, n)
  BY <1>1, <1>11 DEF n, t
<1> QED BY <1>2, <1>4, <1>9, <1>10, <1>12, <1>13, IoMapped

LEMMA IoTouch ==
  ASSUME IoInv, Touch, loose => loose', misfiled' = misfiled
  PROVE  IoInv'
<1>1. PICK n \in At(blk) : /\ pri' = PriInsert(PriExtract(pri, n), 0, n)
                           /\ blk' = Behind(n)
                           /\ foreign' = (foreign \/ Stray(n))
  BY DEF Touch
<1>2. UNCHANGED <<avail, repTree, bits, pc, req, ev>> /\ pc = "search" /\ 0 \in Tiers
  BY DEF Touch, Searching, Running, Tiers
<1>3. n \in repTree /\ n.ori.end \in Int
  BY IoFamilies, AreaForm DEF At
<1>4. foreign' \/ n \in Range(pri[0])
  BY <1>1 DEF Stray, Home
<1>5. CallShaped'
  BY <1>1, <1>2, <1>3 DEF IoInv, CallShaped, Behind
<1> QED BY <1>1, <1>2, <1>3, <1>4, <1>5, IoRefiled

LEMMA IoInsertMapped ==
  ASSUME IoInv, InsertMapped
  PROVE  IoInv'
<1>a. PICK r \in Inserts : \E n \in At(r.start) :
        /\ pri' = PriInsert(PriExtract(pri, n), Group(r.start), n)
        /\ misfiled' = (misfiled \/ Group(r.start) \notin Home(n))
  BY DEF InsertMapped
<1>1. PICK n \in At(r.start) :
        /\ pri' = PriInsert(PriExtract(pri, n), Group(r.start), n)
        /\ misfiled' = (misfiled \/ Group(r.start) \notin Home(n))
  BY <1>a
<1>2. UNCHANGED <<avail, repTree, bits, call, ev, foreign, loose>>
  BY DEF InsertMapped
<1>3. Group(r.start) \in Tiers /\ n \in repTree
  BY IoctlsAssumption, GroupOf DEF Logical, At
<1>4. misfiled' \/ n \in Range(pri[Group(r.start)])
  BY <1>1, <1>3 DEF Home
<1>5. CallShaped'
  BY <1>2 DEF IoInv, CallShaped, call
<1> QED BY <1>1, <1>2, <1>3, <1>4, <1>5, IoRefiled

-----------------------------------------------------------------------------
(* A deletion gives an area's blocks to group 0, and clears the bits it    *)
(* counts: unless the count is stale, those of its blocks.                 *)
LEMMA IoDeleteArea ==
  ASSUME IoInv, DeleteArea, misfiled' = misfiled,
         loose' = (loose \/ (pc = "delete" /\ \E n \in repTree : Stale(n) /\ n \notin repTree'))
  PROVE  IoInv'
<1> DEFINE L == Lists(pri)
           M == MovingIn(ev)
           R == RestIn(ev)
<1>1. PICK n \in At(blk) : /\ pri' = PriExtract(pri, n)
                           /\ repTree' = repTree \ {n}
                           /\ bits' = Unmark(n)
                           /\ avail' = AvailInsert(avail, 0, n.rep)
                           /\ foreign' = (foreign \/ Stray(n))
                           /\ blk' = Behind(n)
  BY DEF DeleteArea
<1>2. UNCHANGED <<pc, req, ev>> /\ pc = "delete" /\ 0 \in Tiers
  BY DEF DeleteArea, Deleting, Running, Tiers
<1>3. n \in repTree
  BY DEF At
<1>4. PICK t \in Tiers : n \in L[t]
  BY <1>3, IoFamilies
<1>5. /\ avail \in [Tiers -> SUBSET Block] /\ L \in Areas3 /\ Partition(avail, L, M)
      /\ pri \in [Tiers -> Seq(AreaIn)] /\ OnceEach(pri)
      /\ \A u \in Tiers : L[u] = Range(pri[u])
      /\ \A i \in Nat : R[i] \subseteq M[i]
  BY IoFamilies DEF IoInv, Shaped
<1>6. n \in AreaIn /\ Span(n.rep) # {} /\ Span(n.rep) \subseteq Block
  BY <1>3, IoFamilies, AreaForm
<1> DEFINE K == [v \in Tiers |-> L[v] \ {n}]
<1>7. pri' \in [Tiers -> Seq(AreaIn)] /\ Lists(pri') = K /\ OnceEach(pri')
  BY <1>1, <1>5, ListsWithout
<1>8. \A v \in Tiers : \A m : m \in K[v] <=> m \in L[v] /\ m # n
  OBVIOUS
<1> HIDE DEF L, M, R
<1>9. avail' = [avail EXCEPT ![0] = @ \union Span(n.rep)]
  <2>1. Span(n.rep) \intersect avail[0] = {}
    BY <1>2, <1>4, <1>5, <1>6 DEF Partition, FreeOrListed
  <2> QED BY <1>1, <2>1 DEF AvailInsert
<1>10. Partition(avail', K, M)
  <2>1. Partition([avail EXCEPT ![0] = @ \union Span(n.rep)], K, M)
    <3>1. /\ avail \in [Tiers -> SUBSET Block] /\ L \in Areas3 /\ Partition(avail, L, M)
          /\ Span(n.rep) # {}
      BY <1>5, <1>6
    <3> QED BY <1>2, <1>4, <3>1, ListedToFree, ZenonT(60)
  <2> QED BY <1>9, <2>1
<1> HIDE DEF K
<1>11. (repTree \subseteq AllListed)'
  <2>1. repTree' \subseteq repTree \union {n} /\ n \notin repTree'
    BY <1>1
  <2> QED BY <1>7, <1>8, <2>1, StillListed DEF L
<1>12. avail' \in [Tiers -> SUBSET Block]
  BY <1>2, <1>5, <1>6, <1>9
<1>13. Shaped'
  BY <1>2, <1>7, <1>11, <1>12 DEF IoInv, Shaped
<1>14. CallShaped'
  <2>1. n.ori.end \in Int
    BY <1>6, AreaForm
  <2> QED BY <1>1, <1>2, <2>1 DEF IoInv, CallShaped, Behind
<1>15. ~ loose' => UseMarked(bits', K, R)
  <2> HAVE ~ loose'
  <2>1. ~ loose /\ n.cnt = Size(n.rep)
    BY <1>1, <1>2, <1>3 DEF Stale
  <2>2. bits' = bits \ Span(n.rep)
    <3>1. n.rep.start \in Int /\ n.rep.end \in Int /\ n.cnt = n.rep.end - n.rep.start + 1
      BY <1>6, <2>1, AreaForm DEF Size
    <3>2. n.rep.start + n.cnt - 1 = n.rep.end
      BY <3>1
    <3> QED BY <1>1, <3>2 DEF Unmark, Span
  <2>3. UseMarked(bits, L, R)
    BY <2>1 DEF IoInv, L, R
  <2>4. \A p \in Block, v \in Tiers : \A m \in L[v] :
          p \in Span(n.rep) /\ p \in Span(m.rep) => m = n
    BY <1>4, <1>5 DEF Partition, ListedOnce
  <2>5. \A p \in Block, i \in Nat : ~ (p \in Span(n.rep) /\ p \in R[i])
    BY <1>4, <1>5 DEF Partition, ListedOrMoving
  <2> QED BY <1>8, <2>2, <2>3, <2>4, <2>5 DEF UseMarked
<1>16. ~ misfiled' => Homely(avail, Lists(pri), ev)'
  <2> SUFFICES ASSUME ~ misfiled', NEW u \in Tiers, ~ (u = 0 /\ foreign')
               PROVE  Keeps(u, avail', K, ev)
    BY <1>2, <1>7 DEF Homely
  <2>1. Keeps(u, avail, L, ev)
    BY <1>1 DEF IoInv, Homely, L
  <2>2. u = 0 => Span(n.rep) \subseteq TierBlocks(u)
    <3> HAVE u = 0
    <3>1. n \in L[0]
      BY <1>1, <1>5 DEF Stray, Home
    <3> QED BY <2>1, <3>1 DEF Keeps
  <2>3. avail'[u] \subseteq TierBlocks(u)
    BY <1>5, <1>9, <2>1, <2>2 DEF Keeps
  <2> QED BY <1>8, <2>1, <2>3 DEF Keeps
<1> QED BY <1>2, <1>7, <1>10, <1>13, <1>14, <1>15, <1>16 DEF IoInv, M, R

(* The loops after a step of the running one, which may start another.     *)
LEMMA IoStack ==
  ASSUME IoInv, ev # <<>>, NEW f \in LoopIn, FrameHeld(f), NEW k \in Int,
         NEW e, e = Append(Under, f) \/ e = Under \o <<f, Frame(1, k)>>
  PROVE  /\ e \in Seq(LoopIn) /\ Held(e)
         /\ MovingIn(e) = [MovingIn(ev) EXCEPT ![Len(ev)] = Span(f.area.rep)]
         /\ RestIn(e) = [RestIn(ev) EXCEPT ![Len(ev)] = Span(f.rest.rep)]
         /\ \A j \in DOMAIN e : \/ j \in DOMAIN ev /\ e[j] = ev[j]
                                \/ e[j] = f
                                \/ Span(e[j].area.rep) = {}
<1> DEFINE g == Frame(1, k)
           N == Len(ev)
<1>1. ev \in Seq(LoopIn) /\ Held(ev)
  BY DEF IoInv, Shaped
<1>2. g \in LoopIn /\ Span(g.area.rep) = {}
  <2>1. 1 \in {0, 1}
    OBVIOUS
  <2>2. /\ Frame(1, k) \in LoopIn /\ Frame(1, k).area = NoNode /\ Frame(1, k).rest = NoNode
        /\ Span(NoNode.rep) = {} /\ NoNode \in NodeType
    BY <2>1, LoopFrame
  <2> QED BY <2>2
<1>3. /\ N \in Nat /\ N >= 1 /\ DOMAIN ev = 1 .. N
      /\ DOMAIN Under = 1 .. (N - 1)
      /\ \A i \in 1 .. (N - 1) : Under[i] = ev[i]
      /\ DOMAIN Append(Under, f) = 1 .. N
      /\ \A i \in 1 .. (N - 1) : Append(Under, f)[i] = ev[i]
      /\ Append(Under, f)[N] = f
      /\ DOMAIN (Under \o <<f, g>>) = 1 .. (N + 1)
      /\ \A i \in 1 .. (N - 1) : (Under \o <<f, g>>)[i] = ev[i]
      /\ (Under \o <<f, g>>)[N] = f
      /\ (Under \o <<f, g>>)[N + 1] = g
  BY <1>1, <1>2, StackIndex
<1> HIDE DEF g, N
<1>5. Under \in Seq(LoopIn)
  <2>1. Len(ev) \in Nat /\ Len(ev) >= 1 /\ DOMAIN ev = 1 .. Len(ev)
    BY <1>1, EmptySeq, LenProperties
  <2>2. \A i \in 1 .. (Len(ev) - 1) : ev[i] \in LoopIn
    BY <1>1, <2>1, ElementOfSeq
  <2> QED BY <2>1, <2>2, SubSeqProperties DEF Under, Front
<1>6. e \in Seq(LoopIn)
  <2>1. Append(Under, f) \in Seq(LoopIn) /\ <<f, g>> \in Seq(LoopIn)
    BY <1>2, <1>5, AppendProperties
  <2>2. Under \o <<f, g>> \in Seq(LoopIn)
    BY <1>5, <2>1, ConcatProperties
  <2> QED BY <2>1, <2>2 DEF g
<1>7. \A j \in DOMAIN e : \/ j \in DOMAIN ev /\ e[j] = ev[j]
                          \/ e[j] = f
                          \/ Span(e[j].area.rep) = {}
  <2>1. CASE e = Append(Under, f)
    BY <1>3, <2>1
  <2>2. CASE e = Under \o <<f, g>>
    <3> SUFFICES ASSUME NEW j \in 1 .. (N + 1)
                 PROVE  \/ j \in DOMAIN ev /\ e[j] = ev[j]
                        \/ e[j] = f
                        \/ Span(e[j].area.rep) = {}
      BY <1>3, <2>2
    <3>1. CASE j \in 1 .. (N - 1)
      <4>1. j \in DOMAIN ev /\ e[j] = ev[j]
        BY <1>3, <2>2, <3>1
      <4> QED BY <4>1
    <3>2. CASE j = N
      BY <1>3, <2>2, <3>2
    <3>3. CASE j = N + 1
      <4>1. e[N + 1] = g
        BY <1>3, <2>2
      <4>2. e[j] = g
        BY <3>3, <4>1
      <4> QED BY <1>2, <4>2
    <3>4. N \in Nat
      BY <1>3
    <3>5. j \in 1 .. (N - 1) \/ j = N \/ j = N + 1
      BY <3>4
    <3> QED BY <3>1, <3>2, <3>3, <3>5
  <2> QED BY <2>1, <2>2 DEF g
<1>8. /\ Held(e)
      /\ MovingIn(e) = [MovingIn(ev) EXCEPT ![Len(ev)] = Span(f.area.rep)]
      /\ RestIn(e) = [RestIn(ev) EXCEPT ![Len(ev)] = Span(f.rest.rep)]
  <2>1. Frame(1, k) \in LoopIn
    BY <1>2 DEF g
  <2> QED BY <1>1, <2>1, LoopFamilies
<1> QED BY <1>6, <1>7, <1>8

LEMMA IoTop ==
  ASSUME IoInv, ev # <<>>
  PROVE  /\ Len(ev) \in Nat /\ Len(ev) \in DOMAIN ev /\ Top = ev[Len(ev)]
         /\ Top \in LoopIn /\ FrameHeld(Top)
         /\ MovingIn(ev)[Len(ev)] = Span(Top.area.rep)
         /\ RestIn(ev)[Len(ev)] = Span(Top.rest.rep)
<1>1. ev \in Seq(LoopIn) /\ Held(ev)
  BY DEF IoInv, Shaped
<1>2. /\ Len(ev) \in Nat /\ Len(ev) >= 1 /\ DOMAIN ev = 1 .. Len(ev)
  BY <1>1, EmptySeq, LenProperties
<1>3. Top = ev[Len(ev)] /\ Len(ev) \in DOMAIN ev
  BY <1>2 DEF Top, Last
<1>4. Top \in LoopIn
  BY <1>1, <1>2, <1>3, ElementOfSeq
<1> QED BY <1>1, <1>2, <1>3, <1>4 DEF Held, MovingIn, RestIn

(* What a pop takes off its list: as many blocks as it says, where the     *)
(* area has the blocks it counts or is cut before the last of them.        *)
LEMMA IoPopDoes ==
  ASSUME IoInv, Pop, ~ VictimStale
  PROVE  /\ UNCHANGED <<avail, bits, call, foreign>>
         /\ ev # <<>> /\ Top.area = NoNode /\ Top.src \in Tiers
         /\ Victim \in AreaIn /\ Victim \in Range(pri[Top.src])
         /\ \E f \in LoopIn, k \in Int :
              /\ f.src = Top.src /\ FrameHeld(f) /\ f.rest = f.area
              /\ ev' = Append(Under, f) \/ ev' = Under \o <<f, Frame(1, k)>>
              /\ \/ /\ Span(f.area.rep) = Span(Victim.rep)
                    /\ pri' = PriExtract(pri, Victim)
                    /\ repTree' = repTree \ {Victim}
                 \/ \E kept \in AreaIn :
                      /\ Span(f.area.rep) \union Span(kept.rep) = Span(Victim.rep)
                      /\ Span(f.area.rep) \intersect Span(kept.rep) = {}
                      /\ pri' = PriInsertLow(PriExtract(pri, Victim), Top.src, kept)
                      /\ repTree' = RepInsert(repTree \ {Victim}, kept)
<1> DEFINE t     == Top.src
           v     == Victim
           n     == MIN(Top.want, v.cnt)
           front == Node(v.ori.start, v.rep.start, n)
           taken == IF n = v.cnt THEN v ELSE front
           kept  == [ ori |-> Extent(v.ori.start + n, v.ori.end),
                      rep |-> Extent(v.rep.start + n, v.rep.end),
                      cnt |-> v.rep.end - (v.rep.start + n) + 1 ]
           rest  == PriExtract(pri, v)
           left  == AreaFree(t + 1, taken.cnt)
           top   == [src |-> t, want |-> Top.want - n, area |-> taken, rest |-> taken]
<1>1. /\ pri' = (IF n = v.cnt THEN rest ELSE PriInsertLow(rest, t, kept))
      /\ repTree' = (IF n = v.cnt THEN repTree \ {v} ELSE RepInsert(repTree \ {v}, kept))
      /\ ev' = (IF t = 0 /\ left < 0 THEN Under \o <<top, Frame(1, -left)>>
                                     ELSE Append(Under, top))
  BY DEF Pop
<1>2. /\ UNCHANGED <<avail, bits, call, foreign>>
      /\ ev # <<>> /\ Top.want > 0 /\ pri[t] # <<>> /\ Top.area = NoNode
      /\ v \in repTree /\ (v.cnt = Size(v.rep) \/ ~ (Top.want >= MIN(v.cnt, Size(v.rep))))
  BY DEF Pop, Popping, Evicting, VictimStale, Stale
<1>3. Top \in LoopIn
  BY <1>2, IoTop
<1>4. t \in {0, 1} /\ t \in Tiers /\ t + 1 \in Tiers /\ Top.want \in Int
  BY <1>3 DEF LoopIn, Tiers
<1>5. v \in AreaIn /\ v \in Range(pri[t])
  <2>1. pri[t] \in Seq(AreaIn) /\ pri[t] # <<>>
    BY <1>2, <1>4 DEF IoInv, Shaped
  <2>2. Len(pri[t]) \in 1 .. Len(pri[t])
    BY <2>1, EmptySeq
  <2>3. pri[t][Len(pri[t])] \in AreaIn
    BY <2>1, <2>2, ElementOfSeq
  <2>4. pri[t][Len(pri[t])] \in Range(pri[t])
    BY <2>1, <2>2, LenProperties DEF Range
  <2> QED BY <2>3, <2>4 DEF Victim, Last
<1>6. /\ v.cnt \in Int /\ v.rep.end \in Int /\ v.rep.start \in Int /\ v.rep.start <= v.rep.end
      /\ v.ori.start \in Int /\ v.ori.end \in Int
      /\ \/ v.cnt = v.rep.end - v.rep.start + 1
         \/ Top.want < v.cnt /\ Top.want < v.rep.end - v.rep.start + 1
      /\ Span(v.rep) = v.rep.start .. v.rep.end /\ Span(v.rep) \subseteq Block /\ v \in NodeType
  <2>1. /\ v.cnt \in Int /\ v.rep.end \in Int /\ v.rep.start \in Int /\ v.rep.start <= v.rep.end
        /\ v.ori.start \in Int /\ v.ori.end \in Int
        /\ Span(v.rep) = v.rep.start .. v.rep.end /\ Span(v.rep) \subseteq Block /\ v \in NodeType
    BY <1>5, AreaForm
  <2>2. Size(v.rep) = v.rep.end - v.rep.start + 1
    BY DEF Size
  <2>3. Size(v.rep) \in Int
    BY <2>1, <2>2
  <2>4. v.cnt = Size(v.rep) \/ (Top.want < v.cnt /\ Top.want < Size(v.rep))
    <3>1. CASE v.cnt = Size(v.rep)
      BY <3>1
    <3>2. CASE ~ (Top.want >= MIN(v.cnt, Size(v.rep)))
      <4> DEFINE c == v.cnt
                 s == Size(v.rep)
      <4>1. c \in Int /\ s \in Int /\ Top.want \in Int /\ ~ (Top.want >= MIN(c, s))
        BY <1>4, <2>1, <2>3, <3>2
      <4> HIDE DEF c, s
      <4>2. Top.want < c /\ Top.want < s
        BY <4>1 DEF MIN
      <4> QED BY <4>2 DEF c, s
    <3> QED BY <1>2, <3>1, <3>2
  <2> QED BY <2>1, <2>2, <2>4
<1> HIDE DEF v
<1>7. /\ n \in Int /\ n >= 1 /\ n <= v.rep.end - v.rep.start + 1
      /\ n = v.cnt => v.cnt = v.rep.end - v.rep.start + 1
      /\ n # v.cnt => n <= v.rep.end - v.rep.start
  <2>1. Top.want \in Int /\ v.cnt \in Int /\ Top.want >= 1 /\ v.cnt >= 1
    BY <1>2, <1>4, <1>6
  <2>2. /\ MIN(Top.want, v.cnt) \in Int /\ MIN(Top.want, v.cnt) <= v.cnt
        /\ MIN(Top.want, v.cnt) <= Top.want
        /\ MIN(Top.want, v.cnt) = Top.want \/ MIN(Top.want, v.cnt) = v.cnt
    BY <2>1 DEF MIN
  <2> QED BY <1>6, <2>1, <2>2
<1> HIDE DEF n
<1>8. /\ v.rep.start .. (v.rep.start + n - 1) \subseteq Block
      /\ (v.rep.start .. (v.rep.start + n - 1)) \union ((v.rep.start + n) .. v.rep.end) = Span(v.rep)
      /\ (v.rep.start .. (v.rep.start + n - 1)) \intersect ((v.rep.start + n) .. v.rep.end) = {}
  <2>1. n >= 0 /\ n <= v.rep.end - v.rep.start + 1
    BY <1>7
  <2>2. /\ v.rep.start \in Int /\ v.rep.end \in Int /\ Span(v.rep) = v.rep.start .. v.rep.end
        /\ Span(v.rep) \subseteq Block
    BY <1>6
  <2> QED BY <1>7, <2>1, <2>2, CutInterval
<1>9. /\ front \in AreaIn /\ front \in NodeType
      /\ Span(front.rep) = v.rep.start .. (v.rep.start + n - 1)
      /\ front.cnt = n /\ front.cnt = Size(front.rep)
  <2>1. /\ Node(v.ori.start, v.rep.start, n) \in AreaIn
        /\ Span(Node(v.ori.start, v.rep.start, n).rep) = v.rep.start .. (v.rep.start + n - 1)
    <3>1. v.ori.start \in Int /\ v.rep.start \in Int /\ n \in Int /\ n >= 1
      BY <1>6, <1>7
    <3>2. v.rep.start .. (v.rep.start + n - 1) \subseteq Block
      BY <1>8
    <3> QED BY <3>1, <3>2, NewArea
  <2>2. front.cnt = n /\ front.cnt = Size(front.rep)
    BY <1>6, <1>7 DEF Node, Extent, Size
  <2> QED BY <2>1, <2>2, AreaForm
<1>10. n # v.cnt => kept \in AreaIn /\ Span(kept.rep) = (v.rep.start + n) .. v.rep.end
  <2> SUFFICES ASSUME n # v.cnt
               PROVE  kept \in AreaIn /\ Span(kept.rep) = (v.rep.start + n) .. v.rep.end
    OBVIOUS
  <2>0. n # v.cnt
    OBVIOUS
  <2>1. /\ kept.ori = [start |-> v.ori.start + n, end |-> v.ori.end]
        /\ kept.rep = [start |-> v.rep.start + n, end |-> v.rep.end]
        /\ kept = [ori |-> kept.ori, rep |-> kept.rep, cnt |-> kept.cnt]
        /\ kept.cnt = v.rep.end - (v.rep.start + n) + 1
    BY DEF Extent
  <2> HIDE DEF kept
  <2>2. /\ v.ori.start + n \in Int /\ v.rep.start + n \in Int
        /\ v.rep.end - (v.rep.start + n) + 1 \in Int
        /\ v.rep.start + n <= v.rep.end
    <3>1. v.ori.start \in Int /\ v.rep.start \in Int /\ v.rep.end \in Int
      BY <1>6
    <3>2. n \in Int /\ n <= v.rep.end - v.rep.start
      BY <1>7, <2>0
    <3> QED BY <3>1, <3>2
  <2>3. kept \in NodeType
    BY <1>6, <2>1, <2>2 DEF NodeType
  <2>4. Span(kept.rep) = (v.rep.start + n) .. v.rep.end
    BY <2>1 DEF Span
  <2>5. Span(kept.rep) \subseteq Block
    BY <1>6, <1>8, <2>4
  <2> QED BY <2>1, <2>2, <2>3, <2>4, <2>5 DEF AreaIn, RepIn
<1>11. /\ n = v.cnt => taken = v
       /\ n # v.cnt => taken = front
  OBVIOUS
<1> HIDE DEF front, kept, taken, rest
<1>12. taken \in NodeType /\ taken.cnt \in Int /\ taken.cnt >= 1 /\ taken.cnt = Size(taken.rep)
       /\ Span(taken.rep) \subseteq Block
  <2>1. CASE n = v.cnt
    <3>1. v.cnt = Size(v.rep) /\ v.cnt >= 1
      BY <1>7, <2>1 DEF Size
    <3> QED BY <1>6, <1>11, <2>1, <3>1
  <2>2. CASE n # v.cnt
    BY <1>7, <1>8, <1>9, <1>11, <2>2
  <2> QED BY <2>1, <2>2
<1>13. left \in Int
  BY <1>4, <1>12, AreaFreeType
<1> HIDE DEF left
<1>14. top \in LoopIn /\ top.src = t /\ top.area = taken /\ top.rest = taken /\ FrameHeld(top)
  <2>1. Top.want - n \in Int
    BY <1>4, <1>7
  <2> QED BY <1>4, <1>12, <2>1 DEF LoopIn, FrameHeld
<1> HIDE DEF top
<1>15. /\ -left \in Int
       /\ ev' = Append(Under, top) \/ ev' = Under \o <<top, Frame(1, -left)>>
  BY <1>1, <1>13
<1> DEFINE Whole(f) == Span(f.area.rep) = Span(v.rep) /\ pri' = rest /\ repTree' = repTree \ {v}
           Part(f)  == \E w \in AreaIn :
                         /\ Span(f.area.rep) \union Span(w.rep) = Span(v.rep)
                         /\ Span(f.area.rep) \intersect Span(w.rep) = {}
                         /\ pri' = PriInsertLow(rest, t, w)
                         /\ repTree' = RepInsert(repTree \ {v}, w)
<1>16. Whole(top) \/ Part(top)
  <2>1. CASE n = v.cnt
    BY <1>1, <1>11, <1>14, <2>1
  <2>2. CASE n # v.cnt
    BY <1>1, <1>8, <1>9, <1>10, <1>11, <1>14, <2>2
  <2> QED BY <2>1, <2>2
<1> HIDE DEF Whole, Part
<1>17. \E f \in LoopIn, k \in Int :
         /\ f.src = t /\ FrameHeld(f) /\ f.rest = f.area
         /\ ev' = Append(Under, f) \/ ev' = Under \o <<f, Frame(1, k)>>
         /\ Whole(f) \/ Part(f)
  BY <1>14, <1>15, <1>16
<1> QED BY <1>2, <1>4, <1>5, <1>17 DEF v, rest, Whole, Part

LEMMA IoPop ==
  ASSUME IoInv, Pop, ~ VictimStale, loose => loose', misfiled' = misfiled
  PROVE  IoInv'
<1> DEFINE t == Top.src
           v == Victim
           i == Len(ev)
           L == Lists(pri)
           M == MovingIn(ev)
           R == RestIn(ev)
           q == PriExtract(pri, v)
<1>1. /\ UNCHANGED <<avail, bits, call, foreign>> /\ ev # <<>> /\ Top.area = NoNode
      /\ t \in Tiers /\ v \in AreaIn /\ v \in Range(pri[t])
  BY IoPopDoes
<1>2. PICK f \in LoopIn, k \in Int :
        /\ f.src = t /\ FrameHeld(f) /\ f.rest = f.area
        /\ ev' = Append(Under, f) \/ ev' = Under \o <<f, Frame(1, k)>>
        /\ \/ Span(f.area.rep) = Span(v.rep) /\ pri' = q /\ repTree' = repTree \ {v}
           \/ \E kept \in AreaIn :
                /\ Span(f.area.rep) \union Span(kept.rep) = Span(v.rep)
                /\ Span(f.area.rep) \intersect Span(kept.rep) = {}
                /\ pri' = PriInsertLow(q, t, kept)
                /\ repTree' = RepInsert(repTree \ {v}, kept)
  BY IoPopDoes
<1>3. /\ avail \in [Tiers -> SUBSET Block] /\ L \in Areas3 /\ M \in [Nat -> SUBSET Block]
      /\ R \in [Nat -> SUBSET Block] /\ Partition(avail, L, M)
      /\ pri \in [Tiers -> Seq(AreaIn)] /\ OnceEach(pri)
      /\ \A u \in Tiers : L[u] = Range(pri[u])
      /\ ~ loose => UseMarked(bits, L, R)
  BY IoFamilies DEF IoInv, Shaped
<1>4. i \in Nat /\ i \in DOMAIN ev /\ Top = ev[i] /\ M[i] = {} /\ R[i] = {}
  BY <1>1, IoTop, NoNodeSpan DEF FrameHeld
<1>5. v \in L[t] /\ Span(v.rep) # {} /\ Span(v.rep) \subseteq Block
  BY <1>1, <1>3, AreaForm
<1> DEFINE F == Span(f.area.rep)
           N == [M EXCEPT ![i] = F]
           S == [R EXCEPT ![i] = F]
<1>6. /\ ev' \in Seq(LoopIn) /\ Held(ev') /\ MovingIn(ev') = N /\ RestIn(ev') = S
      /\ \A j \in DOMAIN ev' : \/ j \in DOMAIN ev /\ ev'[j] = ev[j]
                               \/ ev'[j] = f
                               \/ Span(ev'[j].area.rep) = {}
  <2>1. /\ ev # <<>> /\ FrameHeld(f) /\ f.rest = f.area
        /\ ev' = Append(Under, f) \/ ev' = Under \o <<f, Frame(1, k)>>
    BY <1>1, <1>2
  <2>2. /\ ev' \in Seq(LoopIn) /\ Held(ev')
        /\ MovingIn(ev') = [MovingIn(ev) EXCEPT ![Len(ev)] = Span(f.area.rep)]
        /\ RestIn(ev') = [RestIn(ev) EXCEPT ![Len(ev)] = Span(f.rest.rep)]
        /\ \A j \in DOMAIN ev' : \/ j \in DOMAIN ev /\ ev'[j] = ev[j]
                                 \/ ev'[j] = f
                                 \/ Span(ev'[j].area.rep) = {}
    BY <2>1, IoStack
  <2> QED BY <2>1, <2>2
<1> DEFINE X == [u \in Tiers |-> L[u] \ {v}]
<1>7. q \in [Tiers -> Seq(AreaIn)] /\ Lists(q) = X /\ OnceEach(q)
  BY <1>3, ListsWithout
<1>8. \A j \in Nat : S[j] = IF j = i THEN F ELSE R[j]
  BY <1>3
<1>9. \A u \in Tiers : \A m : m \in X[u] <=> m \in L[u] /\ m # v
  OBVIOUS
<1> HIDE DEF t, v, i, L, M, R, q, F, S
<1>10. CallShaped'
  BY <1>1 DEF IoInv, CallShaped, call
<1>11. ASSUME NEW K, pri' \in [Tiers -> Seq(AreaIn)], Lists(pri') = K, OnceEach(pri'),
              Partition(avail, K, N), (repTree \subseteq AllListed)', F \subseteq Span(v.rep),
              \A u \in Tiers : \A m \in K[u] :
                m \in L[u] \/ (u = t /\ Span(m.rep) \subseteq Span(v.rep))
       PROVE  IoInv'
  <2> HIDE DEF X, N
  <2>1. Shaped'
    BY <1>1, <1>3, <1>6, <1>11 DEF Shaped
  <2>2. ~ loose' => UseMarked(bits', K, S)
    <3> SUFFICES ASSUME ~ loose', NEW p \in Block,
                        \/ \E u \in Tiers : \E m \in K[u] : p \in Span(m.rep)
                        \/ \E j \in Nat : p \in S[j]
                 PROVE  p \in bits
      BY <1>1 DEF UseMarked
    <3>1. \/ \E u \in Tiers : \E m \in L[u] : p \in Span(m.rep)
          \/ \E j \in Nat : p \in R[j]
      BY <1>1, <1>5, <1>8, <1>11
    <3> QED BY <1>3, <3>1 DEF UseMarked
  <2>3. ~ misfiled' => Homely(avail, Lists(pri), ev)'
    <3> SUFFICES ASSUME ~ misfiled', NEW u \in Tiers, ~ (u = 0 /\ foreign')
                 PROVE  Keeps(u, avail', K, ev')
      BY <1>11 DEF Homely
    <3>1. Keeps(u, avail, L, ev)
      BY <1>1 DEF IoInv, Homely, L
    <3>2. u = t => Span(v.rep) \subseteq TierBlocks(u)
      BY <1>5, <3>1 DEF Keeps
    <3>3. \A m \in K[u] : Span(m.rep) \subseteq TierBlocks(u)
      BY <1>11, <3>1, <3>2 DEF Keeps
    <3>4. ASSUME NEW j \in DOMAIN ev', ev'[j].src = u
          PROVE  Span(ev'[j].area.rep) \subseteq TierBlocks(u)
      <4>1. CASE j \in DOMAIN ev /\ ev'[j] = ev[j]
        BY <3>1, <3>4, <4>1 DEF Keeps
      <4>2. CASE ev'[j] = f
        BY <1>2, <1>11, <3>2, <3>4, <4>2 DEF F
      <4> QED BY <1>6, <4>1, <4>2
    <3> QED BY <1>1, <3>1, <3>3, <3>4 DEF Keeps
  <2> QED BY <1>1, <1>6, <1>10, <1>11, <2>1, <2>2, <2>3 DEF IoInv
<1>12. CASE Span(f.area.rep) = Span(v.rep) /\ pri' = q /\ repTree' = repTree \ {v}
  <2>1. F = Span(v.rep)
    BY <1>12 DEF F
  <2>2. Partition(avail, X, N)
    BY <1>1, <1>3, <1>4, <1>5, <2>1, ListedToMoving
  <2> HIDE DEF X, N
  <2>3. pri' \in [Tiers -> Seq(AreaIn)] /\ Lists(pri') = X /\ OnceEach(pri')
    BY <1>7, <1>12
  <2>4. (repTree \subseteq AllListed)'
    BY <1>9, <1>12, <2>3, StillListed DEF L
  <2> QED BY <1>9, <1>11, <2>1, <2>2, <2>3, <2>4
<1>13. ASSUME NEW w \in AreaIn, F \union Span(w.rep) = Span(v.rep),
              F \intersect Span(w.rep) = {},
              pri' = PriInsertLow(q, t, w), repTree' = RepInsert(repTree \ {v}, w)
       PROVE  IoInv'
  <2>1. Span(w.rep) # {}
    BY AreaForm
  <2> DEFINE K == [X EXCEPT ![t] = @ \union {w}]
  <2>2. Partition(avail, K, N)
    BY <1>1, <1>3, <1>4, <1>5, <1>13, <2>1, ListedToMovingPart
  <2>3. \A m \in Lists(q)[t], p \in Block : ~ (p \in Span(m.rep) /\ p \in Span(w.rep))
    BY <1>1, <1>3, <1>5, <1>7, <1>9, <1>13 DEF Partition, ListedOnce
  <2>4. pri' \in [Tiers -> Seq(AreaIn)] /\ Lists(pri') = K /\ OnceEach(pri')
    <3>1. /\ PriInsertLow(q, t, w) \in [Tiers -> Seq(AreaIn)]
          /\ Lists(PriInsertLow(q, t, w)) = [Lists(q) EXCEPT ![t] = @ \union {w}]
          /\ OnceEach(PriInsertLow(q, t, w))
      <4> HIDE DEF X, N, K
      <4>1. q \in [Tiers -> Seq(AreaIn)] /\ OnceEach(q) /\ t \in Tiers
        BY <1>1, <1>7
      <4> QED BY <2>3, <4>1, AreaListsWith
    <3> QED BY <1>7, <1>13, <3>1
  <2>5. \A u \in Tiers : \A m : m \in K[u] <=> (m \in L[u] /\ m # v) \/ (u = t /\ m = w)
    BY <1>9
  <2> HIDE DEF X, N, K
  <2>6. F \subseteq Span(v.rep) /\ Span(w.rep) \subseteq Span(v.rep)
    BY <1>13
  <2>7. (repTree \subseteq AllListed)'
    <3>1. repTree' \subseteq repTree \union {w} /\ (v \in repTree' => v = w)
      BY <1>13 DEF RepInsert
    <3> QED BY <1>1, <2>4, <2>5, <3>1, StillListed DEF L
  <2> QED BY <1>11, <2>2, <2>4, <2>5, <2>6, <2>7
<1> QED BY <1>2, <1>12, <1>13 DEF F

(* What a placing step does.                                               *)
LEMMA IoPlaceDoes ==
  ASSUME IoInv, Place
  PROVE  /\ UNCHANGED <<call, foreign>>
         /\ ev # <<>> /\ Top.src \in Tiers /\ Top.src + 1 \in Tiers
         /\ \E dst \in AreaIn, f \in LoopIn, C \in SUBSET Span(Top.rest.rep) :
              /\ Span(dst.rep) \subseteq avail[Top.src + 1]
              /\ bits' = (bits \union Span(dst.rep)) \ C
              /\ pri' = PriInsert(pri, Top.src + 1, dst)
              /\ repTree' = RepInsert(repTree, dst)
              /\ ev' = Append(Under, f) /\ f.src = Top.src /\ FrameHeld(f)
              /\ Span(f.rest.rep) = Span(Top.rest.rep) \ C
              /\ LET a == AvailExtract(avail, Top.src + 1, dst.rep)
                 IN  \/ /\ avail' = AvailInsert(a, Top.src, Top.area.rep)
                        /\ f.area = NoNode
                     \/ avail' = a /\ f.area = Top.area
<1>1. PICK x \in FirstFit(avail[Top.src + 1], Top.rest.cnt) :
        LET t   == Top.src
            s   == Top.rest
            n   == MIN(s.cnt, Size(x))
            dst == Node(s.ori.start, x.start, n)
            top == [ori |-> Extent(s.ori.start + n, s.ori.end),
                    rep |-> Extent(s.rep.start + n, s.rep.end),
                    cnt |-> s.cnt - n]
            a   == AvailExtract(avail, t + 1, dst.rep)
        IN  /\ bits' = (bits \union Span(dst.rep))
                         \ (s.rep.start .. (s.rep.start + n - 1))
            /\ pri' = PriInsert(pri, t + 1, dst)
            /\ repTree' = RepInsert(repTree, dst)
            /\ IF n = s.cnt
               THEN /\ avail' = AvailInsert(a, t, Top.area.rep)
                    /\ ev' = Append(Under, Frame(t, Top.want))
               ELSE /\ avail' = a
                    /\ ev' = Append(Under, [Top EXCEPT !.rest = top])
  BY DEF Place
<1> DEFINE t   == Top.src
           s   == Top.rest
           n   == MIN(s.cnt, Size(x))
           dst == Node(s.ori.start, x.start, n)
           top == [ori |-> Extent(s.ori.start + n, s.ori.end),
                   rep |-> Extent(s.rep.start + n, s.rep.end),
                   cnt |-> s.cnt - n]
           a   == AvailExtract(avail, t + 1, dst.rep)
           C   == s.rep.start .. (s.rep.start + n - 1)
           f   == IF n = s.cnt THEN Frame(t, Top.want) ELSE [Top EXCEPT !.rest = top]
<1>2. UNCHANGED <<call, foreign>> /\ ev # <<>> /\ Top.area # NoNode
  BY DEF Place, Placing, Evicting
<1>3. Top \in LoopIn /\ FrameHeld(Top)
  BY <1>2, IoTop
<1>4. /\ t \in {0, 1} /\ t \in Tiers /\ t + 1 \in Tiers /\ Top.want \in Int
      /\ s \in NodeType /\ s.cnt = Size(s.rep) /\ s.cnt >= 1
      /\ Span(s.rep) \subseteq Span(Top.area.rep) /\ Span(Top.area.rep) \subseteq Block
  BY <1>2, <1>3 DEF LoopIn, FrameHeld, Tiers
<1>5. avail[t + 1] \subseteq Block
  BY <1>4 DEF IoInv, Shaped
<1> HIDE DEF s
<1>6. /\ s.cnt \in Int /\ s.ori.start \in Int /\ s.ori.end \in Int
      /\ s.rep.start \in Int /\ s.rep.end \in Int
      /\ s.cnt = s.rep.end - s.rep.start + 1 /\ Span(s.rep) = s.rep.start .. s.rep.end
  BY <1>4 DEF NodeType, Size, Span
<1>7. /\ x.start \in Int /\ n \in Int /\ n <= s.cnt /\ n >= 1
      /\ x.start .. (x.start + n - 1) \subseteq avail[t + 1]
  <2>1. x \in FirstFit(avail[t + 1], s.cnt)
    BY DEF s
  <2> QED BY <1>4, <1>5, <1>6, <2>1, FitType
<1> HIDE DEF n
<1>8. dst \in AreaIn /\ Span(dst.rep) = x.start .. (x.start + n - 1)
  <2>1. s.ori.start \in Int /\ x.start \in Int /\ n \in Int /\ n >= 1
    BY <1>6, <1>7
  <2>2. x.start .. (x.start + n - 1) \subseteq Block
    BY <1>5, <1>7
  <2>3. /\ Node(s.ori.start, x.start, n) \in AreaIn
        /\ Span(Node(s.ori.start, x.start, n).rep) = x.start .. (x.start + n - 1)
    BY <2>1, <2>2, NewArea
  <2> QED BY <2>3
<1> HIDE DEF dst
<1>9. C \subseteq Span(s.rep) /\ Span(s.rep) \ C = (s.rep.start + n) .. s.rep.end
  <2>1. /\ s.rep.start \in Int /\ s.rep.end \in Int /\ n \in Int /\ n >= 0
        /\ n <= s.rep.end - s.rep.start + 1 /\ Span(s.rep) = s.rep.start .. s.rep.end
    BY <1>6, <1>7
  <2>2. /\ (s.rep.start .. (s.rep.start + n - 1)) \union ((s.rep.start + n) .. s.rep.end)
             = s.rep.start .. s.rep.end
        /\ (s.rep.start .. s.rep.end) \ (s.rep.start .. (s.rep.start + n - 1))
             = (s.rep.start + n) .. s.rep.end
    BY <2>1, CutInterval
  <2> QED BY <2>1, <2>2
<1>10. /\ top.cnt = s.cnt - n /\ top.cnt = Size(top.rep) /\ top \in NodeType
       /\ Span(top.rep) = (s.rep.start + n) .. s.rep.end
  <2>1. /\ top.ori = [start |-> s.ori.start + n, end |-> s.ori.end]
        /\ top.rep = [start |-> s.rep.start + n, end |-> s.rep.end]
        /\ top = [ori |-> top.ori, rep |-> top.rep, cnt |-> top.cnt]
        /\ top.cnt = s.cnt - n
    BY DEF Extent
  <2> HIDE DEF top
  <2>2. /\ s.ori.start + n \in Int /\ s.rep.start + n \in Int /\ s.cnt - n \in Int
        /\ s.cnt - n = s.rep.end - (s.rep.start + n) + 1
    BY <1>6, <1>7
  <2>3. top \in NodeType
    BY <1>6, <2>1, <2>2 DEF NodeType
  <2> QED BY <2>1, <2>2, <2>3 DEF Size, Span
<1> HIDE DEF top, C
<1>11. /\ bits' = (bits \union Span(dst.rep)) \ C
       /\ pri' = PriInsert(pri, t + 1, dst) /\ repTree' = RepInsert(repTree, dst)
       /\ ev' = Append(Under, f)
       /\ n = s.cnt => avail' = AvailInsert(a, t, Top.area.rep)
       /\ n # s.cnt => avail' = a
  BY <1>1 DEF s, n, dst, top, C
<1>12. /\ f \in LoopIn /\ f.src = t /\ FrameHeld(f) /\ Span(f.rest.rep) = Span(s.rep) \ C
       /\ n = s.cnt => f.area = NoNode
       /\ n # s.cnt => f.area = Top.area
  <2>1. CASE n = s.cnt
    <3>1. f = Frame(t, Top.want)
      BY <2>1
    <3>2. f \in LoopIn /\ f.area = NoNode /\ f.rest = NoNode /\ f.src = t
      <4>1. /\ Frame(t, Top.want) \in LoopIn /\ Frame(t, Top.want).area = NoNode
            /\ Frame(t, Top.want).rest = NoNode
            /\ Span(NoNode.rep) = {} /\ NoNode \in NodeType
        BY <1>4, LoopFrame
      <4> QED BY <3>1, <4>1 DEF Frame
    <3>3. Span(s.rep) \ C = {}
      BY <1>6, <1>9, <2>1
    <3> HIDE DEF f
    <3> QED BY <2>1, <3>2, <3>3, NoNodeSpan DEF FrameHeld
  <2>2. CASE n # s.cnt
    <3>1. f = [Top EXCEPT !.rest = top]
      BY <2>2
    <3>2. f \in LoopIn /\ f.area = Top.area /\ f.rest = top /\ f.src = t
      BY <1>3, <1>10, <3>1 DEF LoopIn
    <3>3. top.cnt >= 1
      BY <1>6, <1>7, <1>10, <2>2
    <3>4. Span(top.rep) = Span(s.rep) \ C
      BY <1>9, <1>10
    <3>5. FrameHeld(f)
      <4>1. Span(f.rest.rep) \subseteq Span(f.area.rep)
        BY <1>4, <3>2, <3>4
      <4> QED BY <1>2, <3>2, <3>3, <4>1 DEF FrameHeld
    <3> HIDE DEF f
    <3> QED BY <2>2, <3>2, <3>4, <3>5
  <2> QED BY <2>1, <2>2
<1> HIDE DEF f
<1> DEFINE Q(d, g, D) ==
             /\ Span(d.rep) \subseteq avail[t + 1]
             /\ bits' = (bits \union Span(d.rep)) \ D
             /\ pri' = PriInsert(pri, t + 1, d)
             /\ repTree' = RepInsert(repTree, d)
             /\ ev' = Append(Under, g) /\ g.src = t /\ FrameHeld(g)
             /\ Span(g.rest.rep) = Span(s.rep) \ D
             /\ LET c == AvailExtract(avail, t + 1, d.rep)
                IN  \/ /\ avail' = AvailInsert(c, t, Top.area.rep)
                       /\ g.area = NoNode
                    \/ avail' = c /\ g.area = Top.area
<1>13. Q(dst, f, C)
  BY <1>7, <1>8, <1>11, <1>12
<1> HIDE DEF Q
<1>14. \E d \in AreaIn, g \in LoopIn, D \in SUBSET Span(s.rep) : Q(d, g, D)
  BY <1>8, <1>9, <1>12, <1>13
<1> QED BY <1>2, <1>4, <1>14, Zenon DEF Q, s

LEMMA IoPlace ==
  ASSUME IoInv, Place, loose => loose', misfiled' = misfiled
  PROVE  IoInv'
<1> DEFINE t == Top.src
           s == Top.rest
           i == Len(ev)
           L == Lists(pri)
           M == MovingIn(ev)
           R == RestIn(ev)
<1>1. UNCHANGED <<call, foreign>> /\ ev # <<>> /\ t \in Tiers /\ t + 1 \in Tiers
  BY IoPlaceDoes
<1>2. PICK dst \in AreaIn, f \in LoopIn, C \in SUBSET Span(s.rep) :
        /\ Span(dst.rep) \subseteq avail[t + 1]
        /\ bits' = (bits \union Span(dst.rep)) \ C
        /\ pri' = PriInsert(pri, t + 1, dst)
        /\ repTree' = RepInsert(repTree, dst)
        /\ ev' = Append(Under, f) /\ f.src = t /\ FrameHeld(f)
        /\ Span(f.rest.rep) = Span(s.rep) \ C
        /\ LET a == AvailExtract(avail, t + 1, dst.rep)
           IN  \/ /\ avail' = AvailInsert(a, t, Top.area.rep)
                  /\ f.area = NoNode
               \/ avail' = a /\ f.area = Top.area
  BY IoPlaceDoes
<1>3. /\ L \in Areas3 /\ M \in [Nat -> SUBSET Block] /\ R \in [Nat -> SUBSET Block]
      /\ \A j \in Nat : R[j] \subseteq M[j]
      /\ Partition(avail, L, M)
      /\ ~ loose => UseMarked(bits, L, R)
  BY IoFamilies DEF IoInv
<1>4. /\ i \in Nat /\ i \in DOMAIN ev /\ Top = ev[i]
      /\ M[i] = Span(Top.area.rep) /\ R[i] = Span(s.rep)
  BY <1>1, IoTop
<1> DEFINE K == [L EXCEPT ![t + 1] = @ \union {dst}]
           a == AvailExtract(avail, t + 1, dst.rep)
<1>5. /\ pri' \in [Tiers -> Seq(AreaIn)] /\ Lists(pri') = K /\ OnceEach(pri')
      /\ K \in Areas3 /\ a \in [Tiers -> SUBSET Block] /\ Partition(a, K, M)
      /\ \A v \in Tiers : a[v] \subseteq avail[v]
      /\ \A v \in Tiers : \A m : m \in K[v] <=> m \in L[v] \/ (v = t + 1 /\ m = dst)
  BY <1>1, <1>2, IoMapFree
<1>6. \/ avail' = AvailInsert(a, t, Top.area.rep) /\ f.area = NoNode
      \/ avail' = a /\ f.area = Top.area
  BY <1>2
<1> HIDE DEF K, L, M, R, a
<1> DEFINE N == [M EXCEPT ![i] = Span(f.area.rep)]
           S == [R EXCEPT ![i] = Span(f.rest.rep)]
<1>7. /\ ev' \in Seq(LoopIn) /\ Held(ev') /\ MovingIn(ev') = N /\ RestIn(ev') = S
      /\ \A j \in DOMAIN ev' : \/ j \in DOMAIN ev /\ ev'[j] = ev[j]
                               \/ ev'[j] = f
                               \/ Span(ev'[j].area.rep) = {}
  <2>1. /\ ev # <<>> /\ FrameHeld(f) /\ 0 \in Int
        /\ ev' = Append(Under, f) \/ ev' = Under \o <<f, Frame(1, 0)>>
    BY <1>1, <1>2
  <2>2. /\ ev' \in Seq(LoopIn) /\ Held(ev')
        /\ MovingIn(ev') = [MovingIn(ev) EXCEPT ![Len(ev)] = Span(f.area.rep)]
        /\ RestIn(ev') = [RestIn(ev) EXCEPT ![Len(ev)] = Span(f.rest.rep)]
        /\ \A j \in DOMAIN ev' : \/ j \in DOMAIN ev /\ ev'[j] = ev[j]
                                 \/ ev'[j] = f
                                 \/ Span(ev'[j].area.rep) = {}
    BY <2>1, IoStack
  <2> QED BY <2>2 DEF M, R
<1>8. /\ Partition(avail', K, N) /\ avail' \in [Tiers -> SUBSET Block]
      /\ \A v \in Tiers : \A p \in avail'[v] : p \in avail[v] \/ (v = t /\ p \in M[i])
  <2>1. CASE avail' = AvailInsert(a, t, Top.area.rep) /\ f.area = NoNode
    <3>1. Span(Top.area.rep) \intersect a[t] = {}
      BY <1>1, <1>3, <1>4, <1>5 DEF Partition, FreeOrMoving
    <3>2. avail' = [a EXCEPT ![t] = @ \union M[i]]
      BY <1>4, <2>1, <3>1 DEF AvailInsert
    <3>3. N = [M EXCEPT ![i] = {}]
      BY <2>1, NoNodeSpan
    <3>4. M[i] \subseteq Block
      BY <1>3, <1>4
    <3> HIDE DEF N, t, i
    <3>5. Partition([a EXCEPT ![t] = @ \union M[i]], K, [M EXCEPT ![i] = {}])
      BY <1>1, <1>3, <1>4, <1>5, MovingToFree
    <3>6. \A v \in Tiers : avail'[v] = IF v = t THEN a[t] \union M[i] ELSE a[v]
      BY <1>5, <3>2
    <3>7. avail' \in [Tiers -> SUBSET Block]
      BY <1>1, <1>5, <3>2, <3>4
    <3> QED BY <1>5, <3>2, <3>3, <3>5, <3>6, <3>7
  <2>2. CASE avail' = a /\ f.area = Top.area
    <3>1. N = M
      BY <1>3, <1>4, <2>2
    <3> QED BY <1>5, <2>2, <3>1
  <2> QED BY <1>6, <2>1, <2>2
<1>9. (repTree \subseteq AllListed)'
  <2>1. repTree' \subseteq repTree \union {dst}
    BY <1>2 DEF RepInsert
  <2>2. dst \in K[t + 1] /\ \A v \in Tiers : \A m \in L[v] : m \in K[v]
    BY <1>1, <1>5
  <2> HIDE DEF t
  <2> QED BY <1>1, <1>5, <2>1, <2>2, StillListed DEF L
<1>10. Shaped'
  BY <1>5, <1>7, <1>8, <1>9 DEF Shaped
<1>11. CallShaped'
  BY <1>1 DEF IoInv, CallShaped, call
<1>12. ~ loose' => UseMarked(bits', K, S)
  <2>1. \A j \in Nat : S[j] = IF j = i THEN R[i] \ C ELSE R[j]
    BY <1>2, <1>3, <1>4
  <2>2. bits' = (bits \union Span(dst.rep)) \ C /\ C \subseteq R[i] /\ R[i] \subseteq M[i]
    BY <1>2, <1>3, <1>4
  <2> HIDE DEF S, t, s, i
  <2> SUFFICES ASSUME ~ loose', NEW p \in Block,
                      \/ \E u \in Tiers : \E m \in K[u] : p \in Span(m.rep)
                      \/ \E j \in Nat : p \in S[j]
               PROVE  p \in bits'
    BY DEF UseMarked
  <2>3. UseMarked(bits, L, R)
    BY <1>3
  <2>4. CASE \E u \in Tiers : \E m \in K[u] : p \in Span(m.rep)
    <3>1. PICK u \in Tiers : \E m \in K[u] : p \in Span(m.rep)
      BY <2>4
    <3>2. PICK m \in K[u] : p \in Span(m.rep)
      BY <3>1
    <3>3. p \notin M[i]
      BY <1>4, <1>5, <3>2 DEF Partition, ListedOrMoving
    <3>4. p \notin C
      BY <2>2, <3>3
    <3>5. p \in bits \union Span(dst.rep)
      <4>1. CASE m \in L[u]
        BY <2>3, <3>2, <4>1 DEF UseMarked
      <4>2. CASE m = dst
        BY <3>2, <4>2
      <4> QED BY <1>5, <3>2, <4>1, <4>2
    <3> QED BY <2>2, <3>4, <3>5
  <2>5. CASE \E j \in Nat : p \in S[j]
    <3>1. PICK j \in Nat : p \in S[j]
      BY <2>5
    <3>2. p \in R[j] /\ p \notin C
      <4>1. CASE j = i
        BY <2>1, <3>1, <4>1
      <4>2. CASE j # i
        <5>1. p \in R[j] /\ p \in M[j]
          BY <1>3, <2>1, <3>1, <4>2
        <5>2. p \notin M[i]
          BY <1>3, <1>4, <4>2, <5>1 DEF Partition, MovingOnce
        <5> QED BY <2>2, <5>1, <5>2
      <4> QED BY <4>1, <4>2
    <3>3. p \in bits
      BY <2>3, <3>2 DEF UseMarked
    <3> QED BY <2>2, <3>2, <3>3
  <2> QED BY <2>4, <2>5
<1>13. ~ misfiled' => Homely(avail, Lists(pri), ev)'
  <2> SUFFICES ASSUME ~ misfiled', NEW u \in Tiers, ~ (u = 0 /\ foreign')
               PROVE  Keeps(u, avail', K, ev')
    BY <1>5 DEF Homely
  <2>1. Keeps(u, avail, L, ev)
    BY <1>1 DEF IoInv, Homely, L
  <2>2. u = t => Span(Top.area.rep) \subseteq TierBlocks(u)
    BY <1>4, <2>1 DEF Keeps
  <2>3. avail'[u] \subseteq TierBlocks(u)
    BY <1>4, <1>8, <2>1, <2>2 DEF Keeps
  <2>4. \A m \in K[u] : Span(m.rep) \subseteq TierBlocks(u)
    BY <1>2, <1>5, <2>1 DEF Keeps
  <2>5. Span(f.area.rep) \subseteq Span(Top.area.rep)
    BY <1>6, NoNodeSpan
  <2>6. ASSUME NEW j \in DOMAIN ev', ev'[j].src = u
        PROVE  Span(ev'[j].area.rep) \subseteq TierBlocks(u)
    <3>1. CASE j \in DOMAIN ev /\ ev'[j] = ev[j]
      BY <2>1, <2>6, <3>1 DEF Keeps
    <3>2. CASE ev'[j] = f
      BY <1>2, <2>2, <2>5, <2>6, <3>2
    <3> QED BY <1>7, <3>1, <3>2
  <2> QED BY <2>3, <2>4, <2>6 DEF Keeps
<1> QED BY <1>5, <1>7, <1>8, <1>10, <1>11, <1>12, <1>13 DEF IoInv

-----------------------------------------------------------------------------
LEMMA NextIoInv == IoInv /\ [INext]_ivars => IoInv'
<1> SUFFICES ASSUME IoInv, [INext]_ivars PROVE IoInv'
  OBVIOUS
<1>1. ASSUME UNCHANGED <<space, call, ev>>, foreign => foreign', loose => loose',
             misfiled => misfiled'
      PROVE  IoInv'
  <2>1. CallShaped'
    BY <1>1 DEF IoInv, CallShaped, call
  <2> QED BY <1>1, <2>1, IoQuiet
<1>2. CASE BlockAreaStep
  <2>1. /\ ~ VictimStale /\ Next /\ misfiled' = misfiled /\ (loose => loose')
        /\ loose' = (loose \/ (pc = "delete" /\ \E n \in repTree : Stale(n) /\ n \notin repTree'))
    BY <1>2 DEF BlockAreaStep
  <2>2. CASE \/ Submit \/ Discard \/ Delete \/ Inserted \/ Issue \/ Issued \/ Deleted
             \/ Fail \/ Halted
    BY <2>1, <2>2, IoCalls
  <2>3. CASE MakeRoom \/ Evict \/ Evicted
    BY <2>1, <2>3, IoLoops
  <2>4. CASE Alloc
    BY <2>1, <2>4, IoAlloc
  <2>5. CASE Touch
    BY <2>1, <2>5, IoTouch
  <2>6. CASE DeleteArea
    BY <2>1, <2>6, IoDeleteArea
  <2>7. CASE Pop
    BY <2>1, <2>7, IoPop
  <2>8. CASE Place
    BY <2>1, <2>8, IoPlace
  <2> QED BY <2>1, <2>2, <2>3, <2>4, <2>5, <2>6, <2>7, <2>8 DEF Next, Step
<1>3. CASE InsertFree
  BY <1>3, IoInsertFree
<1>4. CASE InsertMapped
  BY <1>4, IoInsertMapped
<1>5. CASE CopyArea
  BY <1>1, <1>5 DEF CopyArea
<1>6. CASE InsertBeyond \/ InsertNull \/ InsertRoot \/ PopStale \/ AllocNone
  BY <1>1, <1>6 DEF InsertBeyond, InsertNull, InsertRoot, PopStale, AllocNone, Stops, Stop
<1>7. CASE UNCHANGED ivars
  BY <1>1, <1>7 DEF ivars, vars
<1> QED BY <1>2, <1>3, <1>4, <1>5, <1>6, <1>7 DEF INext

LEMMA IoInvariant == ISpec => []IoInv
BY InitIoInv, NextIoInv, PTL DEF ISpec

(* The counter that hypraid_is_area_bitmap_free reads never promises more  *)
(* than the free extents of the group hold, whatever INSERT_AREA marked,   *)
(* until an area with a stale count is given up or one is filed with a     *)
(* wrong group.                                                            *)
THEOREM InsertKeepsCountersCautious == ISpec => []CountersCautious
<1>1. ASSUME IoInv, ev = <<>>, ~ loose, ~ misfiled, NEW t \in Tiers, t = 0 \/ ~ foreign
      PROVE  AreaFree(t, 0) <= Cardinality(avail[t])
  <2> DEFINE clear == TierBlocks(t) \ bits
  <2>1. /\ TierBlocks(t) \subseteq Block /\ AreaBlocks[t] \in Nat
        /\ IsFiniteSet(TierBlocks(t)) /\ Cardinality(TierBlocks(t)) = AreaBlocks[t]
    BY Sizes, Geometry
  <2>2. Cardinality(clear) = AreaBlocks[t] - Cardinality(TierBlocks(t) \intersect bits)
    BY <2>1, FS_Difference
  <2>3. Cardinality(TierBlocks(t) \intersect bits) = Cardinality(bits \intersect TierBlocks(t))
    <3>1. TierBlocks(t) \intersect bits = bits \intersect TierBlocks(t)
      OBVIOUS
    <3> QED BY <3>1, Zenon
  <2>4. Cardinality(bits \intersect TierBlocks(t)) \in Nat
    BY <2>1, BlockSets
  <2>5. AreaFree(t, 0) = Cardinality(clear)
    <3> HIDE DEF clear
    <3> QED BY <2>1, <2>2, <2>3, <2>4 DEF AreaFree
  <2>6. avail[t] \subseteq Block
    BY <1>1 DEF IoInv, Shaped
  <2>7. clear \subseteq avail[t]
    <3> SUFFICES ASSUME NEW p \in TierBlocks(t), p \notin bits PROVE p \in avail[t]
      OBVIOUS
    <3>1. p \in Block
      BY <2>1
    <3>2. /\ Covered(avail, Lists(pri), MovingIn(ev)) /\ UseMarked(bits, Lists(pri), RestIn(ev))
          /\ \A i \in Nat : MovingIn(ev)[i] = {}
      BY <1>1, NoLoops DEF IoInv, Partition
    <3>3. PICK u \in Tiers : p \in avail[u]
      BY <3>1, <3>2 DEF Covered, UseMarked
    <3>4. u = t
      <4>1. CASE u = 0 /\ foreign
        BY <1>1, <4>1
      <4>2. CASE ~ (u = 0 /\ foreign)
        <5>1. avail[u] \subseteq TierBlocks(u)
          BY <1>1, <4>2 DEF IoInv, Homely, Keeps
        <5> QED BY <3>1, <3>3, <5>1, OneGroup
      <4> QED BY <4>1, <4>2
    <3> QED BY <3>3, <3>4
  <2> HIDE DEF clear
  <2> QED BY <2>5, <2>6, <2>7, BlockSets
<1>2. IoInv => CountersCautious
  BY <1>1 DEF CountersCautious
<1> QED BY IoInvariant, <1>2, PTL

(* TRANSFORM_BLOCK finds, for the physical blocks that it names for a      *)
(* logical one, the area they were named from or none, as no other has     *)
(* them; and not none, as long as the group they are in lists the area.    *)
THEOREM TransformUndoesItself == ISpec => []TransformInverts
<1>1. ASSUME IoInv, NEW l \in Block, NEW p \in Span(TransformBlock(0, l)) \intersect Block
      PROVE  /\ TransformBlock(1, p) = NoExtent \/ l \in Span(TransformBlock(1, p))
             /\ ~ foreign /\ ~ misfiled => TransformBlock(1, p) # NoExtent
  <2>1. At(l) # {}
    <3> SUFFICES ASSUME At(l) = {} PROVE FALSE
      OBVIOUS
    <3>1. TransformBlock(0, l) = NoExtent
      BY DEF TransformBlock
    <3>2. NoExtent.start = -1 /\ NoExtent.end = -1
      BY DEF NoExtent, Extent
    <3>3. p = -1
      BY <3>1, <3>2 DEF Span
    <3>4. p \in Nat
      BY Geometry
    <3> QED BY <3>3, <3>4
  <2> DEFINE n == CHOOSE n \in At(l) : TRUE
  <2>2. n \in At(l) /\ TransformBlock(0, l) = n.rep
    BY <2>1 DEF TransformBlock
  <2> HIDE DEF n
  <2>3. n \in repTree /\ l \in Span(n.ori) /\ p \in Span(n.rep) /\ p \in Block
    BY <2>2 DEF At
  <2>4. PICK t \in Tiers : n \in Lists(pri)[t]
    BY <1>1, <2>3, IoFamilies
  <2> DEFINE found == { m \in Listed(Group(p)) : p \in Span(m.rep) }
  <2>5. Group(p) \in Tiers
    BY <2>3, GroupOf
  <2>6. \A u \in Tiers : Listed(u) = Lists(pri)[u]
    BY DEF Listed, Lists
  <2>7. \A m \in found : m = n
    <3> SUFFICES ASSUME NEW m \in Lists(pri)[Group(p)], p \in Span(m.rep) PROVE m = n
      BY <2>5, <2>6
    <3> QED BY <1>1, <2>3, <2>4, <2>5 DEF IoInv, Partition, ListedOnce
  <2>8. TransformBlock(1, p) = IF found = {} THEN NoExtent ELSE n.ori
    <3>1. CASE found = {}
      BY <3>1 DEF TransformBlock
    <3>2. CASE found # {}
      <4>1. found = {n}
        BY <2>7, <3>2
      <4> QED BY <4>1 DEF TransformBlock
    <3> QED BY <3>1, <3>2
  <2>9. n.ori # NoExtent
    <3>1. NoExtent.start = -1 /\ NoExtent.end = -1
      BY DEF NoExtent, Extent
    <3>2. l \in Nat
      BY Geometry
    <3> QED BY <2>3, <3>1, <3>2 DEF Span
  <2>10. ~ foreign /\ ~ misfiled => found # {}
    <3> HAVE ~ foreign /\ ~ misfiled
    <3>1. Keeps(t, avail, Lists(pri), ev)
      BY <1>1 DEF IoInv, Homely
    <3>2. Group(p) = t
      BY <2>3, <2>4, <3>1, GroupOf DEF Keeps
    <3> QED BY <2>3, <2>4, <2>6, <3>2
  <2> QED BY <2>3, <2>8, <2>9, <2>10
<1>2. IoInv => TransformInverts
  BY <1>1 DEF TransformInverts
<1> QED BY IoInvariant, <1>2, PTL
=============================================================================
