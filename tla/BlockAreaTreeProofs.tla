------------------------ MODULE BlockAreaTreeProofs ------------------------
(***************************************************************************)
(* The logical side of the block area manager: where g_rep_area_tree and   *)
(* the replacement loops have a logical block (AimedRightIfClean,          *)
(* NullAreaWasRefused), which areas are popped and which stay              *)
(* (VictimInTree, JustUsedStays), and for clients that do not overlap each *)
(* other's extents in part, that the manager is a storage map (Coherent,   *)
(* DeleteWithinRange, StorageSpec) and does not stop their bios            *)
(* (BioSafeAtHome).                                                        *)
(***************************************************************************)
EXTENDS BlockAreaProofs

(* The loops as the family of the parts they have not copied yet.          *)
NodesIn(e) == [i \in Nat |-> IF i \in DOMAIN e THEN e[i].rest ELSE NoNode]

TreeOnce(R) ==
  \A l \in Block : \A m, n \in R : l \in Span(m.ori) /\ l \in Span(n.ori) => m = n

RestOnce(F) ==
  \A l \in Block : \A i, j \in Nat : l \in Span(F[i].ori) /\ l \in Span(F[j].ori) => i = j

TreeOrRest(R, F) ==
  \A l \in Block : \A n \in R, i \in Nat : ~ (l \in Span(n.ori) /\ l \in Span(F[i].ori))

Once(R, F) == TreeOnce(R) /\ RestOnce(F) /\ TreeOrRest(R, F)

TreeInv == SpaceInv /\ Once(repTree, NodesIn(ev))

(* Logical block l is in an area of the tree, or in one being moved, and   *)
(* that has it at p.                                                       *)
Mapped(R, F, l) == \/ \E n \in R : l \in Span(n.ori)
                   \/ \E i \in Nat : l \in Span(F[i].ori)

Maps(R, F, l, p) == \/ \E n \in R : l \in Span(n.ori) /\ p = Where(n, l)
                    \/ \E i \in Nat : l \in Span(F[i].ori) /\ p = Where(F[i], l)

(* Every logical block is mapped as before, or those of dst where dst has  *)
(* them and the others as before.                                          *)
SameMap(R, F, R2, F2) ==
  \A l \in Block : /\ Mapped(R2, F2, l) <=> Mapped(R, F, l)
                   /\ \A p : Maps(R2, F2, l, p) <=> Maps(R, F, l, p)

MovedMap(R, F, R2, F2, dst) ==
  \A l \in Block :
    /\ Mapped(R2, F2, l) <=> Mapped(R, F, l)
    /\ \A p : Maps(R2, F2, l, p) <=> IF l \in Span(dst.ori) THEN p = Where(dst, l)
                                                            ELSE Maps(R, F, l, p)

-----------------------------------------------------------------------------
(* The first n blocks of an area, and the others.                          *)
Lead(v, n) == Node(v.ori.start, v.rep.start, n)

Rear(v, n) == Node(v.ori.start + n, v.rep.start + n, v.cnt - n)

(* What a loop has left of s when n blocks of it are placed.               *)
Remains(s, n) == IF n = s.cnt THEN NoNode ELSE Rear(s, n)

(* What an area is.                                                        *)
LEMMA NodeForm ==
  ASSUME NEW v \in NodeIn
  PROVE  /\ v.ori.start \in Int /\ v.ori.end \in Int /\ v.rep.start \in Int
         /\ v.rep.end \in Int /\ v.cnt \in Int
         /\ v.ori.end = v.ori.start + v.cnt - 1 /\ v.rep.end = v.rep.start + v.cnt - 1
         /\ Span(v.ori) = v.ori.start .. (v.ori.start + v.cnt - 1)
         /\ Span(v.rep) = v.rep.start .. (v.rep.start + v.cnt - 1)
         /\ Span(v.ori) \subseteq Block /\ Span(v.rep) \subseteq Block
         /\ v = Lead(v, v.cnt)
<1>1. /\ v \in [ori : [start : Int, end : Int], rep : [start : Int, end : Int], cnt : Int]
      /\ v.cnt = v.ori.end - v.ori.start + 1 /\ v.cnt = v.rep.end - v.rep.start + 1
      /\ Span(v.ori) \subseteq Block /\ Span(v.rep) \subseteq Block
  BY DEF NodeIn, NodeType, Size
<1>2. /\ v.ori.start \in Int /\ v.ori.end \in Int /\ v.rep.start \in Int
      /\ v.rep.end \in Int /\ v.cnt \in Int
      /\ v.ori.end = v.ori.start + v.cnt - 1 /\ v.rep.end = v.rep.start + v.cnt - 1
  BY <1>1
<1>3. /\ v = [ori |-> v.ori, rep |-> v.rep, cnt |-> v.cnt]
      /\ v.ori = [start |-> v.ori.start, end |-> v.ori.end]
      /\ v.rep = [start |-> v.rep.start, end |-> v.rep.end]
  BY <1>1
<1>4. v = Lead(v, v.cnt)
  BY <1>2, <1>3 DEF Lead, Node, Extent
<1> QED BY <1>1, <1>2, <1>4 DEF Span

LEMMA SplitNode ==
  ASSUME NEW v \in NodeIn, NEW n \in Int, n >= 0, n <= v.cnt
  PROVE  /\ Lead(v, n) \in NodeIn /\ Rear(v, n) \in NodeIn
         /\ Lead(v, n).cnt = n /\ Rear(v, n).cnt = v.cnt - n
         /\ Lead(v, n).ori.start = v.ori.start /\ Rear(v, n).ori.start = v.ori.start + n
         /\ Lead(v, n).rep.start = v.rep.start /\ Rear(v, n).rep.start = v.rep.start + n
         /\ Span(Lead(v, n).ori) \union Span(Rear(v, n).ori) = Span(v.ori)
         /\ Span(Lead(v, n).ori) \intersect Span(Rear(v, n).ori) = {}
         /\ Span(Lead(v, n).rep) \union Span(Rear(v, n).rep) = Span(v.rep)
         /\ Span(Lead(v, n).rep) \intersect Span(Rear(v, n).rep) = {}
         /\ Rear(v, n) = [ ori |-> Extent(v.ori.start + n, v.ori.end),
                           rep |-> Extent(v.rep.start + n, v.rep.end), cnt |-> v.cnt - n ]
<1>1. /\ v.ori.start \in Int /\ v.ori.end \in Int /\ v.rep.start \in Int
      /\ v.rep.end \in Int /\ v.cnt \in Int
      /\ v.ori.end = v.ori.start + v.cnt - 1 /\ v.rep.end = v.rep.start + v.cnt - 1
      /\ Span(v.ori) = v.ori.start .. (v.ori.start + v.cnt - 1)
      /\ Span(v.rep) = v.rep.start .. (v.rep.start + v.cnt - 1)
  BY NodeForm
<1>2. Rear(v, n) = [ ori |-> Extent(v.ori.start + n, v.ori.end),
                     rep |-> Extent(v.rep.start + n, v.rep.end), cnt |-> v.cnt - n ]
  <2>1. \A s \in Int : s + n + (v.cnt - n) - 1 = s + v.cnt - 1
    BY <1>1
  <2>2. /\ v.ori.start + n + (v.cnt - n) - 1 = v.ori.end
        /\ v.rep.start + n + (v.cnt - n) - 1 = v.rep.end
    BY <1>1, <2>1
  <2> QED BY <2>2 DEF Rear, Node
<1>3. Lead(v, n) \in NodeIn /\ Rear(v, n) \in NodeIn
  BY <1>2, CutNode DEF Lead
<1>4. /\ Lead(v, n).cnt = n /\ Rear(v, n).cnt = v.cnt - n
      /\ Lead(v, n).ori.start = v.ori.start /\ Rear(v, n).ori.start = v.ori.start + n
      /\ Lead(v, n).rep.start = v.rep.start /\ Rear(v, n).rep.start = v.rep.start + n
  BY DEF Lead, Rear, Node, Extent
<1>5. /\ Span(Lead(v, n).ori) = v.ori.start .. (v.ori.start + n - 1)
      /\ Span(Rear(v, n).ori) = (v.ori.start + n) .. (v.ori.start + v.cnt - 1)
      /\ Span(Lead(v, n).rep) = v.rep.start .. (v.rep.start + n - 1)
      /\ Span(Rear(v, n).rep) = (v.rep.start + n) .. (v.rep.start + v.cnt - 1)
  BY <1>1, <1>2 DEF Lead, Node, Extent, Span
<1>6. \A s \in Int : /\ (s .. (s + n - 1)) \union ((s + n) .. (s + v.cnt - 1)) = s .. (s + v.cnt - 1)
                     /\ (s .. (s + n - 1)) \intersect ((s + n) .. (s + v.cnt - 1)) = {}
  BY SMTT(60), <1>1
<1> QED BY <1>1, <1>2, <1>3, <1>4, <1>5, <1>6

(* Two areas without a common logical block do not overlap, so that        *)
(* replacement_area_insert succeeds.                                       *)
LEMMA NotRefused ==
  ASSUME NEW R, R \subseteq NodeIn, \A m \in R : m.cnt >= 1,
         NEW n \in NodeIn, n.cnt >= 1,
         \A m \in R, l \in Block : ~ (l \in Span(m.ori) /\ l \in Span(n.ori))
  PROVE  RepInsert(R, n) = R \union {n}
<1> SUFFICES ASSUME NEW m \in R, Overlap(m.ori, n.ori) PROVE FALSE
  BY DEF RepInsert
<1>1. /\ m.ori.start \in Int /\ m.ori.end \in Int /\ m.ori.start <= m.ori.end
      /\ m.ori.start .. m.ori.end \subseteq Block
  BY DEF NodeIn, NodeType, Size, Span
<1>2. /\ n.ori.start \in Int /\ n.ori.end \in Int /\ n.ori.start <= n.ori.end
      /\ n.ori.start .. n.ori.end \subseteq Block
  BY DEF NodeIn, NodeType, Size, Span
<1>3. n.ori.start <= m.ori.end /\ m.ori.start <= n.ori.end
  BY <1>1, <1>2 DEF Overlap
<1>4. CASE m.ori.start <= n.ori.start
  <2>1. n.ori.start \in Span(m.ori) /\ n.ori.start \in Span(n.ori) /\ n.ori.start \in Block
    BY <1>1, <1>2, <1>3, <1>4 DEF Span
  <2> QED BY <2>1
<1>5. CASE ~ (m.ori.start <= n.ori.start)
  <2>1. m.ori.start \in Span(m.ori) /\ m.ori.start \in Span(n.ori) /\ m.ori.start \in Block
    BY <1>1, <1>2, <1>3, <1>5 DEF Span
  <2> QED BY <2>1
<1> QED BY <1>4, <1>5

LEMMA Refusal ==
  ASSUME NEW R, NEW n, RepInsert(R, n) # R \union {n}
  PROVE  RepInsert(R, n) = R
  BY DEF RepInsert

(* The areas of the tree are areas with blocks.                            *)
LEMMA TreeNodes ==
  ASSUME SpaceInv
  PROVE  /\ repTree \subseteq NodeIn /\ \A n \in repTree : n.cnt >= 1
         /\ AllListed \subseteq NodeIn /\ \A n \in AllListed : n.cnt >= 1
         /\ repTree \subseteq AllListed
<1>1. repTree \subseteq NodeIn /\ repTree \subseteq AllListed
  BY DEF SpaceInv, IInv, SpaceIn, Tidy
<1>2. ASSUME NEW n \in AllListed PROVE n \in NodeIn /\ n.cnt >= 1
  <2>1. PICK t \in Tiers : n \in Lists(pri)[t]
    BY OnList
  <2>2. n \in NodeIn
    BY <2>1, FamiliesType DEF SpaceInv
  <2> QED BY <2>1, <2>2, OnList
<1> QED BY <1>1, <1>2

-----------------------------------------------------------------------------
(* StackIndex for the loops of this specification.                         *)
LEMMA FrameIndex ==
  ASSUME ev \in Seq(FrameIn), ev # <<>>, NEW f \in FrameIn, NEW g \in FrameIn
  PROVE  /\ Len(ev) \in Nat /\ Len(ev) >= 1 /\ DOMAIN ev = 1 .. Len(ev)
         /\ Top = ev[Len(ev)]
         /\ DOMAIN Under = 1 .. (Len(ev) - 1)
         /\ \A i \in 1 .. (Len(ev) - 1) : Under[i] = ev[i]
         /\ DOMAIN Append(Under, f) = 1 .. Len(ev)
         /\ \A i \in 1 .. (Len(ev) - 1) : Append(Under, f)[i] = ev[i]
         /\ Append(Under, f)[Len(ev)] = f
         /\ DOMAIN (Under \o <<f, g>>) = 1 .. (Len(ev) + 1)
         /\ \A i \in 1 .. (Len(ev) - 1) : (Under \o <<f, g>>)[i] = ev[i]
         /\ (Under \o <<f, g>>)[Len(ev)] = f
         /\ (Under \o <<f, g>>)[Len(ev) + 1] = g
<1>1. StackFacts(ev, f, g)
  BY StackTop
<1> QED BY <1>1 DEF StackFacts, Top, Under

(* The stack of loops as a family: as StackFamilies and EndFamilies have   *)
(* it for the blocks.                                                      *)
LEMMA StackNodes ==
  ASSUME ev \in Seq(FrameIn), ev # <<>>,
         NEW f \in FrameIn, NEW t \in {0, 1}, NEW k \in Int,
         NEW e, e = Append(Under, f) \/ e = Under \o <<f, Frame(t, k)>>
  PROVE  NodesIn(e) = [NodesIn(ev) EXCEPT ![Len(ev)] = f.rest]
<1> DEFINE g == Frame(t, k)
           N == Len(ev)
<1>1. g \in FrameIn /\ g.rest = NoNode
  BY FrameType DEF Frame
<1> HIDE DEF g
<1>2. /\ N \in Nat /\ N >= 1 /\ DOMAIN ev = 1 .. N
      /\ \A i \in 1 .. (N - 1) : e[i] = ev[i]
      /\ e[N] = f
  <2>1. CASE e = Append(Under, f)
    BY <1>1, <2>1, FrameIndex
  <2>2. CASE e = Under \o <<f, g>>
    BY <1>1, <2>2, FrameIndex
  <2> QED BY <2>1, <2>2 DEF g
<1>3. \/ DOMAIN e = 1 .. N
      \/ DOMAIN e = 1 .. (N + 1) /\ e[N + 1] = g
  BY <1>1, FrameIndex DEF g
<1> HIDE DEF N
<1>4. ASSUME NEW i \in Nat
      PROVE  /\ i \in DOMAIN e => \/ i = N /\ e[i] = f
                                  \/ i \in DOMAIN ev /\ i # N /\ e[i] = ev[i]
                                  \/ i \notin DOMAIN ev /\ i # N /\ e[i] = g
             /\ i \notin DOMAIN e => i # N /\ i \notin DOMAIN ev
  BY <1>2, <1>3
<1>5. NodesIn(e) = [NodesIn(ev) EXCEPT ![N] = f.rest]
  BY <1>1, <1>2, <1>4 DEF NodesIn
<1> QED BY <1>5 DEF N

LEMMA EndNodes ==
  ASSUME ev \in Seq(FrameIn), ev # <<>>, Held(ev), Top.area = NoNode
  PROVE  NodesIn(Under) = NodesIn(ev)
<1> DEFINE N == Len(ev)
           u == Under
<1>1. /\ N \in Nat /\ N >= 1 /\ DOMAIN ev = 1 .. N /\ Top = ev[N]
      /\ DOMAIN u = 1 .. (N - 1) /\ \A i \in 1 .. (N - 1) : u[i] = ev[i]
  <2>1. Frame(0, 0) \in FrameIn
    BY FrameType
  <2> QED BY <2>1, FrameIndex
<1>2. ev[N].rest = NoNode
  BY <1>1 DEF Held, FrameHeld
<1> HIDE DEF N, u
<1>3. \A i \in DOMAIN u : i \in DOMAIN ev /\ u[i] = ev[i]
  BY <1>1
<1>4. \A i \in DOMAIN ev : i \notin DOMAIN u => i = N
  BY <1>1
<1> QED BY <1>2, <1>3, <1>4 DEF NodesIn, u

LEMMA NoLoopNodes ==
  ASSUME NEW e, e = <<>> \/ \E t \in {0, 1}, k \in Int : e = <<Frame(t, k)>>
  PROVE  NodesIn(e) = [i \in Nat |-> NoNode]
<1>1. CASE e = <<>>
  BY <1>1 DEF NodesIn
<1>2. CASE \E t \in {0, 1}, k \in Int : e = <<Frame(t, k)>>
  <2>1. DOMAIN e = {1} /\ e[1].rest = NoNode
    BY <1>2 DEF Frame
  <2> QED BY <2>1 DEF NodesIn
<1> QED BY <1>1, <1>2

LEMMA NodesType ==
  ASSUME SpaceInv
  PROVE  /\ NodesIn(ev) \in [Nat -> NodeIn]
         /\ Span(NoNode.ori) = {} /\ NoNode \in NodeIn
         /\ ev # <<>> => Len(ev) \in Nat /\ NodesIn(ev)[Len(ev)] = Top.rest
<1>1. NoNode \in NodeIn /\ Frame(0, 0) \in FrameIn
  BY FrameType
<1>2. Span(NoNode.ori) = {}
  BY DEF NoNode, Node, Span, Extent
<1>3. ASSUME NEW i \in DOMAIN ev PROVE ev[i].rest \in NodeIn
  <2>1. ev[i] \in FrameIn
    BY ElementOfSeq, LenProperties DEF SpaceInv, IInv
  <2> QED BY <2>1 DEF FrameIn
<1>4. NodesIn(ev) \in [Nat -> NodeIn]
  BY <1>1, <1>3 DEF NodesIn
<1>5. ASSUME ev # <<>> PROVE Len(ev) \in Nat /\ NodesIn(ev)[Len(ev)] = Top.rest
  <2>1. /\ Len(ev) \in Nat /\ Len(ev) >= 1 /\ DOMAIN ev = 1 .. Len(ev) /\ Top = ev[Len(ev)]
    BY <1>1, <1>5, FrameIndex DEF SpaceInv, IInv
  <2>2. Len(ev) \in DOMAIN ev
    BY <2>1
  <2> QED BY <2>1, <2>2 DEF NodesIn
<1> QED BY <1>1, <1>2, <1>4, <1>5

-----------------------------------------------------------------------------
(* What each action does to the tree, to the lists and to the loops, now   *)
(* that no insertion into a list can be refused.                           *)
LEMMA TouchFiles ==
  ASSUME SpaceInv, Touch
  PROVE  /\ UNCHANGED <<avail, repTree, ev, fault, disk, written>> /\ AllListed' = AllListed
         /\ pc = "search" /\ pc' = "search" /\ ev = <<>> /\ UNCHANGED req /\ fault = "none"
         /\ \E n \in At(blk) :
              /\ blk' = n.ori.end + 1
              /\ Lists(pri') = [[t \in Tiers |-> Lists(pri)[t] \ {n}] EXCEPT ![0] = @ \union {n}]
              /\ pri' = PriInsert(PriExtract(pri, n), 0, n)
              /\ foreign' = (foreign \/ Stray(n))
<1>1. PICK n \in At(blk) : /\ pri' = PriInsert(PriExtract(pri, n), 0, n)
                           /\ blk' = n.ori.end + 1
                           /\ foreign' = (foreign \/ Stray(n))
  BY DEF Touch, Behind
<1>2. /\ UNCHANGED <<avail, repTree, ev, fault, disk, written>>
      /\ pc = "search" /\ pc' = "search" /\ ev = <<>> /\ UNCHANGED req /\ fault = "none"
  BY DEF Touch, Searching, Running, data
<1> DEFINE L == Lists(pri)
           q == PriExtract(pri, n)
<1>3. n \in NodeIn /\ n.cnt >= 1 /\ n \in AllListed /\ 0 \in Tiers
  BY FoundType DEF SpaceInv, Tidy, At, Tiers
<1>4. PICK t \in Tiers : n \in L[t]
  BY <1>3, OnList
<1>5. /\ L \in Areas3 /\ ListedOnce(L) /\ pri \in PriIn /\ Lined(pri)
  BY FamiliesType DEF SpaceInv, Tidy, Partition, IInv, SpaceIn
<1>6. q \in PriIn /\ Lists(q) = [u \in Tiers |-> L[u] \ {n}] /\ Lined(q)
  BY <1>5, ExtractLists, PriExtractType
<1>7. \A m \in Lists(q)[0], p \in Block : ~ (p \in Span(m.rep) /\ p \in Span(n.rep))
  <2> HIDE DEF L, q
  <2> QED BY <1>3, <1>4, <1>5, <1>6 DEF ListedOnce
<1>8. Lists(pri') = [Lists(q) EXCEPT ![0] = @ \union {n}]
  <2> HIDE DEF q
  <2>1. Lists(PriInsert(q, 0, n)) = [Lists(q) EXCEPT ![0] = @ \union {n}]
    <3>1. q \in PriIn /\ Lined(q)
      BY <1>6
    <3> QED BY <1>3, <1>7, <3>1, InsertLists
  <2> QED BY <1>1, <2>1 DEF q
<1>9. AllListed' = AllListed
  <2>1. \A m : m \in AllListed' <=> \E u \in Tiers : m \in Lists(pri')[u]
    BY DEF AllListed, Listed, Lists
  <2>2. \A u \in Tiers : Lists(pri')[u] = (L[u] \ {n}) \union (IF u = 0 THEN {n} ELSE {})
    BY <1>3, <1>6, <1>8
  <2>3. \A m : m \in AllListed <=> \E u \in Tiers : m \in L[u]
    BY OnList
  <2> HIDE DEF L, q
  <2>4. \A m : m \in AllListed' <=> m \in AllListed
    BY <1>3, <1>4, <2>1, <2>2, <2>3
  <2> QED BY <2>4
<1>10. Lists(pri') = [[u \in Tiers |-> L[u] \ {n}] EXCEPT ![0] = @ \union {n}]
  BY <1>6, <1>8
<1> QED BY <1>1, <1>2, <1>9, <1>10

LEMMA AllocMaps ==
  ASSUME SpaceInv, Alloc
  PROVE  /\ UNCHANGED <<req, off, ev, fault, disk, written, foreign>>
         /\ pc' = "search" /\ pc = "alloc" /\ ev = <<>> /\ fault = "none"
         /\ blk \in Nat /\ req.end \in Int /\ blk <= req.end
         /\ \E n \in Int, p \in Int :
              LET area == Node(blk, p, n)
              IN  /\ n >= 1 /\ n <= req.end - blk + 1 /\ blk' = blk + n
                  /\ area \in NodeIn /\ Span(area.rep) \subseteq avail[0]
                  /\ Span(area.ori) = blk .. (blk + n - 1)
                  /\ bits' = bits \union Span(area.rep)
                  /\ avail' = [avail EXCEPT ![0] = @ \ Span(area.rep)]
                  /\ repTree' = RepInsert(repTree, area)
                  /\ AllListed' = AllListed \union {area}
                  /\ Lists(pri') = [Lists(pri) EXCEPT ![0] = @ \union {area}]
                  /\ pri' = PriInsert(pri, 0, area)
<1>1. /\ UNCHANGED <<req, off, ev, fault, disk, written, foreign>>
      /\ pc' = "search" /\ pc = "alloc" /\ ev = <<>> /\ fault = "none"
  BY DEF Alloc, Running, data
<1>2. /\ blk \in Nat /\ req.start \in Int /\ req.end \in Int /\ req.end < Total /\ blk <= req.end
      /\ avail[0] \subseteq Block /\ Total \in Nat
  BY <1>1, Geometry, FamiliesType DEF SpaceInv, IInv, CallIn, RequestIn, Tiers
<1>3. PICK x \in FirstFit(avail[0], req.end - blk + 1) :
        LET n    == MIN(req.end - blk + 1, Size(x))
            area == Node(blk, x.start, n)
        IN  /\ bits' = bits \union Span(area.rep)
            /\ avail' = AvailExtract(avail, 0, area.rep)
            /\ pri' = PriInsert(pri, 0, area)
            /\ repTree' = RepInsert(repTree, area)
            /\ blk' = blk + n
  BY DEF Alloc
<1> DEFINE n == MIN(req.end - blk + 1, Size(x))
           area == Node(blk, x.start, n)
<1>4. /\ x.start \in Int /\ n \in Int /\ n >= 1 /\ n <= req.end - blk + 1
      /\ x.start .. (x.start + n - 1) \subseteq avail[0]
  <2>1. req.end - blk + 1 \in Int /\ req.end - blk + 1 >= 1
    BY <1>2
  <2> QED BY <1>2, <1>3, <2>1, FitType
<1> HIDE DEF n
<1>5. blk .. (blk + n - 1) \subseteq Block
  BY <1>2, <1>4 DEF Block
<1>6. /\ area \in NodeIn /\ area.cnt = n /\ Span(area.rep) = x.start .. (x.start + n - 1)
      /\ Span(area.ori) = blk .. (blk + n - 1)
  <2>1. x.start .. (x.start + n - 1) \subseteq Block
    BY <1>2, <1>4
  <2>2. area \in NodeIn
    <3>1. blk \in Int /\ x.start \in Int /\ n \in Int
      BY <1>2, <1>4
    <3> QED BY <1>5, <2>1, <3>1, NewNode
  <2> QED BY <2>2 DEF Node, Extent, Span
<1>7. /\ bits' = bits \union Span(area.rep)
      /\ avail' = AvailExtract(avail, 0, area.rep)
      /\ pri' = PriInsert(pri, 0, area)
      /\ repTree' = RepInsert(repTree, area)
      /\ blk' = blk + n
  BY <1>3 DEF n
<1> HIDE DEF area
<1>8. /\ Lists(pri') = [Lists(pri) EXCEPT ![0] = @ \union {area}]
      /\ \A v \in Tiers : \A m : m \in Lists(pri')[v] <=> m \in Lists(pri)[v] \/ (v = 0 /\ m = area)
  <2>1. 0 \in Tiers /\ area.cnt >= 1 /\ Span(area.rep) \subseteq avail[0]
    BY <1>4, <1>6 DEF Tiers
  <2> QED BY <1>6, <1>7, <2>1, MapFree
<1>9. AllListed' = AllListed \union {area}
  <2>1. \A m : m \in AllListed' <=> \E u \in Tiers : m \in Lists(pri')[u]
    BY DEF AllListed, Listed, Lists
  <2>2. \A m : m \in AllListed <=> \E u \in Tiers : m \in Lists(pri)[u]
    BY OnList
  <2> QED BY <1>8, <2>1, <2>2 DEF Tiers
<1>10. avail' = [avail EXCEPT ![0] = @ \ Span(area.rep)]
  BY <1>7 DEF AvailExtract
<1>11. area = Node(blk, x.start, n)
  BY DEF area
<1> QED BY <1>1, <1>2, <1>4, <1>6, <1>7, <1>8, <1>9, <1>10, <1>11

LEMMA DeleteAreaDoes ==
  ASSUME SpaceInv, DeleteArea
  PROVE  /\ UNCHANGED <<pc, req, off, ev, fault>>
         /\ pc = "delete" /\ ev = <<>> /\ fault = "none" /\ blk <= req.end
         /\ \E n \in At(blk) :
              /\ repTree' = repTree \ {n} /\ AllListed' = AllListed \ {n}
              /\ blk' = n.ori.end + 1
              /\ disk' = [p \in Block |-> IF disk[p] \in Span(n.ori) THEN NoData ELSE disk[p]]
              /\ written' = written \ Span(n.ori)
<1>1. PICK n \in At(blk) :
        /\ pri' = PriExtract(pri, n) /\ repTree' = repTree \ {n} /\ blk' = n.ori.end + 1
        /\ disk' = [p \in Block |-> IF disk[p] \in Span(n.ori) THEN NoData ELSE disk[p]]
        /\ written' = written \ Span(n.ori)
  BY DEF DeleteArea, Behind
<1>2. /\ UNCHANGED <<pc, req, off, ev, fault>>
      /\ pc = "delete" /\ ev = <<>> /\ fault = "none" /\ blk <= req.end
  BY DEF DeleteArea, Deleting, Running
<1>3. Lists(pri') = [u \in Tiers |-> Lists(pri)[u] \ {n}]
  BY <1>1, ExtractLists DEF SpaceInv, Tidy, IInv, SpaceIn
<1>4. AllListed' = AllListed \ {n}
  <2>1. \A m : m \in AllListed' <=> \E u \in Tiers : m \in Lists(pri')[u]
    BY DEF AllListed, Listed, Lists
  <2>2. \A m : m \in AllListed <=> \E u \in Tiers : m \in Lists(pri)[u]
    BY OnList
  <2>3. \A u \in Tiers : Lists(pri')[u] = Lists(pri)[u] \ {n}
    BY <1>3
  <2> QED BY <2>1, <2>2, <2>3
<1> QED BY <1>1, <1>2, <1>4

(* The victim is cut after its first n blocks: those go to the loop, the   *)
(* others (W) stay an area of the tree and of the list.                    *)
LEMMA PopSplits ==
  ASSUME TreeInv, Pop
  PROVE  LET t == Top.src
             v == Victim
         IN  /\ UNCHANGED <<avail, bits, call, fault, data, foreign>>
             /\ ev # <<>> /\ t \in Tiers /\ Top.want \in Int /\ Top.want > 0
             /\ Len(ev) \in Nat /\ NodesIn(ev)[Len(ev)] = NoNode
             /\ pri[t] \in Seq(NodeIn) /\ pri[t] # <<>>
             /\ v \in NodeIn /\ v.cnt >= 1 /\ v \in repTree /\ v \in Lists(pri)[t]
             /\ \E n \in 1 .. v.cnt, W \in SUBSET NodeIn :
                  /\ n = MIN(Top.want, v.cnt)
                  /\ W = IF n = v.cnt THEN {} ELSE {Rear(v, n)}
                  /\ Lead(v, n) \in NodeIn
                  /\ repTree' = (repTree \ {v}) \union W
                  /\ AllListed' = (AllListed \ {v}) \union W
                  /\ NodesIn(ev') = [NodesIn(ev) EXCEPT ![Len(ev)] = Lead(v, n)]
                  /\ pri' = IF n = v.cnt THEN PriExtract(pri, v)
                            ELSE PriInsertLow(PriExtract(pri, v), t, Rear(v, n))
                  /\ \A u \in Tiers : Lists(pri')[u] = (Lists(pri)[u] \ {v})
                                                         \union (IF u = t THEN W ELSE {})
<1> DEFINE t     == Top.src
           v     == Victim
           n     == MIN(Top.want, v.cnt)
           taken == IF n = v.cnt THEN v ELSE Lead(v, n)
           kept  == [ ori |-> Extent(v.ori.start + n, v.ori.end),
                      rep |-> Extent(v.rep.start + n, v.rep.end),
                      cnt |-> v.rep.end - (v.rep.start + n) + 1 ]
           q     == PriExtract(pri, v)
           left  == AreaFree(t + 1, taken.cnt)
           top   == [src |-> t, want |-> Top.want - n, area |-> taken, rest |-> taken]
<1>1. /\ pri' = (IF n = v.cnt THEN q ELSE PriInsertLow(q, t, kept))
      /\ repTree' = (IF n = v.cnt THEN repTree \ {v} ELSE RepInsert(repTree \ {v}, kept))
      /\ ev' = (IF t = 0 /\ left < 0 THEN Under \o <<top, Frame(1, -left)>>
                                     ELSE Append(Under, top))
  BY DEF Pop, Lead
<1>2. /\ UNCHANGED <<avail, bits, call, fault, data, foreign>>
      /\ ev # <<>> /\ Top.area = NoNode /\ t \in Tiers /\ v \in NodeIn /\ v \in Lists(pri)[t]
  BY PopDoes DEF TreeInv, SpaceInv, Lists
<1>3. Top.want > 0 /\ pri[t] # <<>> /\ v \in repTree
  BY DEF Pop, Popping
<1>4. /\ Top.want \in Int /\ Len(ev) \in Nat /\ NodesIn(ev)[Len(ev)] = NoNode
      /\ t \in {0, 1} /\ ev \in Seq(FrameIn)
  <2>1. Top \in FrameIn /\ FrameHeld(Top)
    BY <1>2, TopFamilies DEF TreeInv
  <2> QED BY <1>2, <2>1, NodesType DEF FrameIn, FrameHeld, TreeInv, SpaceInv, IInv
<1>5. pri \in PriIn /\ Lined(pri) /\ pri[t] \in Seq(NodeIn)
  BY <1>2 DEF TreeInv, SpaceInv, Tidy, IInv, SpaceIn, PriIn
<1>6. v.cnt >= 1 /\ v.cnt \in Int
  BY <1>2, <1>3, TreeNodes, NodeForm DEF TreeInv
<1>7. n \in 1 .. v.cnt
  BY <1>3, <1>4, <1>6, MinInt
<1> HIDE DEF n
<1>8. /\ Lead(v, n) \in NodeIn /\ Rear(v, n) \in NodeIn
      /\ Rear(v, n).cnt = v.cnt - n
      /\ Span(Lead(v, n).ori) \union Span(Rear(v, n).ori) = Span(v.ori)
      /\ Span(Lead(v, n).rep) \union Span(Rear(v, n).rep) = Span(v.rep)
      /\ Rear(v, n) = [ ori |-> Extent(v.ori.start + n, v.ori.end),
                        rep |-> Extent(v.rep.start + n, v.rep.end), cnt |-> v.cnt - n ]
  <2>1. n \in Int /\ n >= 0 /\ n <= v.cnt
    BY <1>6, <1>7
  <2> HIDE DEF v
  <2> QED BY <1>2, <2>1, SplitNode
<1>9. kept = Rear(v, n)
  <2>1. v.rep.start \in Int /\ v.rep.end \in Int /\ v.rep.end = v.rep.start + v.cnt - 1
    BY <1>2, NodeForm
  <2>2. v.rep.end - (v.rep.start + n) + 1 = v.cnt - n
    BY <1>6, <1>7, <2>1
  <2> QED BY <1>8, <2>2
<1> HIDE DEF kept
<1>10. taken = Lead(v, n)
  BY <1>2, NodeForm
<1> HIDE DEF taken
<1>11. left \in Int
  <2>1. t + 1 \in Tiers
    BY <1>4 DEF Tiers
  <2>2. taken.cnt \in Int
    BY <1>8, <1>10 DEF NodeIn, NodeType
  <2> QED BY <2>1, <2>2, AreaFreeType
<1>12. top \in FrameIn
  <2>1. Span(Lead(v, n).rep) \subseteq Own(t)
    <3>1. v \in NodeOf(t)
      <4>1. pri[t] \in Seq(NodeOf(t))
        BY <1>2, <1>5 DEF PriIn
      <4>2. Range(pri[t]) \subseteq NodeOf(t)
        BY <4>1, RangeOfSeq
      <4> QED BY <1>2, <4>2 DEF Lists
    <3> QED BY <1>8, <3>1 DEF NodeOf
  <2>2. Top.want - n \in Int
    BY <1>4, <1>6, <1>7
  <2> QED BY <1>4, <1>8, <1>10, <2>1, <2>2 DEF FrameIn, NodeOf
<1>13. NodesIn(ev') = [NodesIn(ev) EXCEPT ![Len(ev)] = Lead(v, n)]
  <2>1. top.rest = Lead(v, n)
    BY <1>10
  <2> HIDE DEF top, left
  <2>2. -left \in Int
    BY <1>11
  <2>3. ev' = Append(Under, top) \/ ev' = Under \o <<top, Frame(1, -left)>>
    BY <1>1
  <2> QED BY SMTT(60), <1>2, <1>4, <1>12, <2>1, <2>2, <2>3, StackNodes
<1> HIDE DEF top, left
<1> DEFINE W == IF n = v.cnt THEN {} ELSE {Rear(v, n)}
<1>14. q \in PriIn /\ Lined(q) /\ \A u \in Tiers : Lists(q)[u] = Lists(pri)[u] \ {v}
  <2>1. Lists(q) = [u \in Tiers |-> Lists(pri)[u] \ {v}] /\ q \in PriIn /\ Lined(q)
    BY <1>5, PriExtractType, ExtractLists
  <2> QED BY <2>1
<1> HIDE DEF q
<1>15. \A u \in Tiers : Lists(pri')[u] = (Lists(pri)[u] \ {v}) \union (IF u = t THEN W ELSE {})
  <2>1. CASE n = v.cnt
    <3>1. pri' = q /\ W = {}
      BY <1>1, <2>1
    <3> QED BY <1>14, <3>1
  <2>2. CASE n # v.cnt
    <3>1. Rear(v, n).cnt >= 1
      BY <1>6, <1>7, <1>8, <2>2
    <3>2. \A m \in Lists(q)[t], p \in Block :
            ~ (p \in Span(m.rep) /\ p \in Span(Rear(v, n).rep))
      <4>1. \A m \in Lists(q)[t] : m \in Lists(pri)[t] /\ m # v
        BY <1>2, <1>14
      <4>2. ListedOnce(Lists(pri))
        BY DEF TreeInv, SpaceInv, Tidy, Partition
      <4>3. \A p : p \in Span(Rear(v, n).rep) => p \in Span(v.rep)
        BY <1>8
      <4> HIDE DEF v, t
      <4> QED BY <1>2, <4>1, <4>2, <4>3 DEF ListedOnce
    <3>3. Lists(PriInsertLow(q, t, Rear(v, n))) = [Lists(q) EXCEPT ![t] = @ \union {Rear(v, n)}]
      <4>1. q \in PriIn /\ Lined(q) /\ t \in Tiers /\ Rear(v, n) \in NodeIn
        BY <1>2, <1>8, <1>14
      <4> HIDE DEF v, t
      <4> QED BY <3>1, <3>2, <4>1, InsertLists
    <3>4. pri' = PriInsertLow(q, t, Rear(v, n)) /\ W = {Rear(v, n)}
      BY <1>1, <1>9, <2>2
    <3>5. Lists(pri') = [Lists(q) EXCEPT ![t] = @ \union W]
      BY <3>3, <3>4
    <3>6. DOMAIN Lists(q) = Tiers
      BY DEF Lists
    <3> HIDE DEF W, v, t
    <3> QED BY <1>2, <1>14, <3>5, <3>6
  <2> QED BY <2>1, <2>2
<1>16. AllListed' = (AllListed \ {v}) \union W
  <2>1. \A m : m \in AllListed' <=> \E u \in Tiers : m \in Lists(pri')[u]
    BY DEF AllListed, Listed, Lists
  <2>2. \A m : m \in AllListed <=> \E u \in Tiers : m \in Lists(pri)[u]
    BY OnList DEF TreeInv
  <2> HIDE DEF W, v, t
  <2>3. \A m : m \in AllListed' <=> (m \in AllListed /\ m # v) \/ m \in W
    BY <1>2, <1>15, <2>1, <2>2
  <2> QED BY <2>3
<1>17. repTree' = (repTree \ {v}) \union W
  <2>1. CASE n = v.cnt
    BY <1>1, <2>1
  <2>2. CASE n # v.cnt
    <3>1. Rear(v, n).cnt >= 1
      BY <1>6, <1>7, <1>8, <2>2
    <3>2. repTree \subseteq NodeIn /\ \A m \in repTree : m.cnt >= 1
      BY TreeNodes DEF TreeInv
    <3>3. \A m \in repTree \ {v}, l \in Block :
            ~ (l \in Span(m.ori) /\ l \in Span(Rear(v, n).ori))
      <4>1. TreeOnce(repTree)
        BY DEF TreeInv, Once
      <4>2. \A l : l \in Span(Rear(v, n).ori) => l \in Span(v.ori)
        BY <1>8
      <4> HIDE DEF v
      <4> QED BY <1>3, <4>1, <4>2 DEF TreeOnce
    <3>4. RepInsert(repTree \ {v}, Rear(v, n)) = (repTree \ {v}) \union {Rear(v, n)}
      <4>1. repTree \ {v} \subseteq NodeIn /\ \A m \in repTree \ {v} : m.cnt >= 1
        BY <3>2
      <4> HIDE DEF v
      <4> QED BY <1>8, <3>1, <3>3, <4>1, NotRefused
    <3> QED BY <1>1, <1>9, <2>2, <3>4
  <2> QED BY <2>1, <2>2
<1>18. pri' = IF n = v.cnt THEN PriExtract(pri, v)
              ELSE PriInsertLow(PriExtract(pri, v), t, Rear(v, n))
  BY <1>1, <1>9 DEF q
<1>19. W \in SUBSET NodeIn
  BY <1>8
<1>20. n = MIN(Top.want, v.cnt)
  BY DEF n
<1> DEFINE P(k, X) ==
             /\ k = MIN(Top.want, v.cnt)
             /\ X = IF k = v.cnt THEN {} ELSE {Rear(v, k)}
             /\ Lead(v, k) \in NodeIn
             /\ repTree' = (repTree \ {v}) \union X
             /\ AllListed' = (AllListed \ {v}) \union X
             /\ NodesIn(ev') = [NodesIn(ev) EXCEPT ![Len(ev)] = Lead(v, k)]
             /\ pri' = IF k = v.cnt THEN PriExtract(pri, v)
                       ELSE PriInsertLow(PriExtract(pri, v), t, Rear(v, k))
             /\ \A u \in Tiers : Lists(pri')[u] = (Lists(pri)[u] \ {v})
                                                    \union (IF u = t THEN X ELSE {})
<1>21. P(n, W)
  BY <1>8, <1>13, <1>15, <1>16, <1>17, <1>18, <1>20
<1> HIDE DEF P, n, W
<1>22. \E k \in 1 .. v.cnt, X \in SUBSET NodeIn : P(k, X)
  BY <1>7, <1>19, <1>21
<1> QED BY <1>2, <1>3, <1>4, <1>5, <1>6, <1>22 DEF P

(* The first n blocks of what a loop moves get the physical blocks from x  *)
(* on, which were free, and are filed there.                               *)
LEMMA PlaceMoves ==
  ASSUME TreeInv, Place
  PROVE  LET t == Top.src
             s == Top.rest
         IN  /\ UNCHANGED <<call, fault, written, foreign>>
             /\ ev # <<>> /\ fault = "none" /\ t \in {0, 1} /\ t + 1 \in Tiers
             /\ s \in NodeIn /\ s.cnt \in Int /\ s.cnt >= 1
             /\ Len(ev) \in Nat /\ NodesIn(ev)[Len(ev)] = s
             /\ \E n \in 1 .. s.cnt, x \in Int :
                  LET dst == Node(s.ori.start, x, n)
                  IN  /\ dst \in NodeIn /\ Span(dst.rep) \subseteq avail[t + 1]
                      /\ Span(dst.ori) = Span(Lead(s, n).ori)
                      /\ repTree' = repTree \union {dst}
                      /\ AllListed' = AllListed \union {dst}
                      /\ NodesIn(ev') = [NodesIn(ev) EXCEPT
                           ![Len(ev)] = Remains(s, n)]
                      /\ pri' = PriInsert(pri, t + 1, dst)
                      /\ Lists(pri') = [Lists(pri) EXCEPT ![t + 1] = @ \union {dst}]
                      /\ disk' = Copy(disk, s.rep.start, x, n)
<1> DEFINE t == Top.src
           s == Top.rest
<1>1. /\ UNCHANGED <<call, fault, written, foreign>> /\ ev # <<>> /\ fault = "none"
      /\ Top.area # NoNode
  BY DEF Place, Placing, Evicting
<1>2. /\ Top \in FrameIn /\ FrameHeld(Top) /\ t \in {0, 1} /\ t \in Tiers /\ t + 1 \in Tiers
      /\ Top.want \in Int
      /\ s \in NodeIn /\ s.cnt \in Int /\ s.cnt >= 1 /\ ev \in Seq(FrameIn)
      /\ Len(ev) \in Nat /\ NodesIn(ev)[Len(ev)] = s
  <2>1. Top \in FrameIn /\ FrameHeld(Top)
    BY <1>1, TopFamilies DEF TreeInv
  <2> QED BY <1>1, <2>1, NodesType, NodeForm DEF FrameIn, FrameHeld, TreeInv, SpaceInv, IInv, Tiers
<1>3. PICK x \in FirstFit(avail[t + 1], s.cnt) :
        LET n   == MIN(s.cnt, Size(x))
            dst == Node(s.ori.start, x.start, n)
            top == [ori |-> Extent(s.ori.start + n, s.ori.end),
                    rep |-> Extent(s.rep.start + n, s.rep.end),
                    cnt |-> s.cnt - n]
        IN  /\ pri' = PriInsert(pri, t + 1, dst)
            /\ repTree' = RepInsert(repTree, dst)
            /\ disk' = Copy(disk, s.rep.start, dst.rep.start, n)
            /\ ev' = Append(Under, IF n = s.cnt THEN Frame(t, Top.want)
                                                ELSE [Top EXCEPT !.rest = top])
  BY DEF Place
<1> DEFINE n   == MIN(s.cnt, Size(x))
           dst == Node(s.ori.start, x.start, n)
<1>4. avail[t + 1] \subseteq Block
  BY <1>2, FamiliesType DEF TreeInv, SpaceInv
<1>5. /\ x.start \in Int /\ n \in 1 .. s.cnt
      /\ x.start .. (x.start + n - 1) \subseteq avail[t + 1]
  <2> HIDE DEF s, t
  <2>1. /\ x.start \in Int /\ n \in Int /\ n <= s.cnt /\ n >= 1
        /\ x.start .. (x.start + n - 1) \subseteq avail[t + 1]
    BY <1>2, <1>3, <1>4, FitType
  <2> HIDE DEF n
  <2> QED BY <1>2, <2>1
<1>6. /\ pri' = PriInsert(pri, t + 1, dst)
      /\ repTree' = RepInsert(repTree, dst)
      /\ dst.rep.start = x.start
      /\ disk' = Copy(disk, s.rep.start, x.start, n)
  <2>1. dst.rep.start = x.start
    BY DEF Node, Extent
  <2> QED BY <1>3, <2>1
<1> HIDE DEF n
<1>7. /\ Lead(s, n) \in NodeIn /\ Rear(s, n) \in NodeIn
      /\ Lead(s, n).ori.start = s.ori.start /\ Lead(s, n).cnt = n
      /\ Span(Lead(s, n).ori) \subseteq Span(s.ori)
      /\ Rear(s, n) = [ ori |-> Extent(s.ori.start + n, s.ori.end),
                        rep |-> Extent(s.rep.start + n, s.rep.end), cnt |-> s.cnt - n ]
  <2>1. n \in Int /\ n >= 0 /\ n <= s.cnt
    BY <1>2, <1>5
  <2>2. s \in NodeIn
    BY <1>2
  <2> HIDE DEF s
  <2>3. /\ Lead(s, n) \in NodeIn /\ Rear(s, n) \in NodeIn
        /\ Lead(s, n).ori.start = s.ori.start /\ Lead(s, n).cnt = n
        /\ Span(Lead(s, n).ori) \union Span(Rear(s, n).ori) = Span(s.ori)
        /\ Rear(s, n) = [ ori |-> Extent(s.ori.start + n, s.ori.end),
                          rep |-> Extent(s.rep.start + n, s.rep.end), cnt |-> s.cnt - n ]
    BY ZenonT(60), <2>1, <2>2, SplitNode
  <2> QED BY <2>3
<1>8. s.ori.start \in Int
  BY <1>2, NodeForm
<1>9. Span(Lead(s, n).ori) = s.ori.start .. (s.ori.start + n - 1)
  BY <1>7, NodeForm
<1>10. /\ dst \in NodeIn /\ dst.cnt = n /\ Span(dst.rep) = x.start .. (x.start + n - 1)
       /\ Span(dst.ori) = Span(Lead(s, n).ori)
  <2>1. /\ s.ori.start .. (s.ori.start + n - 1) \subseteq Block
        /\ x.start .. (x.start + n - 1) \subseteq Block /\ n \in Int
    <3>1. Span(Lead(s, n).ori) \subseteq Block
      BY <1>7, NodeForm
    <3> QED BY <1>2, <1>4, <1>5, <1>9, <3>1
  <2>2. dst \in NodeIn
    BY <1>5, <1>8, <2>1, NewNode
  <2>3. /\ dst.cnt = n /\ Span(dst.rep) = x.start .. (x.start + n - 1)
        /\ Span(dst.ori) = s.ori.start .. (s.ori.start + n - 1)
    BY DEF Node, Extent, Span
  <2> QED BY <1>9, <2>2, <2>3
<1> DEFINE new == Remains(s, n)
<1>11. NodesIn(ev') = [NodesIn(ev) EXCEPT ![Len(ev)] = new]
  <2> DEFINE f == IF n = s.cnt THEN Frame(t, Top.want) ELSE [Top EXCEPT !.rest = Rear(s, n)]
  <2>1. ev' = Append(Under, f)
    BY <1>3, <1>7 DEF n
  <2>2. f \in FrameIn
    <3>1. Frame(t, Top.want) \in FrameIn
      BY <1>2, FrameType
    <3>2. [Top EXCEPT !.rest = Rear(s, n)] \in FrameIn
      BY <1>2, <1>7 DEF FrameIn
    <3> QED BY <3>1, <3>2
  <2>3. f.rest = new
    BY <1>2 DEF Frame, FrameIn, Remains
  <2> HIDE DEF f
  <2> QED BY <1>1, <1>2, <2>1, <2>2, <2>3, StackNodes
<1> HIDE DEF dst, new
<1>12. /\ Lists(pri') = [Lists(pri) EXCEPT ![t + 1] = @ \union {dst}]
       /\ \A v \in Tiers : \A m : m \in Lists(pri')[v] <=> m \in Lists(pri)[v] \/ (v = t + 1 /\ m = dst)
  <2>1. dst.cnt >= 1 /\ Span(dst.rep) \subseteq avail[t + 1] /\ t + 1 \in Tiers
    BY <1>2, <1>5, <1>10
  <2> HIDE DEF t
  <2>2. SpaceInv
    BY DEF TreeInv
  <2> QED BY <1>6, <1>10, <2>1, <2>2, MapFree
<1>13. AllListed' = AllListed \union {dst}
  <2>1. \A m : m \in AllListed' <=> \E u \in Tiers : m \in Lists(pri')[u]
    BY DEF AllListed, Listed, Lists
  <2>2. \A m : m \in AllListed <=> \E u \in Tiers : m \in Lists(pri)[u]
    BY OnList DEF TreeInv
  <2> HIDE DEF t
  <2>3. \A m : m \in AllListed' <=> m \in AllListed \/ m = dst
    BY <1>2, <1>12, <2>1, <2>2
  <2> QED BY <2>3
<1>14. repTree' = repTree \union {dst}
  <2>1. repTree \subseteq NodeIn /\ \A m \in repTree : m.cnt >= 1
    BY TreeNodes DEF TreeInv
  <2>2. \A m \in repTree, l \in Block : ~ (l \in Span(m.ori) /\ l \in Span(dst.ori))
    <3>1. TreeOrRest(repTree, NodesIn(ev))
      BY DEF TreeInv, Once
    <3>2. \A l : l \in Span(dst.ori) => l \in Span(s.ori)
      BY <1>7, <1>10
    <3> QED BY <1>2, <3>1, <3>2 DEF TreeOrRest
  <2>3. dst.cnt >= 1
    BY <1>5, <1>10
  <2> QED BY <1>6, <1>10, <2>1, <2>2, <2>3, NotRefused
<1> DEFINE P(k, y) ==
             LET d == Node(s.ori.start, y, k)
             IN  /\ d \in NodeIn /\ Span(d.rep) \subseteq avail[t + 1]
                 /\ Span(d.ori) = Span(Lead(s, k).ori)
                 /\ repTree' = repTree \union {d}
                 /\ AllListed' = AllListed \union {d}
                 /\ NodesIn(ev') = [NodesIn(ev) EXCEPT
                      ![Len(ev)] = Remains(s, k)]
                 /\ pri' = PriInsert(pri, t + 1, d)
                 /\ Lists(pri') = [Lists(pri) EXCEPT ![t + 1] = @ \union {d}]
                 /\ disk' = Copy(disk, s.rep.start, y, k)
<1>15. P(n, x.start)
  <2>1. dst = Node(s.ori.start, x.start, n)
    BY DEF dst
  <2> QED BY <1>5, <1>6, <1>10, <1>11, <1>12, <1>13, <1>14, <2>1 DEF new, Remains
<1> HIDE DEF P
<1>16. \E k \in 1 .. s.cnt, y \in Int : P(k, y)
  BY <1>5, <1>15
<1> QED BY <1>1, <1>2, <1>16 DEF P

-----------------------------------------------------------------------------
(* The two parts of an area map what it maps, where it does.               *)
LEMMA Parts ==
  ASSUME NEW v \in NodeIn, NEW n \in Int, n >= 1, n <= v.cnt
  PROVE  /\ Lead(v, n) \in NodeIn /\ Rear(v, n) \in NodeIn
         /\ Span(Lead(v, n).ori) \union Span(Rear(v, n).ori) = Span(v.ori)
         /\ Span(Lead(v, n).ori) \intersect Span(Rear(v, n).ori) = {}
         /\ \A l \in Block : /\ Where(Lead(v, n), l) = Where(v, l)
                             /\ Where(Rear(v, n), l) = Where(v, l)
         /\ n = v.cnt => Span(Rear(v, n).ori) = {}
<1> DEFINE lead == Lead(v, n)
           rear == Rear(v, n)
<1>1. v.cnt \in Int /\ v.ori.start \in Int /\ v.rep.start \in Int
  BY NodeForm
<1>2. n \in Int /\ n >= 1 /\ n <= v.cnt
  OBVIOUS
<1>3. /\ lead \in NodeIn /\ rear \in NodeIn /\ rear.cnt = v.cnt - n
      /\ lead.ori.start = v.ori.start /\ rear.ori.start = v.ori.start + n
      /\ lead.rep.start = v.rep.start /\ rear.rep.start = v.rep.start + n
      /\ Span(lead.ori) \union Span(rear.ori) = Span(v.ori)
      /\ Span(lead.ori) \intersect Span(rear.ori) = {}
  <2>1. n \in Int /\ n >= 0 /\ n <= v.cnt
    BY <1>2
  <2>2. v \in NodeIn
    OBVIOUS
  <2>3. lead \in NodeIn /\ rear \in NodeIn /\ rear.cnt = v.cnt - n
    BY <2>1, <2>2, SplitNode
  <2>4. /\ lead.ori.start = v.ori.start /\ rear.ori.start = v.ori.start + n
        /\ lead.rep.start = v.rep.start /\ rear.rep.start = v.rep.start + n
    BY <2>1, <2>2, SplitNode
  <2>5. /\ Span(lead.ori) \union Span(rear.ori) = Span(v.ori)
        /\ Span(lead.ori) \intersect Span(rear.ori) = {}
    BY <2>1, <2>2, SplitNode
  <2> QED BY <2>3, <2>4, <2>5
<1> HIDE DEF lead, rear
<1>4. \A l \in Block : Where(lead, l) = Where(v, l) /\ Where(rear, l) = Where(v, l)
  <2>1. \A l \in Block : l \in Int
    BY Geometry
  <2>2. \A l \in Block : Where(rear, l) = Where(v, l)
    <3>1. \A l \in Int : v.rep.start + n + (l - (v.ori.start + n)) = v.rep.start + (l - v.ori.start)
      BY <1>1, <1>2
    <3> QED BY <1>3, <2>1, <3>1 DEF Where
  <2>3. \A l \in Block : Where(lead, l) = Where(v, l)
    BY <1>3 DEF Where
  <2> QED BY <2>2, <2>3
<1>5. n = v.cnt => Span(rear.ori) = {}
  <2> HAVE n = v.cnt
  <2>1. rear.cnt = 0 /\ rear \in NodeIn
    BY <1>1, <1>3
  <2>2. rear.ori.start \in Int /\ Span(rear.ori) = rear.ori.start .. (rear.ori.start + 0 - 1)
    BY <2>1, NodeForm
  <2> QED BY <2>2
<1> QED BY <1>1, <1>2, <1>3, <1>4, <1>5 DEF lead, rear

(* An area of the tree is cut and its first part goes to a loop: every     *)
(* block stays mapped where it was.                                        *)
LEMMA SplitMap ==
  ASSUME NEW R, R \subseteq NodeIn, NEW F \in [Nat -> NodeIn], Once(R, F),
         NEW i \in Nat, F[i] = NoNode, NEW v \in R, NEW n \in Int, n >= 1, n <= v.cnt,
         NEW W, W = IF n = v.cnt THEN {} ELSE {Rear(v, n)},
         NEW R2, R2 = (R \ {v}) \union W,
         NEW F2, F2 = [F EXCEPT ![i] = Lead(v, n)]
  PROVE  Once(R2, F2) /\ SameMap(R, F, R2, F2)
<1> DEFINE lead == Lead(v, n)
           rear == Rear(v, n)
<1>1. /\ Span(lead.ori) \union Span(rear.ori) = Span(v.ori)
      /\ Span(lead.ori) \intersect Span(rear.ori) = {}
      /\ \A l \in Block : Where(lead, l) = Where(v, l) /\ Where(rear, l) = Where(v, l)
      /\ n = v.cnt => Span(rear.ori) = {}
  <2>1. v \in NodeIn
    OBVIOUS
  <2> QED BY <2>1, Parts
<1> HIDE DEF lead, rear
<1>6. \A m, l : m \in R2 /\ l \in Span(m.ori) <=>
                 \/ m \in R /\ m # v /\ l \in Span(m.ori)
                 \/ n # v.cnt /\ m = rear /\ l \in Span(rear.ori)
  BY DEF rear
<1>7. \A j \in Nat : F2[j] = IF j = i THEN lead ELSE F[j]
  BY DEF lead
<1>8. \A l : l \in Span(v.ori) <=> l \in Span(lead.ori) \/ l \in Span(rear.ori)
  BY <1>1
<1>9. \A l : ~ (l \in Span(lead.ori) /\ l \in Span(rear.ori))
  BY <1>1
<1>10. \A l : l \notin Span(F[i].ori)
  BY DEF NoNode, Node, Extent, Span
<1>11. TreeOnce(R2)
  BY <1>6, <1>8 DEF Once, TreeOnce
<1>12. RestOnce(F2)
  BY <1>7, <1>8 DEF Once, RestOnce, TreeOrRest
<1>13. TreeOrRest(R2, F2)
  BY <1>6, <1>7, <1>8, <1>9 DEF Once, TreeOnce, TreeOrRest
<1>14. ASSUME NEW l \in Block, NEW p
       PROVE  Maps(R2, F2, l, p) <=> Maps(R, F, l, p)
  <2>1. (\E m \in R2 : l \in Span(m.ori) /\ p = Where(m, l)) <=>
          \/ \E m \in R : m # v /\ l \in Span(m.ori) /\ p = Where(m, l)
          \/ n # v.cnt /\ l \in Span(rear.ori) /\ p = Where(v, l)
    BY <1>1, <1>6
  <2>2. (\E j \in Nat : l \in Span(F2[j].ori) /\ p = Where(F2[j], l)) <=>
          \/ \E j \in Nat : l \in Span(F[j].ori) /\ p = Where(F[j], l)
          \/ l \in Span(lead.ori) /\ p = Where(v, l)
    BY <1>1, <1>7, <1>10
  <2> QED BY <1>1, <1>8, <2>1, <2>2 DEF Maps
<1>15. ASSUME NEW l \in Block PROVE Mapped(R2, F2, l) <=> Mapped(R, F, l)
  <2>1. (\E m \in R2 : l \in Span(m.ori)) <=>
          \/ \E m \in R : m # v /\ l \in Span(m.ori)
          \/ n # v.cnt /\ l \in Span(rear.ori)
    BY <1>6
  <2>2. (\E j \in Nat : l \in Span(F2[j].ori)) <=>
          (\E j \in Nat : l \in Span(F[j].ori)) \/ l \in Span(lead.ori)
    BY <1>7, <1>10
  <2> QED BY <1>1, <1>8, <2>1, <2>2 DEF Mapped
<1> QED BY <1>11, <1>12, <1>13, <1>14, <1>15 DEF Once, SameMap

(* The first part of what a loop moves becomes an area of the tree: its    *)
(* blocks, and no others, are mapped elsewhere.                            *)
LEMMA MoveMap ==
  ASSUME NEW R, NEW F \in [Nat -> NodeIn], Once(R, F),
         NEW i \in Nat, NEW s, s = F[i], NEW n \in Int, n >= 1, n <= s.cnt,
         NEW dst, Span(dst.ori) = Span(Lead(s, n).ori),
         NEW R2, R2 = R \union {dst},
         NEW F2, F2 = [F EXCEPT ![i] = Remains(s, n)]
  PROVE  Once(R2, F2) /\ MovedMap(R, F, R2, F2, dst)
<1> DEFINE rear == Rear(s, n)
           new  == IF n = s.cnt THEN NoNode ELSE rear
<1>3. /\ Span(dst.ori) \union Span(rear.ori) = Span(s.ori)
      /\ Span(dst.ori) \intersect Span(rear.ori) = {}
      /\ \A l \in Block : Where(rear, l) = Where(s, l)
      /\ n = s.cnt => Span(rear.ori) = {}
  <2>1. s \in NodeIn
    OBVIOUS
  <2>2. /\ Span(Lead(s, n).ori) \union Span(rear.ori) = Span(s.ori)
        /\ Span(Lead(s, n).ori) \intersect Span(rear.ori) = {}
    BY <2>1, Parts
  <2>3. \A l \in Block : Where(rear, l) = Where(s, l)
    BY <2>1, Parts
  <2>4. n = s.cnt => Span(rear.ori) = {}
    BY <2>1, Parts
  <2> QED BY <2>2, <2>3, <2>4
<1>5. Span(NoNode.ori) = {}
  BY DEF NoNode, Node, Extent, Span
<1>6. Span(new.ori) = Span(rear.ori)
  <2>1. CASE n = s.cnt
    BY <1>3, <1>5, <2>1
  <2>2. CASE n # s.cnt
    BY <2>2
  <2> QED BY <2>1, <2>2
<1>7. \A l \in Block : l \in Span(new.ori) => Where(new, l) = Where(s, l)
  <2>1. CASE n = s.cnt
    BY <1>5, <2>1
  <2>2. CASE n # s.cnt
    BY <1>3, <2>2
  <2> QED BY <2>1, <2>2
<1>8. \A j \in Nat : F2[j] = IF j = i THEN new ELSE F[j]
  BY DEF Remains
<1> HIDE DEF rear, new
<1>9. \A l : l \in Span(s.ori) <=> l \in Span(dst.ori) \/ l \in Span(new.ori)
  BY <1>3, <1>6
<1>10. \A l : ~ (l \in Span(dst.ori) /\ l \in Span(new.ori))
  BY <1>3, <1>6
<1>11. TreeOnce(R2)
  BY <1>9 DEF Once, TreeOnce, TreeOrRest
<1>12. RestOnce(F2)
  BY <1>8, <1>9 DEF Once, RestOnce
<1>13. TreeOrRest(R2, F2)
  BY <1>8, <1>9, <1>10 DEF Once, RestOnce, TreeOrRest
<1>14. ASSUME NEW l \in Block PROVE Mapped(R2, F2, l) <=> Mapped(R, F, l)
  BY <1>8, <1>9 DEF Mapped
<1>15. ASSUME NEW l \in Block, NEW p
       PROVE  Maps(R2, F2, l, p) <=> IF l \in Span(dst.ori) THEN p = Where(dst, l)
                                                            ELSE Maps(R, F, l, p)
  <2>1. CASE l \in Span(dst.ori)
    <3>1. l \in Span(s.ori) /\ \A m \in R : l \notin Span(m.ori)
      BY <1>9, <2>1 DEF Once, TreeOrRest
    <3>2. \A j \in Nat : l \notin Span(F2[j].ori)
      BY <1>8, <1>9, <1>10, <2>1, <3>1 DEF Once, RestOnce
    <3> QED BY <2>1, <3>1, <3>2 DEF Maps
  <2>2. CASE l \notin Span(dst.ori)
    <3>1. \A j \in Nat : l \in Span(F2[j].ori) /\ p = Where(F2[j], l) <=>
                          l \in Span(F[j].ori) /\ p = Where(F[j], l)
      <4>1. \A j \in Nat : j # i => F2[j] = F[j]
        BY <1>8
      <4>2. F2[i] = new /\ F[i] = s
        BY <1>8
      <4>3. l \in Span(new.ori) <=> l \in Span(s.ori)
        BY <1>9, <2>2
      <4> QED BY <1>7, <4>1, <4>2, <4>3
    <3> QED BY <2>2, <3>1 DEF Maps
  <2> QED BY <2>1, <2>2
<1> QED BY <1>11, <1>12, <1>13, <1>14, <1>15 DEF Once, MovedMap

-----------------------------------------------------------------------------
(* No logical block is in two areas, of the tree or of the loops: pieces   *)
(* are only ever cut from areas, and replacement_area_insert refuses a new *)
(* one that overlaps.  Mapped and Maps tell what an action does to it.     *)
LEMMA InitOnce == Init => TreeInv
<1> SUFFICES ASSUME Init PROVE TreeInv
  OBVIOUS
<1>1. SpaceInv
  BY InitIInv, InitTidy DEF SpaceInv
<1>2. NodesIn(ev) = [i \in Nat |-> NoNode] /\ repTree = {}
  BY NoLoopNodes DEF Init
<1>3. Span(NoNode.ori) = {}
  BY <1>1, NodesType
<1> QED BY <1>1, <1>2, <1>3 DEF TreeInv, Once, TreeOnce, RestOnce, TreeOrRest

LEMMA PopMap ==
  ASSUME TreeInv, Pop
  PROVE  /\ Once(repTree, NodesIn(ev))'
         /\ SameMap(repTree, NodesIn(ev), repTree', NodesIn(ev'))
<1> DEFINE v == Victim
           i == Len(ev)
           F == NodesIn(ev)
<1>1. v \in repTree /\ v.cnt \in Int /\ i \in Nat /\ F[i] = NoNode
  BY PopSplits, NodeForm
<1>2. PICK n \in 1 .. v.cnt, W \in SUBSET NodeIn :
        /\ W = IF n = v.cnt THEN {} ELSE {Rear(v, n)}
        /\ repTree' = (repTree \ {v}) \union W
        /\ NodesIn(ev') = [F EXCEPT ![i] = Lead(v, n)]
  BY PopSplits
<1>3. repTree \subseteq NodeIn /\ F \in [Nat -> NodeIn] /\ Once(repTree, F)
  BY TreeNodes, NodesType DEF TreeInv
<1>4. n \in Int /\ n >= 1 /\ n <= v.cnt
  BY <1>1
<1> DEFINE R2 == repTree'
           F2 == NodesIn(ev')
<1>5. R2 = (repTree \ {v}) \union W /\ F2 = [F EXCEPT ![i] = Lead(v, n)]
  BY <1>2
<1> HIDE DEF v, i, F, R2, F2
<1>6. Once(R2, F2) /\ SameMap(repTree, F, R2, F2)
  BY <1>1, <1>2, <1>3, <1>4, <1>5, SplitMap
<1> QED BY <1>6 DEF R2, F2, F

LEMMA PlaceMap ==
  ASSUME TreeInv, Place, NEW n \in 1 .. Top.rest.cnt, NEW x \in Int, NEW dst,
         dst = Node(Top.rest.ori.start, x, n),
         Span(dst.ori) = Span(Lead(Top.rest, n).ori),
         repTree' = repTree \union {dst},
         NodesIn(ev') = [NodesIn(ev) EXCEPT
                           ![Len(ev)] = Remains(Top.rest, n)]
  PROVE  /\ Once(repTree, NodesIn(ev))'
         /\ Span(dst.ori) \subseteq Span(Top.rest.ori)
         /\ MovedMap(repTree, NodesIn(ev), repTree', NodesIn(ev'), dst)
<1> DEFINE s == Top.rest
           i == Len(ev)
           F == NodesIn(ev)
           R2 == repTree'
           F2 == NodesIn(ev')
<1>1. i \in Nat /\ s = F[i] /\ s.cnt \in Int
  BY PlaceMoves
<1>2. F \in [Nat -> NodeIn] /\ Once(repTree, F)
  BY NodesType DEF TreeInv
<1>3. n \in Int /\ n >= 1 /\ n <= s.cnt
  BY <1>1
<1>4. /\ R2 = repTree \union {dst}
      /\ F2 = [F EXCEPT ![i] = Remains(s, n)]
      /\ Span(dst.ori) = Span(Lead(s, n).ori)
  OBVIOUS
<1> HIDE DEF s, i, F, R2, F2
<1>5. Once(R2, F2) /\ MovedMap(repTree, F, R2, F2, dst)
  BY <1>1, <1>2, <1>3, <1>4, MoveMap
<1>6. Span(dst.ori) \subseteq Span(s.ori)
  <2>1. s \in NodeIn
    BY <1>1, <1>2
  <2>2. Span(Lead(s, n).ori) \union Span(Rear(s, n).ori) = Span(s.ori)
    BY <1>3, <2>1, Parts
  <2> QED BY <1>4, <2>2
<1> QED BY <1>5, <1>6 DEF R2, F2, F, s

LEMMA AllocOnce ==
  ASSUME TreeInv, Alloc
  PROVE  Once(repTree, NodesIn(ev))'
<1>1. ev = <<>> /\ ev' = ev
  BY AllocMaps DEF TreeInv
<1>2. PICK m \in NodeIn : repTree' = RepInsert(repTree, m)
  BY AllocMaps DEF TreeInv
<1>3. CASE repTree' = repTree
  BY <1>1, <1>3 DEF TreeInv, Once
<1>4. CASE \A n \in repTree : ~ Overlap(n.ori, m.ori)
  <2>1. repTree' = repTree \union {m}
    BY <1>2, <1>4 DEF RepInsert
  <2>2. ASSUME NEW n \in repTree, NEW l \in Block PROVE ~ (l \in Span(n.ori) /\ l \in Span(m.ori))
    <3>1. n \in NodeIn
      BY TreeNodes DEF TreeInv
    <3>2. /\ n.ori.start \in Int /\ n.ori.end \in Int /\ m.ori.start \in Int /\ m.ori.end \in Int
      BY <3>1, NodeForm
    <3>3. n.ori.end < m.ori.start \/ m.ori.end < n.ori.start
      BY <1>4 DEF Overlap
    <3> QED BY <3>2, <3>3 DEF Span
  <2>3. \A i \in Nat : NodesIn(ev')[i] = NoNode /\ Span(NodesIn(ev')[i].ori) = {}
    BY <1>1, NoLoopNodes, NodesType DEF TreeInv
  <2>4. TreeOnce(repTree')
    BY <2>1, <2>2 DEF TreeInv, Once, TreeOnce
  <2> QED BY <2>3, <2>4 DEF Once, RestOnce, TreeOrRest
<1> QED BY <1>2, <1>3, <1>4 DEF RepInsert

(* The other steps take areas off the tree, or leave it and the loops'     *)
(* areas as they are.                                                      *)
LEMMA OtherOnce ==
  ASSUME TreeInv, [Next]_vars, ~ Pop, ~ Place, ~ Alloc
  PROVE  /\ NodesIn(ev)' = NodesIn(ev)
         /\ repTree' \subseteq repTree
         /\ ~ DeleteArea => UNCHANGED repTree /\ AllListed' = AllListed
<1>1. CASE DeleteArea
  BY <1>1, DeleteAreaDoes DEF TreeInv
<1>2. CASE Touch
  BY <1>2, TouchFiles DEF TreeInv
<1>3. CASE MakeRoom \/ Evict
  <2>1. ev = <<>>
    BY <1>3 DEF MakeRoom, Searching, Evict, Running
  <2>2. ev' = <<>> \/ \E k \in Int : ev' = <<Frame(0, k)>>
    <3>1. CASE MakeRoom
      <4>1. req.end - blk + 1 \in Int
        BY DEF TreeInv, SpaceInv, IInv, CallIn, RequestIn
      <4> DEFINE left == AreaFree(0, req.end - blk + 1)
      <4>2. left \in Int
        BY <4>1, AreaFreeType DEF Tiers
      <4> HIDE DEF left
      <4>3. ev' = IF left < 0 THEN <<Frame(0, -left)>> ELSE <<>>
        BY <3>1 DEF MakeRoom, left
      <4> QED BY <4>2, <4>3
    <3>2. CASE Evict
      BY <3>2, BlockAreaAssumption DEF Evict
    <3> QED BY <1>3, <3>1, <3>2
  <2>3. NodesIn(ev') = NodesIn(ev)
    BY <2>1, <2>2, NoLoopNodes
  <2>4. UNCHANGED <<pri, repTree>>
    BY <1>3 DEF MakeRoom, Evict, space
  <2> QED BY <2>3, <2>4 DEF AllListed, Listed
<1>4. CASE Evicted
  <2>1. ev # <<>> /\ ev' = Under /\ Top.area = NoNode /\ UNCHANGED <<pri, repTree>>
    BY <1>4 DEF Evicted, Evicting, space
  <2>2. NodesIn(ev') = NodesIn(ev)
    BY <2>1, EndNodes DEF TreeInv, SpaceInv, IInv, Tidy
  <2> QED BY <2>1, <2>2 DEF AllListed, Listed
<1>5. CASE Submit \/ Discard \/ Delete \/ Inserted \/ Issue \/ Issued \/ Deleted
  <2>1. UNCHANGED <<pri, repTree, ev>>
    BY <1>5 DEF Submit, Discard, Delete, Start, Inserted, Issue, Issued, Deleted, Return, space
  <2> QED BY <2>1 DEF AllListed, Listed
<1>6. CASE Fail \/ Halted \/ UNCHANGED vars
  <2>1. UNCHANGED <<pri, repTree, ev>>
    BY <1>6 DEF Fail, IssueUnmapped, IssueSplit, PopEmpty, PopUnlinked, PlaceNone, EraseRoot,
       Stop, Halted, vars, space
  <2> QED BY <2>1 DEF AllListed, Listed
<1> QED BY <1>1, <1>2, <1>3, <1>4, <1>5, <1>6 DEF Next, Step

LEMMA NextTreeInv == TreeInv /\ [Next]_vars => TreeInv'
<1> SUFFICES ASSUME TreeInv, [Next]_vars PROVE Once(repTree, NodesIn(ev))'
  BY NextSpaceInv DEF TreeInv
<1>1. CASE Pop
  BY <1>1, PopMap
<1>2. CASE Place
  <2>1. PICK n \in 1 .. Top.rest.cnt, x \in Int :
          LET dst == Node(Top.rest.ori.start, x, n)
          IN  /\ Span(dst.ori) = Span(Lead(Top.rest, n).ori)
              /\ repTree' = repTree \union {dst}
              /\ NodesIn(ev') = [NodesIn(ev) EXCEPT
                   ![Len(ev)] = Remains(Top.rest, n)]
    BY <1>2, PlaceMoves
  <2> QED BY <1>2, <2>1, PlaceMap
<1>3. CASE Alloc
  BY <1>3, AllocOnce
<1>4. CASE ~ Pop /\ ~ Place /\ ~ Alloc
  <2>1. NodesIn(ev)' = NodesIn(ev) /\ repTree' \subseteq repTree
    BY <1>4, OtherOnce
  <2> QED BY <2>1 DEF TreeInv, Once, TreeOnce, RestOnce, TreeOrRest
<1> QED BY <1>1, <1>2, <1>3, <1>4

LEMMA TreeInvariant == Spec => []TreeInv
  BY InitOnce, NextTreeInv, PTL DEF Spec

-----------------------------------------------------------------------------
(* Replacement loops only run for an insertion or for the ioctl.           *)
Busy == ev # <<>> => pc \in {"alloc", "evict"}

LEMMA NextBusy == Busy /\ [Next]_vars => Busy'
<1> SUFFICES ASSUME Busy, [Next]_vars PROVE Busy'
  OBVIOUS
<1>1. CASE Touch \/ MakeRoom \/ Alloc \/ Inserted \/ Issue \/ Issued
  BY <1>1 DEF Touch, MakeRoom, Alloc, Inserted, Issue, Issued, Searching, Issuing, Running,
     Return, Busy
<1>2. CASE Pop \/ Place \/ Evicted
  BY <1>2 DEF Pop, Place, Evicted, Popping, Placing, Evicting, call, Busy
<1>3. CASE DeleteArea \/ Deleted \/ Submit \/ Discard \/ Evict \/ Delete
  BY <1>3 DEF DeleteArea, Deleting, Deleted, Submit, Discard, Evict, Delete, Start, Running,
     Return, call, Busy
<1>4. CASE Fail \/ Halted \/ UNCHANGED vars
  BY <1>4 DEF Fail, IssueUnmapped, IssueSplit, PopEmpty, PopUnlinked, PlaceNone, EraseRoot,
     Stop, Halted, vars, call, Busy
<1> QED BY <1>1, <1>2, <1>3, <1>4 DEF Next, Step

(* The steps of re_request_bio, and those during which it stands still.    *)
LEMMA IssueSteps ==
  ASSUME Busy, [Next]_vars, pc' = "issue"
  PROVE  \/ Inserted
         \/ Issue
         \/ pc = "issue" /\ UNCHANGED <<pri, repTree, req, blk, off, ev>>
<1>1. CASE Touch \/ MakeRoom \/ Alloc \/ Inserted \/ Issue \/ Issued
  BY <1>1 DEF Touch, MakeRoom, Alloc, Issued, Searching, Running, Return
<1>2. CASE Pop \/ Place \/ Evicted
  BY <1>2 DEF Pop, Place, Evicted, Popping, Placing, Evicting, call, Busy
<1>3. CASE DeleteArea \/ Deleted \/ Submit \/ Discard \/ Evict \/ Delete
  BY <1>3 DEF DeleteArea, Deleting, Deleted, Submit, Discard, Evict, Delete, Start, Running,
     Return, call
<1>4. CASE Fail \/ Halted \/ UNCHANGED vars
  BY <1>4 DEF Fail, IssueUnmapped, IssueSplit, PopEmpty, PopUnlinked, PlaceNone, EraseRoot,
     Stop, Halted, vars, call, space
<1> QED BY <1>1, <1>2, <1>3, <1>4 DEF Next, Step

(* What Issue does to its cursors, and that it gets on.                    *)
LEMMA IssueAdvances ==
  ASSUME IInv, Issue
  PROVE  /\ pc = "issue" /\ pc' = "issue" /\ ev = <<>> /\ UNCHANGED <<space, req, ev>>
         /\ fault = "none" /\ blk <= req.end
         /\ \E n \in At(blk) :
              /\ n \in repTree /\ n \in NodeIn /\ n.cnt \in Int
              /\ n.ori.start \in Int /\ n.ori.end \in Int
              /\ n.ori.start <= blk /\ blk <= n.ori.end /\ n.ori.end = n.ori.start + n.cnt - 1
              /\ blk' = n.ori.end + 1
              /\ off' = off + (IF n.ori.end >= req.end THEN req.end - off + 1 ELSE n.cnt)
              /\ ~ SplitFails(n)
<1>1. PICK n \in At(blk) : /\ ~ SplitFails(n)
                           /\ off' = Piece(n).from + Piece(n).cnt
                           /\ blk' = n.ori.start + n.cnt
  BY DEF Issue
<1>2. /\ n \in NodeIn /\ n.ori.start \in Int /\ n.ori.end \in Int /\ n.cnt \in Int
      /\ n.cnt = n.ori.end - n.ori.start + 1 /\ n.ori.start <= blk /\ blk <= n.ori.end
  BY FoundType
<1>3. n \in repTree
  BY DEF At
<1>4. blk' = n.ori.end + 1 /\ n.ori.end = n.ori.start + n.cnt - 1
  BY <1>1, <1>2
<1>5. off' = off + (IF n.ori.end >= req.end THEN req.end - off + 1 ELSE n.cnt)
  BY <1>1 DEF Piece, LastPiece
<1> QED BY <1>1, <1>2, <1>3, <1>4, <1>5 DEF Issue, Issuing, Running

(* re_request_bio's two cursors agree, and every area it comes to begins   *)
(* where it stands, once that is so of the first or the first reaches to   *)
(* the end of the bio.                                                     *)
Begins(n) == n.ori.start = blk \/ (blk = req.start /\ req.end <= n.ori.end)

InStep ==
  pc = "issue" /\ blk <= req.end /\ StartsClean =>
    off = blk /\ \A n \in At(blk) : Begins(n)

AimInv == TreeInv /\ Busy /\ InStep

LEMMA OneAt ==
  ASSUME TreeInv, NEW l \in Block, NEW m \in At(l), NEW n \in At(l)
  PROVE  m = n
  BY DEF TreeInv, Once, TreeOnce, At

LEMMA NextAimInv == AimInv /\ [Next]_vars => AimInv'
<1> SUFFICES ASSUME AimInv, [Next]_vars PROVE InStep'
  BY NextTreeInv, NextBusy DEF AimInv
<1> SUFFICES ASSUME pc' = "issue", blk' <= req'.end, StartsClean'
             PROVE  off' = blk' /\ (\A n \in At(blk) : Begins(n))'
  BY DEF InStep
<1> USE DEF AimInv
<1>1. /\ IInv /\ req.start \in Int /\ req.end \in Int /\ req.start >= 0 /\ req.end < Total
      /\ blk \in Nat /\ Total \in Nat
  BY Geometry DEF TreeInv, SpaceInv, IInv, CallIn, RequestIn
<1>2. CASE Inserted
  <2>1. /\ blk' = req.start /\ off' = req.start /\ UNCHANGED <<repTree, req>>
    BY <1>2 DEF Inserted, space
  <2>2. req.start \in Block
    BY <1>1, <2>1 DEF Block
  <2>3. PICK m \in At(req.start) : m.ori.start = req.start \/ req.end <= m.ori.end
    BY <2>1 DEF StartsClean, At
  <2>4. ASSUME NEW n \in At(req.start) PROVE n = m
    BY <2>2, <2>3, <2>4, OneAt
  <2> QED BY <2>1, <2>3, <2>4 DEF At, Begins
<1>3. CASE Issue
  <2>1. /\ pc = "issue" /\ blk <= req.end /\ UNCHANGED <<repTree, req>>
    BY <1>1, <1>3, IssueAdvances DEF space
  <2>2. PICK n \in At(blk) :
          /\ n \in repTree /\ n \in NodeIn /\ n.cnt \in Int
          /\ n.ori.start \in Int /\ n.ori.end \in Int
          /\ n.ori.start <= blk /\ blk <= n.ori.end /\ n.ori.end = n.ori.start + n.cnt - 1
          /\ blk' = n.ori.end + 1
          /\ off' = off + (IF n.ori.end >= req.end THEN req.end - off + 1 ELSE n.cnt)
    BY <1>1, <1>3, IssueAdvances
  <2>3. StartsClean
    BY <2>1 DEF StartsClean, At
  <2>4. off = blk /\ Begins(n)
    BY <2>1, <2>3 DEF InStep
  <2>5. n.ori.end < req.end
    BY <1>1, <2>1, <2>2
  <2>6. n.ori.start = blk
    BY <1>1, <2>2, <2>4, <2>5 DEF Begins
  <2>7. off' = blk'
    BY <1>1, <2>2, <2>4, <2>5, <2>6
  <2>8. ASSUME NEW m \in repTree, blk' \in Span(m.ori) PROVE m.ori.start = blk'
    <3>1. m \in NodeIn /\ m.ori.start \in Int /\ m.ori.end \in Int
      BY <2>8, TreeNodes, NodeForm DEF TreeInv
    <3>2. m.ori.start <= blk' /\ blk' <= m.ori.end
      BY <2>8, <3>1 DEF Span
    <3>3. CASE m.ori.start < blk'
      <4>1. n.ori.end \in Span(m.ori) /\ n.ori.end \in Span(n.ori) /\ n.ori.end \in Block
        <5>1. n.ori.end \in Span(n.ori) /\ Span(n.ori) \subseteq Block
          <6>1. n.ori.start <= n.ori.end
            BY <1>1, <2>2
          <6>2. n.ori.end \in Span(n.ori)
            BY <2>2, <6>1 DEF Span
          <6> QED BY <2>2, <6>2, NodeForm
        <5> QED BY <2>2, <3>1, <3>2, <3>3, <5>1 DEF Span
      <4>2. m = n
        BY <2>2, <2>8, <4>1 DEF TreeInv, Once, TreeOnce
      <4> QED BY <2>2, <3>2, <4>2
    <3> QED BY <2>2, <3>1, <3>2, <3>3
  <2> QED BY <2>1, <2>7, <2>8 DEF At, Begins
<1>4. CASE pc = "issue" /\ UNCHANGED <<pri, repTree, req, blk, off, ev>>
  BY <1>4 DEF InStep, StartsClean, At, Begins
<1> QED BY <1>2, <1>3, <1>4, IssueSteps

(* An area has each of its logical blocks at one of its physical blocks.   *)
LEMMA WhereIs ==
  ASSUME NEW n \in NodeIn, NEW l \in Span(n.ori)
  PROVE  Where(n, l) \in Span(n.rep) /\ Where(n, l) \in Block /\ Where(n, l) # -1
<1>1. /\ n.ori.start \in Int /\ n.rep.start \in Int /\ n.cnt \in Int
      /\ Span(n.ori) = n.ori.start .. (n.ori.start + n.cnt - 1)
      /\ Span(n.rep) = n.rep.start .. (n.rep.start + n.cnt - 1)
      /\ Span(n.rep) \subseteq Block
  BY NodeForm
<1>2. Where(n, l) \in Span(n.rep)
  <2> DEFINE o == n.ori.start
             r == n.rep.start
             c == n.cnt
  <2>1. o \in Int /\ r \in Int /\ c \in Int /\ l \in o .. (o + c - 1)
    BY <1>1
  <2>2. Where(n, l) = r + (l - o)
    BY DEF Where
  <2> HIDE DEF o, r, c
  <2>3. r + (l - o) \in r .. (r + c - 1)
    BY <2>1
  <2> QED BY <1>1, <2>2, <2>3 DEF r, c
<1> QED BY <1>1, <1>2 DEF Block

(* A tree area maps its blocks for good when no loop is running.           *)
LEMMA LocAt ==
  ASSUME TreeInv, ev = <<>>, NEW l \in Block, NEW n \in At(l)
  PROVE  Loc[l] = Where(n, l)
<1>1. Areas = repTree
  BY DEF Areas, Range
<1>2. Holders(l) = At(l)
  BY <1>1 DEF Holders, At
<1>3. \A m \in At(l) : m = n
  BY OneAt
<1>4. (CHOOSE m \in Holders(l) : TRUE) = n
  BY <1>2, <1>3
<1> QED BY <1>2, <1>4 DEF Loc

LEMMA InitAim == Init => AimInv
  BY InitOnce DEF Init, AimInv, Busy, InStep

(* Then a piece is part of the area it is sent to.                         *)
LEMMA PieceInArea ==
  ASSUME AimInv, Issuing, StartsClean, NEW n \in At(blk)
  PROVE  LET x == Piece(n)
         IN  /\ ~ SplitFails(n) /\ x.to.start \in Int /\ x.to.end \in Int
             /\ \A p \in Span(x.to) : /\ p \in Block /\ x.from + (p - x.to.start) \in Block
                                     /\ Loc[x.from + (p - x.to.start)] = p
<1>1. /\ pc = "issue" /\ ev = <<>> /\ blk <= req.end /\ TreeInv
      /\ off = blk /\ Begins(n)
  BY DEF Issuing, Running, AimInv, InStep
<1>2. /\ req.start \in Int /\ req.end \in Int /\ blk \in Nat
  BY <1>1 DEF TreeInv, SpaceInv, IInv, CallIn, RequestIn
<1>3. /\ n \in NodeIn /\ n.ori.start \in Int /\ n.ori.end \in Int /\ n.cnt \in Int
      /\ n.cnt = n.ori.end - n.ori.start + 1 /\ n.ori.start <= blk /\ blk <= n.ori.end
      /\ n.rep.start \in Int /\ Span(n.ori) \subseteq Block /\ n \in repTree
  BY <1>1, FoundType DEF TreeInv, SpaceInv, NodeIn, At
<1>4. ~ SplitFails(n)
  BY <1>1, <1>2, <1>3 DEF SplitFails, LastPiece, Begins
<1> DEFINE len == IF n.ori.end >= req.end THEN req.end - off + 1 ELSE n.cnt
           S   == n.rep.start + (blk - n.ori.start)
<1>5. /\ Piece(n).from = off /\ Piece(n).to.start = S
      /\ Piece(n).to.end = S + len - 1
      /\ Span(Piece(n).to) = S .. (S + len - 1)
  BY DEF Piece, LastPiece, Extent, Span
<1>6. S \in Int /\ len \in Int /\ blk + len - 1 <= n.ori.end
  <2>1. CASE n.ori.end >= req.end
    BY SMTT(60), <1>1, <1>2, <1>3, <2>1
  <2>2. CASE ~ (n.ori.end >= req.end)
    <3>1. n.ori.start = blk /\ len = n.cnt
      BY <1>1, <1>2, <1>3, <2>2 DEF Begins
    <3>2. S \in Int
      BY <1>2, <1>3
    <3> HIDE DEF len, S
    <3> QED BY <1>2, <1>3, <3>1, <3>2
  <2> QED BY <2>1, <2>2
<1> HIDE DEF S, len
<1>7. ASSUME NEW p \in S .. (S + len - 1)
      PROVE  p \in Block /\ off + (p - S) \in Block /\ Loc[off + (p - S)] = p
  <2> DEFINE l == off + (p - S)
  <2>1. l \in Int /\ blk <= l /\ l <= n.ori.end /\ p \in Int
    BY <1>1, <1>2, <1>3, <1>6
  <2> HIDE DEF l
  <2>2. n \in At(l) /\ l \in Block
    BY <1>2, <1>3, <2>1 DEF At, Span
  <2>3. Loc[l] = Where(n, l)
    BY <1>1, <2>2, LocAt
  <2>4. Where(n, l) = p
    <3>1. \A r, b, o, q \in Int : r + ((b + (q - (r + (b - o)))) - o) = q
      OBVIOUS
    <3>2. Where(n, l) = n.rep.start + ((blk + (p - (n.rep.start + (blk - n.ori.start))))
                                          - n.ori.start)
      BY <1>1 DEF Where, S, l
    <3>3. blk \in Int
      BY <1>2
    <3> QED BY <1>3, <2>1, <3>1, <3>2, <3>3
  <2>5. Where(n, l) \in Block
    <3>1. l \in Span(n.ori) /\ n \in NodeIn
      BY <1>3, <2>2 DEF At
    <3> QED BY <3>1, WhereIs
  <2> QED BY <2>2, <2>3, <2>4, <2>5 DEF l
<1>8. S + len - 1 \in Int
  BY <1>6
<1> QED BY <1>4, <1>5, <1>6, <1>7, <1>8

LEMMA AimedRight == AimInv => AimedRightIfClean
  BY PieceInArea DEF AimedRightIfClean, Aimed

(* re_request_bio sends every block of a bio to where that block is, and   *)
(* bio_split is never asked for too much, whenever the first area begins   *)
(* with the bio or reaches to its end.                                     *)
THEOREM CleanBiosGoRight == Spec => []AimedRightIfClean
  BY InitAim, AimedRight, NextAimInv, PTL DEF Spec

-----------------------------------------------------------------------------
(* The priority lists keep every block that an insertion has found or      *)
(* mapped, in one of their areas or in one on its way to the next group,   *)
(* also where the tree has refused it.                                     *)
ListedNow(l) == Mapped(AllListed, NodesIn(ev), l)

Covers ==
  /\ pc \in {"search", "alloc"} => \A l \in req.start .. (blk - 1) : ListedNow(l)
  /\ pc = "issue" => blk >= req.start /\ \A l \in req.start .. req.end : ListedNow(l)

NullMet ==
  fault = "nullArea" => pc = "issue" /\ ev = <<>> /\ blk <= req.end /\ At(blk) = {}

FoundInv == TreeInv /\ Busy /\ Covers /\ NullMet

LEMMA PopKeepsListed ==
  ASSUME TreeInv, Pop, NEW l, ListedNow(l)
  PROVE  ListedNow(l)'
<1> DEFINE v == Victim
           i == Len(ev)
           F == NodesIn(ev)
           F2 == NodesIn(ev')
<1>1. v \in NodeIn /\ v.cnt \in Int /\ i \in Nat /\ F[i] = NoNode
  BY PopSplits, NodeForm
<1>2. PICK n \in 1 .. v.cnt, W \in SUBSET NodeIn :
        /\ W = IF n = v.cnt THEN {} ELSE {Rear(v, n)}
        /\ AllListed' = (AllListed \ {v}) \union W
        /\ NodesIn(ev') = [F EXCEPT ![i] = Lead(v, n)]
  BY PopSplits
<1>3. n \in Int /\ n >= 1 /\ n <= v.cnt
  BY <1>1
<1>4. F \in [Nat -> NodeIn] /\ Span(NoNode.ori) = {}
  BY NodesType DEF TreeInv
<1>5. /\ F2[i] = Lead(v, n)
      /\ \A j \in Nat : j # i => F2[j] = F[j]
  BY <1>1, <1>2, <1>4
<1> HIDE DEF v, i, F, F2
<1>6. Span(Lead(v, n).ori) \union Span(Rear(v, n).ori) = Span(v.ori)
  BY <1>1, <1>3, Parts
<1>7. n = v.cnt => Span(Rear(v, n).ori) = {}
  BY <1>1, <1>3, Parts
<1>8. CASE \E m \in AllListed : l \in Span(m.ori)
  <2>1. PICK m \in AllListed : l \in Span(m.ori)
    BY <1>8
  <2>2. CASE m # v
    BY <1>2, <2>1, <2>2 DEF ListedNow, Mapped
  <2>3. CASE m = v
    <3>1. l \in Span(Lead(v, n).ori) \/ l \in Span(Rear(v, n).ori)
      BY <1>6, <2>1, <2>3
    <3>2. CASE l \in Span(Lead(v, n).ori)
      BY <1>1, <1>5, <3>2 DEF ListedNow, Mapped, F2
    <3>3. CASE l \in Span(Rear(v, n).ori)
      <4>1. Rear(v, n) \in AllListed'
        BY <1>2, <1>7, <3>3
      <4> QED BY <3>3, <4>1 DEF ListedNow, Mapped
    <3> QED BY <3>1, <3>2, <3>3
  <2> QED BY <2>2, <2>3
<1>9. CASE \E j \in Nat : l \in Span(F[j].ori)
  <2>1. PICK j \in Nat : l \in Span(F[j].ori)
    BY <1>9
  <2>2. F2[j] = F[j]
    BY <1>1, <1>4, <1>5, <2>1
  <2> QED BY <2>1, <2>2 DEF ListedNow, Mapped, F2
<1> QED BY <1>8, <1>9 DEF ListedNow, Mapped, F

LEMMA PlaceKeepsListed ==
  ASSUME TreeInv, Place, NEW l, ListedNow(l)
  PROVE  ListedNow(l)'
<1> DEFINE s == Top.rest
           i == Len(ev)
           F == NodesIn(ev)
           F2 == NodesIn(ev')
<1>1. s \in NodeIn /\ s.cnt \in Int /\ i \in Nat /\ F[i] = s
  BY PlaceMoves
<1>2. PICK n \in 1 .. s.cnt, x \in Int :
        LET dst == Node(s.ori.start, x, n)
        IN  /\ Span(dst.ori) = Span(Lead(s, n).ori)
            /\ AllListed' = AllListed \union {dst}
            /\ NodesIn(ev') = [F EXCEPT ![i] = Remains(s, n)]
  BY PlaceMoves
<1> DEFINE dst == Node(s.ori.start, x, n)
<1>3. n \in Int /\ n >= 1 /\ n <= s.cnt
  BY <1>1
<1>4. F \in [Nat -> NodeIn]
  BY NodesType DEF TreeInv
<1>5. /\ F2[i] = Remains(s, n)
      /\ \A j \in Nat : j # i => F2[j] = F[j]
  BY <1>1, <1>2, <1>4
<1>6. Span(dst.ori) = Span(Lead(s, n).ori) /\ AllListed' = AllListed \union {dst}
  BY <1>2
<1> HIDE DEF s, i, F, F2, dst
<1>7. Span(Lead(s, n).ori) \union Span(Rear(s, n).ori) = Span(s.ori)
  BY <1>1, <1>3, Parts
<1>8. n = s.cnt => Span(Rear(s, n).ori) = {}
  BY <1>1, <1>3, Parts
<1>9. CASE \E m \in AllListed : l \in Span(m.ori)
  BY <1>6, <1>9 DEF ListedNow, Mapped
<1>10. CASE \E j \in Nat : l \in Span(F[j].ori)
  <2>1. PICK j \in Nat : l \in Span(F[j].ori)
    BY <1>10
  <2>2. CASE j # i
    BY <1>5, <2>1, <2>2 DEF ListedNow, Mapped, F2
  <2>3. CASE j = i /\ l \in Span(dst.ori)
    BY <1>6, <2>3 DEF ListedNow, Mapped
  <2>4. CASE j = i /\ l \notin Span(dst.ori)
    <3>1. l \in Span(Rear(s, n).ori)
      BY <1>1, <1>6, <1>7, <2>1, <2>4
    <3>2. l \in Span(F2[i].ori)
      BY <1>5, <1>8, <3>1 DEF Remains
    <3> QED BY <1>1, <3>2 DEF ListedNow, Mapped, F2
  <2> QED BY <2>2, <2>3, <2>4
<1> QED BY <1>9, <1>10 DEF ListedNow, Mapped, F

LEMMA NextNullMet == Busy /\ NullMet /\ [Next]_vars => NullMet'
<1> SUFFICES ASSUME Busy, NullMet, [Next]_vars, fault' = "nullArea" PROVE NullMet'
  BY DEF NullMet
<1>1. CASE Touch \/ MakeRoom \/ Alloc \/ Inserted \/ Issue \/ Issued
  BY <1>1 DEF Touch, MakeRoom, Alloc, Inserted, Issue, Issued, Searching, Issuing, Running, Return
<1>2. CASE Pop \/ Place \/ Evicted
  BY <1>2 DEF Pop, Place, Evicted, Popping, Placing, Evicting
<1>3. CASE DeleteArea \/ Deleted \/ Submit \/ Discard \/ Evict \/ Delete
  BY <1>3 DEF DeleteArea, Deleting, Deleted, Submit, Discard, Evict, Delete, Start, Running, Return
<1>4. CASE IssueUnmapped
  BY <1>4 DEF IssueUnmapped, Issuing, Running, Stop, NullMet, call, space, At
<1>5. CASE IssueSplit \/ PopEmpty \/ PopUnlinked \/ PlaceNone \/ EraseRoot
  BY <1>5 DEF IssueSplit, PopEmpty, PopUnlinked, PlaceNone, EraseRoot, Stop
<1>6. CASE Halted \/ UNCHANGED vars
  BY <1>6 DEF Halted, vars, call, space, NullMet, At
<1> QED BY <1>1, <1>2, <1>3, <1>4, <1>5, <1>6 DEF Next, Step, Fail

LEMMA NextCovers == TreeInv /\ Busy /\ Covers /\ [Next]_vars => Covers'
<1> SUFFICES ASSUME TreeInv, Busy, Covers, [Next]_vars PROVE Covers'
  OBVIOUS
<1>1. /\ IInv /\ SpaceInv /\ req.start \in Int /\ req.end \in Int /\ blk \in Nat
  BY DEF TreeInv, SpaceInv, IInv, CallIn, RequestIn
<1>2. CASE Touch
  <2>1. /\ AllListed' = AllListed /\ ev' = ev /\ pc = "search" /\ pc' = "search" /\ req' = req
    BY <1>1, <1>2, TouchFiles
  <2>2. PICK n \in At(blk) : blk' = n.ori.end + 1
    BY <1>1, <1>2, TouchFiles
  <2>3. /\ n \in AllListed /\ n.ori.start \in Int /\ n.ori.end \in Int
        /\ n.ori.start <= blk
    BY <1>1, FoundType, TreeNodes DEF At
  <2>4. ASSUME NEW l \in req.start .. (blk' - 1) PROVE ListedNow(l)
    <3>1. CASE l \in req.start .. (blk - 1)
      BY <2>1, <3>1 DEF Covers
    <3>2. CASE l \notin req.start .. (blk - 1)
      <4>1. l \in Span(n.ori)
        BY <1>1, <2>2, <2>3, <3>2 DEF Span
      <4> QED BY <2>3, <4>1 DEF ListedNow, Mapped
    <3> QED BY <3>1, <3>2
  <2>5. \A l : ListedNow(l)' <=> ListedNow(l)
    BY <2>1 DEF ListedNow
  <2> QED BY <2>1, <2>4, <2>5 DEF Covers
<1>3. CASE Alloc
  <2>1. /\ ev' = ev /\ pc = "alloc" /\ pc' = "search" /\ req' = req
    BY <1>1, <1>3, AllocMaps
  <2>2. PICK n \in Int, p \in Int :
          /\ n >= 1 /\ blk' = blk + n
          /\ Span(Node(blk, p, n).ori) = blk .. (blk + n - 1)
          /\ AllListed' = AllListed \union {Node(blk, p, n)}
    BY <1>1, <1>3, AllocMaps
  <2>3. ASSUME NEW l \in req.start .. (blk' - 1) PROVE ListedNow(l)'
    <3>1. CASE l \in req.start .. (blk - 1)
      <4>1. ListedNow(l)
        BY <2>1, <3>1 DEF Covers
      <4> QED BY <2>1, <2>2, <4>1 DEF ListedNow, Mapped
    <3>2. CASE l \notin req.start .. (blk - 1)
      <4>1. l \in Span(Node(blk, p, n).ori)
        BY <1>1, <2>2, <3>2
      <4> QED BY <2>2, <4>1 DEF ListedNow, Mapped
    <3> QED BY <3>1, <3>2
  <2> QED BY <2>1, <2>3 DEF Covers
<1>4. CASE Pop \/ Place
  <2>1. \A l : ListedNow(l) => ListedNow(l)'
    BY <1>4, PopKeepsListed, PlaceKeepsListed
  <2>2. UNCHANGED <<pc, req, blk>>
    BY <1>4 DEF Pop, Place, call
  <2> QED BY <2>1, <2>2 DEF Covers
<1>5. CASE DeleteArea
  BY <1>5 DEF DeleteArea, Deleting, Running, Covers
<1>6. CASE ~ Pop /\ ~ Place /\ ~ Alloc /\ ~ DeleteArea /\ ~ Touch
  <2>1. \A l : ListedNow(l)' <=> ListedNow(l)
    <3>1. NodesIn(ev)' = NodesIn(ev) /\ AllListed' = AllListed
      BY <1>6, OtherOnce
    <3> QED BY <3>1 DEF ListedNow, Mapped
  <2>2. CASE Submit \/ Delete
    <3>1. blk' = req'.start /\ pc' \in {"search", "delete"}
      BY <2>2 DEF Submit, Delete, Start
    <3>2. req'.start \in Int
      BY NextTreeInv DEF TreeInv, SpaceInv, IInv, CallIn, RequestIn
    <3> QED BY <3>1, <3>2 DEF Covers
  <2>3. CASE MakeRoom
    <3>1. pc = "search" /\ pc' = "alloc" /\ UNCHANGED <<req, blk>>
      BY <2>3 DEF MakeRoom, Searching, Running
    <3> QED BY <2>1, <3>1 DEF Covers
  <2>4. CASE Inserted
    <3>1. pc = "search" /\ pc' = "issue" /\ req' = req /\ blk' = req.start /\ blk > req.end
      BY <2>4 DEF Inserted, Running
    <3>2. \A l \in req.start .. req.end : l \in req.start .. (blk - 1)
      BY <1>1, <3>1
    <3> QED BY <1>1, <2>1, <3>1, <3>2 DEF Covers
  <2>5. CASE Issue
    <3>1. pc = "issue" /\ pc' = "issue" /\ req' = req
      BY <1>1, <2>5, IssueAdvances
    <3>2. PICK n \in At(blk) : n.ori.end \in Int /\ blk <= n.ori.end /\ blk' = n.ori.end + 1
      BY <1>1, <2>5, IssueAdvances
    <3> QED BY <1>1, <2>1, <3>1, <3>2 DEF Covers
  <2>6. CASE Discard \/ Evict \/ Issued \/ Deleted
    BY <2>6 DEF Discard, Evict, Issued, Deleted, Return, Running, call, Covers
  <2>7. CASE Evicted
    <3>1. UNCHANGED <<req, blk>> /\ pc' \in {pc, "idle"}
      BY <2>7 DEF Evicted
    <3> QED BY <2>1, <3>1 DEF Covers
  <2>8. CASE Fail \/ Halted \/ UNCHANGED vars
    <3>1. UNCHANGED <<pc, req, blk>>
      BY <2>8 DEF Fail, IssueUnmapped, IssueSplit, PopEmpty, PopUnlinked, PlaceNone, EraseRoot,
         Stop, Halted, vars, call
    <3> QED BY <2>1, <3>1 DEF Covers
  <2> QED BY <1>6, <2>2, <2>3, <2>4, <2>5, <2>6, <2>7, <2>8 DEF Next, Step
<1> QED BY <1>2, <1>3, <1>4, <1>5, <1>6

(* When re_request_bio meets the NULL area of a block, the lists have an   *)
(* area for that block, which this very request made and the tree refused. *)
THEOREM NullAreaOnlyIfRefused == Spec => []NullAreaWasRefused
<1>1. Init => FoundInv
  BY InitOnce DEF Init, FoundInv, Busy, Covers, NullMet
<1>2. FoundInv /\ [Next]_vars => FoundInv'
  BY NextTreeInv, NextBusy, NextCovers, NextNullMet DEF FoundInv
<1>3. FoundInv => NullAreaWasRefused
  <2> SUFFICES ASSUME FoundInv, fault = "nullArea"
               PROVE  \E n \in Refused : blk \in Span(n.ori)
    BY DEF NullAreaWasRefused
  <2>1. /\ pc = "issue" /\ ev = <<>> /\ blk <= req.end /\ At(blk) = {}
        /\ blk >= req.start /\ blk \in Nat /\ req.start \in Int /\ req.end \in Int
    BY DEF FoundInv, NullMet, Covers, TreeInv, SpaceInv, IInv, CallIn, RequestIn
  <2>2. ListedNow(blk)
    BY <2>1 DEF FoundInv, Covers
  <2>3. \A i \in Nat : blk \notin Span(NodesIn(ev)[i].ori)
    BY <2>1, NoLoopNodes, NodesType DEF FoundInv, TreeInv
  <2>4. PICK n \in AllListed : blk \in Span(n.ori)
    BY <2>2, <2>3 DEF ListedNow, Mapped
  <2> QED BY <2>1, <2>4 DEF Refused, At
<1> QED BY <1>1, <1>2, <1>3, PTL DEF Spec

-----------------------------------------------------------------------------
(* A stop leaves everything as it is but the cause, and a mark that an     *)
(* area of another group was met.                                          *)
LEMMA Stopping ==
  ASSUME Fail \/ Halted \/ UNCHANGED vars
  PROVE  /\ UNCHANGED <<avail, pri, repTree, bits, pc, req, blk, off, ev, disk, written>>
         /\ fault' = "none" => fault = "none"
         /\ foreign' = foreign \/ foreign' = TRUE
  BY DEF Fail, IssueUnmapped, IssueSplit, PopEmpty, PopUnlinked, PlaceNone, EraseRoot,
     Stop, Halted, vars, space, call, data

(* The cursor of a call.                                                   *)
LEMMA Cursor ==
  ASSUME TreeInv
  PROVE  req.start \in Int /\ req.end \in Int /\ blk \in Nat
  BY DEF TreeInv, SpaceInv, IInv, CallIn, RequestIn

Ahead == pc \notin {"idle", "evict"} => blk >= req.start

LEMMA NextAhead == TreeInv /\ Busy /\ Ahead /\ [Next]_vars => Ahead'
<1> SUFFICES ASSUME TreeInv, Busy, Ahead, [Next]_vars PROVE Ahead'
  OBVIOUS
<1>1. /\ TreeInv /\ SpaceInv /\ IInv
      /\ req.start \in Int /\ req.end \in Int /\ blk \in Nat
  BY Cursor DEF TreeInv, SpaceInv
<1>2. CASE Touch \/ DeleteArea
  <2>1. /\ UNCHANGED <<pc, req>> /\ pc \in {"search", "delete"}
        /\ \E n \in At(blk) : blk' = n.ori.end + 1
    BY <1>1, <1>2, TouchFiles, DeleteAreaDoes
  <2>2. blk' \in Int /\ blk' >= blk
    BY <1>1, <2>1, FoundType
  <2> QED BY <1>1, <2>1, <2>2 DEF Ahead
<1>3. CASE Alloc
  <2>1. UNCHANGED req /\ pc = "alloc" /\ \E n \in Int : n >= 1 /\ blk' = blk + n
    BY <1>1, <1>3, AllocMaps
  <2> QED BY <1>1, <2>1 DEF Ahead
<1>4. CASE Issue
  <2>1. /\ UNCHANGED req /\ pc = "issue" /\ \E n \in At(blk) : blk' = n.ori.end + 1
    BY <1>1, <1>4, IssueAdvances
  <2>2. blk' \in Int /\ blk' >= blk
    BY <1>1, <2>1, FoundType
  <2> QED BY <1>1, <2>1, <2>2 DEF Ahead
<1>5. CASE Submit \/ Delete \/ Inserted
  <2>1. blk' = req'.start
    BY <1>5 DEF Submit, Delete, Start, Inserted
  <2>2. req'.start \in Int
    BY <1>1, NextTreeInv DEF TreeInv, SpaceInv, IInv, CallIn, RequestIn
  <2> QED BY <2>1, <2>2 DEF Ahead
<1>6. CASE MakeRoom \/ Pop \/ Place \/ Evicted
  <2>1. UNCHANGED <<req, blk>> /\ (pc' \in {"idle", "evict"} \/ pc \notin {"idle", "evict"})
    BY <1>6 DEF MakeRoom, Searching, Running, Pop, Popping, Place, Placing, Evicted, Evicting,
       call, Busy
  <2> QED BY <2>1 DEF Ahead
<1>7. CASE Discard \/ Evict \/ Issued \/ Deleted
  BY <1>7 DEF Discard, Evict, Issued, Deleted, Return, Running, call, Ahead
<1>8. CASE Fail \/ Halted \/ UNCHANGED vars
  BY <1>8, Stopping DEF Ahead
<1> QED BY <1>2, <1>3, <1>4, <1>5, <1>6, <1>7, <1>8 DEF Next, Step

(* The free blocks of group 0 hold all that is left of the request, so     *)
(* that nothing has to be demoted for it any more.                         *)
Roomy == ev = <<>> /\ Cardinality(avail[0]) >= req.end - blk + 1

(* A request for which the tree has refused an area has a block that no    *)
(* area of the tree maps: the first of the refused area.  It meets that    *)
(* block when it is re-issued, at the latest.                              *)
Doomed(l) ==
  /\ ~ Mapped(repTree, NodesIn(ev), l)
  /\ IF pc = "issue" THEN blk <= l ELSE l < blk

RefusedDoom ==
  fault = "none" /\ Refused # {} =>
    /\ pc \in {"search", "alloc", "issue"}
    /\ \E l \in Block : l >= req.start /\ l <= req.end /\ Doomed(l)

AllocUnmapped == pc = "alloc" => ~ Mapped(repTree, NodesIn(ev), blk)

RefusedRoom == ~ foreign /\ Refused # {} /\ pc \in {"search", "alloc"} => Roomy

DoomInv ==
  TreeInv /\ RoomInv /\ Busy /\ Ahead /\ RefusedDoom /\ AllocUnmapped /\ RefusedRoom

(* Nothing is mapped where the tree has no area and no loop runs.          *)
LEMMA NowhereMapped ==
  ASSUME TreeInv, ev = <<>>, NEW l
  PROVE  Mapped(repTree, NodesIn(ev), l) <=> At(l) # {}
<1>1. \A i \in Nat : Span(NodesIn(ev)[i].ori) = {}
  BY NoLoopNodes, NodesType DEF TreeInv
<1> QED BY <1>1 DEF Mapped, At

(* Where the tree gains no area, no block is mapped anew.                  *)
LEMMA StaysUnmapped ==
  ASSUME repTree' \subseteq repTree, NodesIn(ev)' = NodesIn(ev), NEW l,
         Mapped(repTree, NodesIn(ev), l)'
  PROVE  Mapped(repTree, NodesIn(ev), l)
  BY DEF Mapped

LEMMA PopRefuses ==
  ASSUME TreeInv, Pop
  PROVE  /\ Refused' \subseteq Refused /\ ev # <<>> /\ UNCHANGED <<call, fault, foreign>>
         /\ \A l \in Block : Mapped(repTree, NodesIn(ev), l)' <=> Mapped(repTree, NodesIn(ev), l)
<1>1. /\ UNCHANGED <<call, fault, foreign>> /\ ev # <<>>
      /\ \E W : repTree' = (repTree \ {Victim}) \union W /\ AllListed' = (AllListed \ {Victim}) \union W
  BY PopSplits
<1>2. Refused' \subseteq Refused
  BY <1>1 DEF Refused
<1>3. \A l \in Block : Mapped(repTree', NodesIn(ev'), l) <=> Mapped(repTree, NodesIn(ev), l)
  BY PopMap DEF SameMap
<1> QED BY <1>1, <1>2, <1>3

LEMMA PlaceRefuses ==
  ASSUME TreeInv, Place
  PROVE  /\ Refused' \subseteq Refused /\ ev # <<>> /\ UNCHANGED <<call, fault, foreign>>
         /\ \A l \in Block : Mapped(repTree, NodesIn(ev), l)' <=> Mapped(repTree, NodesIn(ev), l)
<1>1. UNCHANGED <<call, fault, foreign>> /\ ev # <<>>
  BY PlaceMoves
<1>2. PICK n \in 1 .. Top.rest.cnt, x \in Int :
        LET dst == Node(Top.rest.ori.start, x, n)
        IN  /\ Span(dst.ori) = Span(Lead(Top.rest, n).ori)
            /\ repTree' = repTree \union {dst} /\ AllListed' = AllListed \union {dst}
            /\ NodesIn(ev') = [NodesIn(ev) EXCEPT ![Len(ev)] = Remains(Top.rest, n)]
  BY PlaceMoves
<1>3. Refused' \subseteq Refused
  BY <1>2 DEF Refused
<1>4. \A l \in Block : Mapped(repTree', NodesIn(ev'), l) <=> Mapped(repTree, NodesIn(ev), l)
  <2> DEFINE dst == Node(Top.rest.ori.start, x, n)
  <2>1. MovedMap(repTree, NodesIn(ev), repTree', NodesIn(ev'), dst)
    BY <1>2, PlaceMap
  <2> HIDE DEF dst
  <2> QED BY <2>1 DEF MovedMap
<1> QED BY <1>1, <1>3, <1>4

LEMMA NextAllocUnmapped == DoomInv /\ [Next]_vars => AllocUnmapped'
<1> SUFFICES ASSUME DoomInv, [Next]_vars, pc' = "alloc"
             PROVE  ~ Mapped(repTree, NodesIn(ev), blk)'
  BY DEF AllocUnmapped
<1>1. TreeInv /\ blk \in Nat
  BY Cursor DEF DoomInv
<1>2. CASE MakeRoom
  <2>1. ev = <<>> /\ At(blk) = {} /\ UNCHANGED <<repTree, blk>> /\ NodesIn(ev)' = NodesIn(ev)
    <3>1. ~ Pop /\ ~ Place /\ ~ Alloc
      BY <1>2 DEF MakeRoom, Searching, Running, Pop, Popping, Place, Placing, Evicting, Alloc
    <3> QED BY <1>1, <1>2, <3>1, OtherOnce DEF MakeRoom, Searching, Running, space
  <2>2. ~ Mapped(repTree, NodesIn(ev), blk)
    BY <1>1, <2>1, NowhereMapped
  <2> QED BY <2>1, <2>2
<1>3. CASE Pop \/ Place
  <2>1. UNCHANGED <<pc, req, blk>>
    BY <1>1, <1>3, PopRefuses, PlaceRefuses DEF call
  <2>2. blk \in Block
    <3>1. pc = "alloc"
      BY <2>1
    <3> QED BY <1>1, <3>1, Geometry DEF TreeInv, SpaceInv, IInv, CallIn, RequestIn, Block
  <2> QED BY <1>1, <1>3, <2>1, <2>2, PopRefuses, PlaceRefuses DEF DoomInv, AllocUnmapped
<1>4. CASE Evicted
  <2>1. pc = "alloc" /\ UNCHANGED <<blk, repTree>> /\ NodesIn(ev)' = NodesIn(ev)
    <3>1. ~ Pop /\ ~ Place /\ ~ Alloc
      BY <1>4 DEF Evicted, Evicting, Pop, Popping, Place, Placing, Alloc, Running
    <3> QED BY <1>1, <1>4, <3>1, OtherOnce DEF Evicted, Evicting, space
  <2> QED BY <2>1 DEF DoomInv, AllocUnmapped
<1>5. CASE Fail \/ Halted \/ UNCHANGED vars
  BY <1>5, Stopping DEF DoomInv, AllocUnmapped
<1>6. CASE Touch \/ Alloc \/ Inserted \/ Issue \/ Issued \/ DeleteArea \/ Deleted
  BY <1>6 DEF Touch, Alloc, Inserted, Issue, Issued, DeleteArea, Deleting, Deleted, Searching,
     Issuing, Running, Return
<1>7. CASE Submit \/ Discard \/ Evict \/ Delete
  BY <1>7 DEF Submit, Discard, Evict, Delete, Start, Running, call
<1> QED BY <1>2, <1>3, <1>4, <1>5, <1>6, <1>7 DEF Next, Step

LEMMA TouchRoomy ==
  ASSUME TreeInv, Touch, Roomy
  PROVE  Roomy'
<1>1. SpaceInv /\ IInv /\ blk \in Nat /\ req.end \in Int /\ avail[0] \subseteq Block
  BY Cursor, FamiliesType DEF TreeInv, SpaceInv, Tiers
<1>2. UNCHANGED <<avail, req, ev>> /\ \E n \in At(blk) : blk' = n.ori.end + 1
  BY <1>1, TouchFiles
<1>3. blk' \in Int /\ blk' >= blk
  BY <1>1, <1>2, FoundType
<1>4. Cardinality(avail[0]) \in Nat
  BY <1>1, BlockSets
<1> QED BY <1>1, <1>2, <1>3, <1>4 DEF Roomy

(* The counter and the free list of group 0 agree before MakeRoom.         *)
LEMMA MakeRoomCounts ==
  ASSUME RoomInv, MakeRoom, ~ foreign
  PROVE  LET left == Cardinality(avail[0]) - (req.end - blk + 1)
         IN  left \in Int /\ ev' = IF left < 0 THEN <<Frame(0, -left)>> ELSE <<>>
<1> DEFINE left == AreaFree(0, req.end - blk + 1)
<1>1. SpaceInv /\ AtHome /\ ev = <<>> /\ 0 \in Tiers
  BY DEF RoomInv, MakeRoom, Searching, Running, Tiers
<1>2. blk \in Nat /\ req.end \in Int
  BY <1>1 DEF SpaceInv, IInv, CallIn, RequestIn
<1>3. Cardinality(avail[0]) = AreaFree(0, 0)
  BY <1>1, Counts DEF Accounting
<1>4. AreaFree(0, 0) \in Int /\ left = AreaFree(0, 0) - (req.end - blk + 1)
  <2>1. Cardinality(bits \intersect TierBlocks(0)) \in Nat /\ AreaBlocks[0] \in Nat
    BY <1>1, BlockSets, Sizes, Geometry
  <2> QED BY <1>2, <2>1 DEF AreaFree
<1>5. ev' = IF left < 0 THEN <<Frame(0, -left)>> ELSE <<>>
  BY DEF MakeRoom
<1> HIDE DEF left
<1> QED BY <1>2, <1>3, <1>4, <1>5

LEMMA MakeRoomRoomy ==
  ASSUME RoomInv, MakeRoom, ~ foreign, Roomy
  PROVE  Roomy'
<1> DEFINE left == Cardinality(avail[0]) - (req.end - blk + 1)
<1>1. blk \in Nat /\ req.end \in Int /\ UNCHANGED <<avail, req, blk>>
  BY DEF RoomInv, SpaceInv, IInv, CallIn, RequestIn, MakeRoom, space
<1>2. left \in Int /\ ev' = IF left < 0 THEN <<Frame(0, -left)>> ELSE <<>>
  BY MakeRoomCounts
<1>3. left >= 0
  <2>1. Cardinality(avail[0]) \in Int
    BY BlockSets, FamiliesType DEF RoomInv, SpaceInv, Tiers
  <2> QED BY <1>1, <2>1 DEF Roomy
<1> HIDE DEF left
<1> QED BY <1>1, <1>2, <1>3 DEF Roomy

LEMMA AllocRoomy ==
  ASSUME RoomInv, Alloc
  PROVE  Roomy'
<1>1. /\ SpaceInv /\ IInv /\ blk \in Nat /\ req.end \in Int /\ avail[0] \subseteq Block
      /\ 0 \in Tiers /\ avail \in [Tiers -> SUBSET Block]
  BY FamiliesType DEF RoomInv, SpaceInv, IInv, CallIn, RequestIn, Tiers
<1>2. ev = <<>> /\ ev' = <<>> /\ pc = "alloc" /\ fault = "none" /\ UNCHANGED req
  BY <1>1, AllocMaps
<1>3. PICK n \in Int, p \in Int :
        LET area == Node(blk, p, n)
        IN  /\ n >= 1 /\ blk' = blk + n /\ area \in NodeIn
            /\ Span(area.rep) \subseteq avail[0]
            /\ avail' = [avail EXCEPT ![0] = @ \ Span(area.rep)]
  BY <1>1, AllocMaps
<1> DEFINE area == Node(blk, p, n)
<1>4. Cardinality(avail[0]) >= req.end - blk + 1
  BY <1>1, <1>2, RoomMade DEF RoomWasMade, Running
<1>5. /\ area.cnt = n /\ area \in NodeIn /\ Span(area.rep) \subseteq avail[0]
      /\ blk' = blk + n /\ n >= 1 /\ n \in Int
  BY <1>3 DEF Node
<1>6. avail'[0] = avail[0] \ Span(area.rep)
  BY <1>1, <1>3
<1> HIDE DEF area
<1>7. Cardinality(Span(area.rep)) = n
  BY <1>5, NodeBlocks
<1>8. /\ Cardinality(avail[0]) = Cardinality(avail'[0]) + n
      /\ Cardinality(avail'[0]) \in Nat
  <2>1. /\ avail'[0] \subseteq Block /\ Span(area.rep) \subseteq Block
        /\ avail'[0] \intersect Span(area.rep) = {}
        /\ avail'[0] \union Span(area.rep) = avail[0]
    BY <1>1, <1>5, <1>6
  <2> QED BY <1>7, <2>1, BlockSets
<1>9. Cardinality(avail'[0]) >= req.end - blk' + 1
  BY <1>1, <1>4, <1>5, <1>8
<1> QED BY <1>2, <1>9 DEF Roomy

LEMMA NextRefusedRoom == DoomInv /\ [Next]_vars => RefusedRoom'
<1> SUFFICES ASSUME DoomInv, [Next]_vars, ~ foreign', Refused' # {},
                    pc' \in {"search", "alloc"}
             PROVE  Roomy'
  BY DEF RefusedRoom
<1>1. /\ TreeInv /\ SpaceInv /\ RoomInv
  BY DEF DoomInv, TreeInv
<1>2. CASE Touch
  <2>1. /\ UNCHANGED repTree /\ AllListed' = AllListed /\ ~ foreign /\ pc = "search"
    BY <1>1, <1>2, TouchFiles
  <2> QED BY <1>1, <1>2, <2>1, TouchRoomy DEF DoomInv, RefusedRoom, Refused
<1>3. CASE MakeRoom
  <2>1. /\ UNCHANGED <<pri, repTree, foreign>> /\ pc = "search"
    BY <1>3 DEF MakeRoom, Searching, Running, space
  <2>2. Refused' = Refused
    BY <2>1 DEF Refused, AllListed, Listed
  <2> QED BY <1>1, <1>3, <2>1, <2>2, MakeRoomRoomy DEF DoomInv, RefusedRoom
<1>4. CASE Alloc
  BY <1>1, <1>4, AllocRoomy
<1>5. CASE Pop \/ Place
  <2>1. Refused # {} /\ ev # <<>> /\ UNCHANGED <<pc, foreign>>
    BY <1>1, <1>5, PopRefuses, PlaceRefuses DEF call
  <2> QED BY <2>1 DEF DoomInv, RefusedRoom, Roomy
<1>6. CASE Evicted
  <2>1. ev # <<>> /\ UNCHANGED <<pri, repTree, foreign>> /\ pc' = pc
    BY <1>6 DEF Evicted, Evicting, space
  <2>2. Refused' = Refused
    BY <2>1 DEF Refused, AllListed, Listed
  <2> QED BY <2>1, <2>2 DEF DoomInv, RefusedRoom, Roomy
<1>7. CASE Fail \/ Halted \/ UNCHANGED vars
  <2>1. UNCHANGED <<avail, pri, repTree, req, blk, ev, pc>> /\ ~ foreign
    BY <1>7, Stopping DEF DoomInv, TreeInv, SpaceInv, IInv
  <2>2. Refused' = Refused
    BY <2>1 DEF Refused, AllListed, Listed
  <2> QED BY <2>1, <2>2 DEF DoomInv, RefusedRoom, Roomy
<1>8. CASE Submit \/ Discard \/ Evict \/ Delete
  <2>1. UNCHANGED <<pri, repTree>> /\ pc = "idle" /\ fault = "none"
    BY <1>8 DEF Submit, Discard, Evict, Delete, Start, Running, space
  <2>2. Refused' = Refused
    BY <2>1 DEF Refused, AllListed, Listed
  <2> QED BY <2>1, <2>2 DEF DoomInv, RefusedDoom
<1>9. CASE Inserted \/ Issue \/ Issued \/ DeleteArea \/ Deleted
  BY <1>9 DEF Inserted, Issue, Issued, DeleteArea, Deleting, Deleted, Issuing, Running, Return
<1> QED BY <1>2, <1>3, <1>4, <1>5, <1>6, <1>7, <1>8, <1>9 DEF Next, Step

LEMMA NextRefusedDoom == DoomInv /\ [Next]_vars => RefusedDoom'
<1> SUFFICES ASSUME DoomInv, [Next]_vars, fault' = "none", Refused' # {}
             PROVE  /\ pc' \in {"search", "alloc", "issue"}
                    /\ \E l \in Block : l >= req'.start /\ l <= req'.end /\ Doomed(l)'
  BY DEF RefusedDoom
<1>1. /\ TreeInv /\ SpaceInv /\ IInv
      /\ req.start \in Int /\ req.end \in Int /\ blk \in Nat
  BY Cursor DEF DoomInv, TreeInv, SpaceInv
<1>2. ASSUME fault = "none", Refused # {}
      PROVE  /\ pc \in {"search", "alloc", "issue"}
             /\ \E l \in Block : l >= req.start /\ l <= req.end /\ Doomed(l)
  BY <1>2 DEF DoomInv, RefusedDoom
<1>3. CASE Touch
  <2>1. /\ UNCHANGED <<repTree, req, ev>> /\ AllListed' = AllListed /\ fault = "none"
        /\ pc = "search" /\ pc' = "search" /\ \E n \in At(blk) : blk' = n.ori.end + 1
    BY <1>1, <1>3, TouchFiles
  <2>2. blk' \in Int /\ blk' >= blk
    BY <1>1, <2>1, FoundType
  <2>3. Refused # {}
    BY <2>1 DEF Refused
  <2>4. PICK l \in Block : l >= req.start /\ l <= req.end /\ Doomed(l)
    BY <1>2, <2>1, <2>3
  <2>5. l \in Int
    BY Geometry DEF Block
  <2>6. Doomed(l)'
    BY <1>1, <2>1, <2>2, <2>4, <2>5 DEF Doomed, Mapped
  <2> QED BY <2>1, <2>4, <2>6
<1>4. CASE Alloc
  <2>1. /\ ev = <<>> /\ ev' = ev /\ pc = "alloc" /\ pc' = "search" /\ req' = req
        /\ fault = "none" /\ blk <= req.end
    BY <1>1, <1>4, AllocMaps
  <2>2. PICK n \in Int, p \in Int :
          LET area == Node(blk, p, n)
          IN  /\ n >= 1 /\ blk' = blk + n
              /\ Span(area.ori) = blk .. (blk + n - 1)
              /\ repTree' = RepInsert(repTree, area)
              /\ AllListed' = AllListed \union {area}
    BY <1>1, <1>4, AllocMaps
  <2> DEFINE area == Node(blk, p, n)
  <2>3. /\ repTree' = RepInsert(repTree, area) /\ AllListed' = AllListed \union {area}
        /\ n >= 1 /\ blk' = blk + n /\ Span(area.ori) = blk .. (blk + n - 1)
        /\ n \in Int
    BY <2>2
  <2> HIDE DEF area
  <2>4. CASE Refused # {}
    <3>1. PICK l \in Block : l >= req.start /\ l <= req.end /\ Doomed(l)
      BY <1>2, <2>1, <2>4
    <3>2. l \in Int /\ l < blk
      BY <2>1, <3>1, Geometry DEF Block, Doomed
    <3>3. ~ Mapped(repTree', NodesIn(ev'), l)
      <4>1. ~ Mapped(repTree, NodesIn(ev), l)
        BY <3>1 DEF Doomed
      <4>2. l \notin Span(area.ori)
        BY <1>1, <2>3, <3>2
      <4>3. repTree' \subseteq repTree \union {area}
        BY <2>3 DEF RepInsert
      <4> QED BY <2>1, <4>1, <4>2, <4>3 DEF Mapped
    <3>4. Doomed(l)'
      BY <1>1, <2>1, <2>3, <3>2, <3>3 DEF Doomed
    <3> QED BY <2>1, <3>1, <3>4
  <2>5. CASE Refused = {}
    <3>1. repTree' # repTree \union {area}
      BY <2>3, <2>5 DEF Refused
    <3>2. repTree' = repTree
      BY <2>3, <3>1 DEF RepInsert
    <3>3. ~ Mapped(repTree, NodesIn(ev), blk)
      BY <2>1 DEF DoomInv, AllocUnmapped
    <3>4. PICK b \in Block : b = blk
      <4>1. blk \in Block
        BY <1>1, <2>1, Geometry DEF TreeInv, SpaceInv, IInv, CallIn, RequestIn, Block
      <4> QED BY <4>1
    <3>5. Doomed(b)'
      BY <1>1, <2>1, <2>3, <3>2, <3>3, <3>4 DEF Doomed
    <3>6. b >= req.start /\ b <= req.end
      BY <1>1, <2>1, <3>4 DEF DoomInv, Ahead, IInv, CallIn
    <3> QED BY <2>1, <3>4, <3>5, <3>6
  <2> QED BY <2>4, <2>5
<1>5. CASE Pop \/ Place
  <2>1. /\ UNCHANGED <<pc, req, blk, fault>> /\ Refused' \subseteq Refused
        /\ \A l \in Block : Mapped(repTree, NodesIn(ev), l)' <=> Mapped(repTree, NodesIn(ev), l)
    BY <1>1, <1>5, PopRefuses, PlaceRefuses DEF call
  <2>2. /\ pc \in {"search", "alloc", "issue"}
        /\ \E l \in Block : l >= req.start /\ l <= req.end /\ Doomed(l)
    BY <1>2, <2>1
  <2> QED BY <2>1, <2>2 DEF Doomed
<1>6. CASE DeleteArea
  <2>1. /\ pc = "delete" /\ fault = "none"
        /\ \E n : repTree' = repTree \ {n} /\ AllListed' = AllListed \ {n}
    BY <1>1, <1>6, DeleteAreaDoes
  <2>2. Refused' \subseteq Refused
    BY <2>1 DEF Refused
  <2> QED BY <1>2, <2>1, <2>2
<1>7. CASE ~ Pop /\ ~ Place /\ ~ Alloc /\ ~ DeleteArea /\ ~ Touch
  <2>1. NodesIn(ev)' = NodesIn(ev) /\ UNCHANGED repTree /\ Refused' = Refused
    <3>1. NodesIn(ev)' = NodesIn(ev) /\ UNCHANGED repTree /\ AllListed' = AllListed
      BY <1>1, <1>7, OtherOnce
    <3> QED BY <3>1 DEF Refused
  <2>2. fault = "none" => /\ pc \in {"search", "alloc", "issue"}
                          /\ \E l \in Block : l >= req.start /\ l <= req.end /\ Doomed(l)
    BY <1>2, <2>1
  <2>3. \A l : Mapped(repTree, NodesIn(ev), l)' <=> Mapped(repTree, NodesIn(ev), l)
    BY <2>1
  <2>4. CASE Submit \/ Discard \/ Evict \/ Delete \/ Deleted
    <3>1. fault = "none" /\ pc \in {"idle", "delete"}
      BY <2>4 DEF Submit, Discard, Evict, Delete, Start, Deleted, Running
    <3> QED BY <2>2, <3>1
  <2>5. CASE MakeRoom
    <3>1. /\ fault = "none" /\ pc = "search" /\ pc' = "alloc" /\ UNCHANGED <<req, blk>>
      BY <2>5 DEF MakeRoom, Searching, Running
    <3> QED BY <2>2, <2>3, <3>1 DEF Doomed
  <2>6. CASE Inserted
    <3>1. /\ fault = "none" /\ pc = "search" /\ pc' = "issue" /\ req' = req /\ blk' = req.start
      BY <2>6 DEF Inserted, Running
    <3> QED BY <2>2, <2>3, <3>1 DEF Doomed
  <2>7. CASE Issue
    <3>1. pc = "issue" /\ pc' = "issue" /\ req' = req /\ ev = <<>> /\ fault = "none"
      BY <1>1, <2>7, IssueAdvances
    <3>2. PICK n \in At(blk) :
            /\ n.ori.start \in Int /\ n.ori.end \in Int /\ n.ori.start <= blk
            /\ blk' = n.ori.end + 1 /\ n \in repTree
      BY <1>1, <2>7, IssueAdvances
    <3>3. PICK l \in Block : l >= req.start /\ l <= req.end /\ Doomed(l)
      BY <2>2, <3>1
    <3>4. l \in Int /\ l >= blk /\ l \notin Span(n.ori)
      BY <3>1, <3>2, <3>3, Geometry DEF Block, Doomed, Mapped
    <3>5. l >= blk'
      BY <1>1, <3>2, <3>4 DEF Span
    <3>6. Doomed(l)'
      BY <2>3, <3>1, <3>2, <3>3, <3>4, <3>5 DEF Doomed
    <3> QED BY <3>1, <3>3, <3>6
  <2>8. CASE Issued
    <3>1. fault = "none" /\ pc = "issue" /\ blk > req.end
      BY <2>8 DEF Issued, Running
    <3>2. PICK l \in Block : l <= req.end /\ Doomed(l)
      BY <2>2, <3>1
    <3>3. l \in Int /\ l >= blk
      BY <3>1, <3>2, Geometry DEF Block, Doomed
    <3> QED BY <1>1, <3>1, <3>2, <3>3
  <2>9. CASE Evicted
    <3>1. pc' = pc \/ pc = "evict"
      BY <2>9 DEF Evicted
    <3>2. UNCHANGED <<req, blk, fault>>
      BY <2>9 DEF Evicted
    <3> QED BY <2>2, <2>3, <3>1, <3>2 DEF Doomed
  <2>10. CASE Fail \/ Halted \/ UNCHANGED vars
    <3>1. UNCHANGED <<pc, req, blk>> /\ fault = "none"
      BY <2>10, Stopping
    <3> QED BY <2>2, <2>3, <3>1 DEF Doomed
  <2> QED BY <1>7, <2>4, <2>5, <2>6, <2>7, <2>8, <2>9, <2>10 DEF Next, Step
<1> QED BY <1>3, <1>4, <1>5, <1>6, <1>7

LEMMA InitDoom == Init => DoomInv
<1> SUFFICES ASSUME Init PROVE DoomInv
  OBVIOUS
<1>1. Refused = {}
  BY DEF Init, Refused, AllListed, Listed, Range
<1> QED BY <1>1, InitOnce, InitRoom DEF Init, DoomInv, Busy, Ahead, RefusedDoom,
   AllocUnmapped, RefusedRoom

LEMMA NextDoomInv == DoomInv /\ [Next]_vars => DoomInv'
  BY NextTreeInv, NextRoomInv, NextBusy, NextAhead, NextRefusedDoom, NextAllocUnmapped, NextRefusedRoom
     DEF DoomInv

LEMMA DoomInvariant == Spec => []DoomInv
  BY InitDoom, NextDoomInv, PTL DEF Spec

(* As long as no demoted area has been found or deleted, no area that the  *)
(* tree refused becomes a victim: none is left when a request begins, and  *)
(* a request that has one needs no more room, for its first area got all   *)
(* of the room that the request would need if none of it were mapped.      *)
THEOREM VictimsAreInTheTree == Spec => []VictimInTree
<1>1. DoomInv => VictimInTree
  <2> SUFFICES ASSUME DoomInv, ~ foreign, Popping, pri[Top.src] # <<>>
               PROVE  Victim \in repTree
    BY DEF VictimInTree
  <2>1. ev # <<>> /\ fault = "none" /\ pc \in {"alloc", "evict"}
    BY DEF Popping, Evicting, DoomInv, Busy
  <2>2. Refused = {}
    BY <2>1 DEF DoomInv, RefusedDoom, RefusedRoom, Roomy
  <2>3. Victim \in AllListed
    <3>1. /\ ev \in Seq(FrameIn) /\ pri \in [Tiers -> Seq(NodeIn)]
      BY DEF DoomInv, TreeInv, SpaceInv, IInv, SpaceIn, PriIn
    <3>2. Top.src \in Tiers
      BY <2>1, <3>1, StackType DEF FrameIn, Tiers
    <3>3. Victim \in Range(pri[Top.src])
      <4>1. pri[Top.src] \in Seq(NodeIn) /\ pri[Top.src] # <<>>
        BY <3>1, <3>2
      <4>2. Len(pri[Top.src]) \in DOMAIN pri[Top.src]
        BY <4>1, LenProperties, EmptySeq
      <4> QED BY <4>2 DEF Victim, Last, Range
    <3> QED BY <3>2, <3>3 DEF AllListed, Listed
  <2> QED BY <2>2, <2>3 DEF Refused
<1> QED BY <1>1, DoomInvariant, PTL

-----------------------------------------------------------------------------
(* The areas of group 0 that have blocks of the part of the request found  *)
(* or mapped so far, and the blocks of a set of areas.                     *)
Used == { n \in Listed(0) : \E l \in req.start .. (blk - 1) : l \in Span(n.ori) }

SpanOf(U) == UNION { Span(n.rep) : n \in U }

Stay == \A l \in req.start .. (blk - 1) : \E n \in Listed(0) : l \in Span(n.ori)

(* As long as nothing has been mapped for a request, the areas it has      *)
(* found are the first of the list, the latest found first.  The last of   *)
(* them begins at f, which is before the request, so that they have blk - f *)
(* blocks; and a loop that makes room takes no more than is missing.       *)
InOrder ==
  \A a, b : Before(pri[0], a, b) /\ b \in Used => a \in Used /\ b.ori.end < a.ori.start

UsedFrom(f) ==
  /\ f \in Int /\ f <= req.start
  /\ \A n \in Used : f <= n.ori.start /\ n.ori.end < blk
  /\ Used # {} => \E n \in Used : n.ori.start = f
  /\ Cardinality(SpanOf(Used)) = blk - f

Missing == ev # <<>> => Cardinality(avail[0]) + Wins(ev) = req.end - blk + 1

Recent == Refused = {} /\ InOrder /\ (\E f : UsedFrom(f)) /\ Missing

Fits == pc \in {"search", "alloc"} /\ ~ foreign /\ Size(req) <= AreaBlocks[0]

JustInv == DoomInv /\ (Fits => Stay /\ (Roomy \/ Recent))

LEMMA BlocksOf ==
  ASSUME SpaceInv, NEW U, U \subseteq Listed(0)
  PROVE  /\ SpanOf(U) \subseteq Block /\ Cardinality(SpanOf(U)) \in Nat
         /\ \A n \in Listed(0) \ U :
              /\ Span(n.rep) \intersect SpanOf(U) = {}
              /\ Cardinality(SpanOf(U \union {n})) = Cardinality(SpanOf(U)) + n.cnt
<1>1. /\ Lists(pri) \in Areas3 /\ ListedOnce(Lists(pri)) /\ Listed(0) = Lists(pri)[0]
      /\ 0 \in Tiers
  BY FamiliesType DEF SpaceInv, Tidy, Partition, Listed, Lists, Tiers
<1>2. \A n \in Listed(0) : n \in NodeIn /\ n.cnt >= 1 /\ Span(n.rep) \subseteq Block
  <2> TAKE n \in Listed(0)
  <2>1. n \in AllListed
    BY <1>1 DEF AllListed
  <2> QED BY <2>1, TreeNodes, NodeForm
<1>3. SpanOf(U) \subseteq Block /\ Cardinality(SpanOf(U)) \in Nat
  <2>1. SpanOf(U) \subseteq Block
    BY <1>2 DEF SpanOf
  <2> QED BY <2>1, BlockSets
<1>4. ASSUME NEW n \in Listed(0) \ U
      PROVE  /\ Span(n.rep) \intersect SpanOf(U) = {}
             /\ Cardinality(SpanOf(U \union {n})) = Cardinality(SpanOf(U)) + n.cnt
  <2>1. ASSUME NEW p \in Span(n.rep), p \in SpanOf(U) PROVE FALSE
    <3>1. PICK m \in U : p \in Span(m.rep)
      BY <2>1 DEF SpanOf
    <3>2. m \in Lists(pri)[0] /\ n \in Lists(pri)[0] /\ p \in Block
      BY <1>1, <1>2, <3>1
    <3> QED BY <1>1, <3>1, <3>2 DEF ListedOnce
  <2>2. SpanOf(U \union {n}) = SpanOf(U) \union Span(n.rep)
    BY DEF SpanOf
  <2>3. n \in NodeIn /\ n.cnt >= 0 /\ n.cnt \in Int
    BY <1>2, NodeForm
  <2>4. Cardinality(Span(n.rep)) = n.cnt
    BY <2>3, NodeBlocks
  <2>5. Span(n.rep) \subseteq Block /\ SpanOf(U) \intersect Span(n.rep) = {}
    BY <1>2, <2>1
  <2> QED BY <1>3, <2>2, <2>4, <2>5, BlockSets
<1> QED BY <1>3, <1>4

LEMMA TouchOrder ==
  ASSUME SpaceInv, Touch, ~ foreign'
  PROVE  /\ Listed(0)' = Listed(0) /\ ~ foreign
         /\ \E n \in At(blk) :
              /\ blk' = n.ori.end + 1 /\ n \in Listed(0)
              /\ \A a, b : Before(pri'[0], a, b) =>
                   \/ Before(pri[0], a, b) /\ b # n
                   \/ a = n /\ b \in Listed(0) \ {n}
<1>1. PICK n \in At(blk) :
        /\ blk' = n.ori.end + 1
        /\ Lists(pri') = [[t \in Tiers |-> Lists(pri)[t] \ {n}] EXCEPT ![0] = @ \union {n}]
        /\ pri' = PriInsert(PriExtract(pri, n), 0, n)
        /\ foreign' = (foreign \/ Stray(n))
  BY TouchFiles
<1>2. ~ foreign /\ ~ Stray(n) /\ 0 \in Tiers
  <2>1. ~ foreign /\ ~ Stray(n)
    BY <1>1, Zenon
  <2> QED BY <2>1 DEF Tiers
<1>3. n \in Listed(0)
  BY <1>2 DEF Stray, Home, Listed
<1>4. Listed(0)' = Listed(0)
  <2>1. Listed(0)' = Lists(pri')[0] /\ Listed(0) = Lists(pri)[0]
    BY <1>2 DEF Listed, Lists
  <2> QED BY <1>1, <1>2, <1>3, <2>1
<1> DEFINE s == pri[0]
           r == Unlink(s, n)
<1>5. s \in Seq(NodeIn) /\ IsInjective(s) /\ pri \in [Tiers -> Seq(NodeIn)] /\ n \in NodeIn
  BY <1>2, FoundType DEF SpaceInv, IInv, SpaceIn, PriIn, Tidy, Lined
<1>6. r \in Seq(NodeIn) /\ Range(r) = Listed(0) \ {n}
  BY <1>5, UnlinkType, UnlinkRange DEF Listed
<1>7. pri'[0] = Cons(n, r)
  <2> DEFINE q == PriExtract(pri, n)
  <2>1. q[0] = r /\ q \in [Tiers -> {Unlink(pri[t], n) : t \in Tiers}]
    BY <1>2 DEF PriExtract
  <2> HIDE DEF q, r
  <2>2. pri' = IF Filed(r, n) THEN q ELSE [q EXCEPT ![0] = Cons(n, @)]
    BY <1>1, <2>1 DEF PriInsert, q
  <2>3. n \in Range(pri'[0])
    BY <1>3, <1>4 DEF Listed
  <2>4. n \notin Range(r)
    BY <1>6
  <2>5. ~ Filed(r, n)
    BY <2>1, <2>2, <2>3, <2>4
  <2> QED BY <1>2, <2>1, <2>2, <2>5
<1> HIDE DEF r
<1>8. ASSUME NEW a, NEW b, Before(pri'[0], a, b)
      PROVE  (Before(s, a, b) /\ b # n) \/ (a = n /\ b \in Listed(0) \ {n})
  <2>1. Before(r, a, b) \/ (a = n /\ b \in Range(r))
    BY <1>5, <1>6, <1>7, <1>8, AddOrder
  <2>2. ASSUME Before(r, a, b) PROVE Before(s, a, b) /\ b # n
    BY <1>5, <1>6, <2>2, UnlinkOrder, BeforeIn DEF r
  <2> QED BY <1>6, <2>1, <2>2
<1> QED BY <1>1, <1>2, <1>3, <1>4, <1>8

(* One more area found.                                                    *)
LEMMA TouchUsed ==
  ASSUME DoomInv, Stay, Refused = {}, InOrder, NEW f, UsedFrom(f), blk >= req.start,
         NEW n \in At(blk), n \in Listed(0), Listed(0)' = Listed(0), UNCHANGED req,
         blk' = n.ori.end + 1
  PROVE  /\ Used' = Used \union {n} /\ n \notin Used
         /\ \A m \in Used : m.ori.end < n.ori.start
         /\ \E g : UsedFrom(g)'
         /\ Stay'
<1>1. /\ TreeInv /\ SpaceInv /\ IInv
      /\ req.start \in Int /\ req.end \in Int /\ blk \in Nat /\ f \in Int
  BY Cursor DEF DoomInv, TreeInv, SpaceInv, UsedFrom
<1>2. /\ n \in NodeIn /\ n.ori.start \in Int /\ n.ori.end \in Int /\ n.cnt \in Int
      /\ n.cnt = n.ori.end - n.ori.start + 1 /\ n.ori.start <= blk /\ blk <= n.ori.end
  BY <1>1, FoundType
<1>3. \A m \in Listed(0) : m \in repTree /\ m \in NodeIn
                           /\ m.ori.start \in Int /\ m.ori.end \in Int
  <2> TAKE m \in Listed(0)
  <2>1. m \in AllListed
    BY DEF AllListed, Tiers
  <2>2. m \in repTree /\ m \in NodeIn
    BY <1>1, <2>1, TreeNodes DEF Refused
  <2> QED BY <2>2, NodeForm
<1>4. \A m \in Listed(0), l \in Block : l \in Span(m.ori) /\ l \in Span(n.ori) => m = n
  BY <1>1, <1>3 DEF TreeInv, Once, TreeOnce
<1>5. Span(n.ori) = n.ori.start .. n.ori.end /\ Span(n.ori) \subseteq Block
  BY <1>2, NodeForm DEF Span
<1>6. n \notin Used
  BY <1>1, <1>2 DEF UsedFrom
<1>7. Used' = Used \union {n}
  <2>1. ASSUME NEW m \in Used' PROVE m \in Used \union {n}
    <3>1. PICK l \in req.start .. n.ori.end : l \in Span(m.ori) /\ m \in Listed(0)
      BY <1>1, <1>2, <2>1 DEF Used
    <3>2. CASE l \in req.start .. (blk - 1)
      BY <3>1, <3>2 DEF Used
    <3>3. CASE l \notin req.start .. (blk - 1)
      <4>1. l \in Span(n.ori) /\ l \in Block
        BY <1>1, <1>2, <1>5, <3>3
      <4> QED BY <1>4, <3>1, <4>1
    <3> QED BY <3>2, <3>3
  <2>2. ASSUME NEW m \in Used PROVE m \in Used'
    <3>1. PICK l \in req.start .. (blk - 1) : l \in Span(m.ori) /\ m \in Listed(0)
      BY DEF Used
    <3>2. l \in req.start .. (blk' - 1)
      BY <1>1, <1>2, <3>1
    <3> QED BY <3>1, <3>2 DEF Used
  <2>3. n \in Used'
    <3>1. blk \in req.start .. (blk' - 1) /\ blk \in Span(n.ori)
      BY <1>1, <1>2, <1>5
    <3> QED BY <3>1 DEF Used
  <2> QED BY <2>1, <2>2, <2>3
<1>8. Stay'
  <2> SUFFICES ASSUME NEW l \in req.start .. (blk' - 1)
               PROVE  \E m \in Listed(0) : l \in Span(m.ori)
    BY DEF Stay
  <2>1. CASE l \in req.start .. (blk - 1)
    BY <2>1 DEF Stay
  <2>2. CASE l \notin req.start .. (blk - 1)
    BY SMTT(60), <1>1, <1>2, <1>5, <2>2
  <2> QED BY <2>1, <2>2
<1>9. /\ Cardinality(SpanOf(Used')) = (blk - f) + n.cnt
      /\ Cardinality(SpanOf(Used)) = blk - f
  <2>1. Used \subseteq Listed(0) /\ n \in Listed(0) \ Used
    BY <1>6 DEF Used
  <2> QED BY <1>1, <1>7, <2>1, BlocksOf DEF UsedFrom
<1>10. CASE Used = {}
  <2>1. SpanOf(Used) = {}
    BY <1>10 DEF SpanOf
  <2>2. f = blk
    BY <1>1, <1>9, <2>1, FS_EmptySet
  <2>3. f <= req.start
    BY DEF UsedFrom
  <2> DEFINE g == n.ori.start
  <2>4. /\ g \in Int /\ g <= req.start /\ n.ori.end < blk'
        /\ Cardinality(SpanOf(Used')) = blk' - g
    BY <1>1, <1>2, <1>9, <2>2, <2>3
  <2>5. UsedFrom(g)'
    BY <1>7, <1>10, <2>4 DEF UsedFrom
  <2> QED BY <1>6, <1>7, <1>8, <1>10, <2>5
<1>11. CASE Used # {}
  <2>1. blk > req.start
    <3>1. PICK l \in req.start .. (blk - 1) : TRUE
      BY <1>11 DEF Used
    <3> QED BY <1>1, <3>1
  <2>2. PICK m \in Listed(0) : blk - 1 \in Span(m.ori)
    <3>1. blk - 1 \in req.start .. (blk - 1)
      BY <1>1, <2>1
    <3> QED BY <3>1 DEF Stay
  <2>3. m \in Used
    <3>1. blk - 1 \in req.start .. (blk - 1)
      BY <1>1, <2>1
    <3> QED BY <2>2, <3>1 DEF Used
  <2>4. n.ori.start = blk
    <3>1. blk - 1 \notin Span(n.ori)
      <4>1. blk - 1 \in Block
        BY <1>3, <2>2, NodeForm
      <4> QED BY <1>4, <1>6, <2>2, <2>3, <4>1
    <3> QED BY <1>1, <1>2, <1>5, <3>1
  <2>5. \A k \in Used : k.ori.end < n.ori.start
    BY <2>4 DEF UsedFrom
  <2>6. /\ f <= n.ori.start /\ n.ori.end < blk'
        /\ Cardinality(SpanOf(Used')) = blk' - f
        /\ \A k \in Used : f <= k.ori.start /\ k.ori.end < blk'
    <3>1. f <= blk
      <4>1. f <= req.start
        BY DEF UsedFrom
      <4> QED BY <1>1, <4>1
    <3>2. Cardinality(SpanOf(Used')) = blk' - f
      BY <1>1, <1>2, <1>9, <2>4
    <3>3. ASSUME NEW k \in Used PROVE f <= k.ori.start /\ k.ori.end < blk'
      <4>1. k.ori.end \in Int /\ k.ori.end < blk /\ f <= k.ori.start
        BY <1>3 DEF UsedFrom, Used
      <4> QED BY <1>1, <1>2, <4>1
    <3> QED BY <1>1, <1>2, <2>4, <3>1, <3>2, <3>3
  <2>7. f \in Int /\ f <= req.start /\ \E k \in Used : k.ori.start = f
    BY <1>11 DEF UsedFrom
  <2>8. UsedFrom(f)'
    BY <1>7, <2>6, <2>7 DEF UsedFrom
  <2> QED BY <1>6, <1>7, <1>8, <2>5, <2>8
<1> QED BY <1>10, <1>11

LEMMA TouchJust ==
  ASSUME JustInv, Touch, Fits'
  PROVE  (Stay /\ (Roomy \/ Recent))'
<1>1. /\ DoomInv /\ TreeInv /\ SpaceInv /\ IInv /\ ~ foreign'
      /\ req.start \in Int /\ req.end \in Int /\ blk \in Nat
  BY Cursor DEF JustInv, DoomInv, TreeInv, SpaceInv, Fits
<1>2. /\ UNCHANGED <<avail, repTree, req, ev>> /\ AllListed' = AllListed
      /\ pc = "search" /\ ev = <<>>
  BY <1>1, TouchFiles
<1>3. /\ Listed(0)' = Listed(0) /\ ~ foreign
  BY <1>1, TouchOrder
<1>4. PICK n \in At(blk) :
        /\ blk' = n.ori.end + 1 /\ n \in Listed(0)
        /\ \A a, b : Before(pri'[0], a, b) =>
             \/ Before(pri[0], a, b) /\ b # n
             \/ a = n /\ b \in Listed(0) \ {n}
  BY <1>1, TouchOrder
<1>5. Fits
  BY <1>2, <1>3 DEF Fits
<1>6. Stay /\ (Roomy \/ Recent)
  BY <1>5 DEF JustInv
<1>7. /\ n.ori.start \in Int /\ n.ori.end \in Int /\ n.ori.start <= blk /\ blk <= n.ori.end
      /\ Span(n.ori) = n.ori.start .. n.ori.end
  BY <1>1, FoundType DEF Span
<1>8. CASE Roomy
  <2>1. Roomy'
    BY <1>1, <1>8, TouchRoomy
  <2>2. Stay'
    <3> SUFFICES ASSUME NEW l \in req.start .. (blk' - 1)
                 PROVE  \E m \in Listed(0) : l \in Span(m.ori)
      BY <1>2, <1>3 DEF Stay
    <3>1. CASE l \in req.start .. (blk - 1)
      BY <1>6, <3>1 DEF Stay
    <3>2. CASE l \notin req.start .. (blk - 1)
      BY <1>1, <1>4, <1>7, <3>2
    <3> QED BY <3>1, <3>2
  <2> QED BY <2>1, <2>2
<1>9. CASE Recent
  <2>1. blk >= req.start
    BY <1>1, <1>2 DEF DoomInv, Ahead
  <2>2. PICK f : UsedFrom(f)
    BY <1>9 DEF Recent
  <2>3. /\ Used' = Used \union {n} /\ n \notin Used
        /\ \A m \in Used : m.ori.end < n.ori.start
        /\ \E g : UsedFrom(g)'
        /\ Stay'
    <3>1. UNCHANGED req /\ Refused = {} /\ InOrder
      BY <1>2, <1>9 DEF Recent
    <3> HIDE DEF Used, UsedFrom, Stay, InOrder
    <3> QED BY <1>1, <1>3, <1>4, <1>6, <2>1, <2>2, <3>1, TouchUsed
  <2>4. InOrder'
    <3> SUFFICES ASSUME NEW a, NEW b, Before(pri'[0], a, b), b \in Used'
                 PROVE  a \in Used' /\ b.ori.end < a.ori.start
      BY DEF InOrder
    <3>1. CASE Before(pri[0], a, b) /\ b # n
      BY <1>9, <2>3, <3>1 DEF Recent, InOrder
    <3>2. CASE a = n /\ b \in Listed(0) \ {n}
      BY <2>3, <3>2
    <3> QED BY <1>4, <3>1, <3>2
  <2>5. Refused' = {} /\ Missing'
    BY <1>2, <1>9 DEF Recent, Refused, Missing
  <2> QED BY <2>3, <2>4, <2>5 DEF Recent
<1> QED BY <1>6, <1>8, <1>9

(* Group 0 is what it has free, what its list has, and nothing else, as    *)
(* long as its loop holds no area.                                         *)
LEMMA HomeBlocks ==
  ASSUME RoomInv, ~ foreign, MovingIn(ev)[1] = {}
  PROVE  Cardinality(avail[0]) + Cardinality(SpanOf(Listed(0))) = AreaBlocks[0]
<1> DEFINE L == SpanOf(Listed(0))
           T == TierBlocks(0)
<1>1. /\ SpaceInv /\ Partition(avail, Lists(pri), MovingIn(ev)) /\ Listed(0) = Lists(pri)[0]
      /\ 0 \in Tiers /\ avail \in [Tiers -> SUBSET Block] /\ ev \in Seq(FrameIn) /\ Stacked(ev)
  BY FamiliesType DEF RoomInv, SpaceInv, IInv, Tidy, Listed, Lists, Tiers
<1>2. avail[0] \subseteq T /\ L \subseteq T
  BY DEF RoomInv, AtHome, Pure0, SpanOf, Listed
<1>3. avail[0] \intersect L = {}
  <2> SUFFICES ASSUME NEW p \in avail[0], p \in L PROVE FALSE
    OBVIOUS
  <2>1. PICK n \in Lists(pri)[0] : p \in Span(n.rep)
    BY <1>1 DEF SpanOf
  <2>2. p \in Block
    BY <1>1
  <2> QED BY <1>1, <2>1, <2>2 DEF Partition, FreeOrListed
<1>4. ASSUME NEW p \in T PROVE p \in avail[0] \union L
  <2>1. p \in Block /\ \A t \in {1, 2} : p \notin TierBlocks(t)
    <3>1. p \in Block
      BY <1>1, Geometry
    <3> QED BY <1>1, <3>1, OneGroup DEF Tiers
  <2>2. CASE \E t \in Tiers : p \in avail[t]
    <3>1. \A t \in {1, 2} : avail[t] \subseteq TierBlocks(t)
      BY <1>1 DEF SpaceInv, IInv, SpaceIn, AvailIn, Own, Tiers
    <3> QED BY <2>1, <2>2, <3>1 DEF Tiers
  <2>3. CASE \E t \in Tiers : \E n \in Lists(pri)[t] : p \in Span(n.rep)
    <3>0. PICK t \in Tiers : \E n \in Lists(pri)[t] : p \in Span(n.rep)
      BY <2>3
    <3>1. PICK n \in Lists(pri)[t] : p \in Span(n.rep)
      BY <3>0
    <3>2. t = 0
      <4>1. pri \in PriIn
        BY <1>1 DEF SpaceInv, IInv, SpaceIn
      <4>2. pri[t] \in Seq(NodeOf(t)) /\ n \in Range(pri[t])
        BY <3>1, <4>1 DEF PriIn, Lists
      <4>3. n \in NodeOf(t)
        BY <4>2, ElementOfSeq, LenProperties DEF Range
      <4> QED BY <2>1, <3>1, <4>3 DEF NodeOf, Own, Tiers
    <3> QED BY <1>1, <3>1, <3>2 DEF SpanOf
  <2>4. CASE \E i \in Nat : p \in MovingIn(ev)[i]
    <3>1. PICK i \in Nat : p \in MovingIn(ev)[i]
      BY <2>4
    <3>2. i \in DOMAIN ev /\ i # 1 /\ p \in Span(ev[i].area.rep)
      BY <3>1 DEF MovingIn
    <3>3. ev[i] \in FrameIn
      BY <1>1, <3>2, ElementOfSeq, LenProperties
    <3>4. ev[i].src = 1
      BY <1>1, <3>2, <3>3 DEF Stacked, FrameIn
    <3> QED BY <2>1, <3>2, <3>3, <3>4 DEF FrameIn, NodeOf, Own
  <2> QED BY <1>1, <2>1, <2>2, <2>3, <2>4 DEF Partition, Covered
<1>5. avail[0] \union L = T
  BY <1>2, <1>4
<1>6. T \subseteq Block /\ Cardinality(T) = AreaBlocks[0]
  BY <1>1, Geometry, Sizes
<1> HIDE DEF L, T
<1>7. avail[0] \subseteq Block /\ L \subseteq Block
  BY <1>5, <1>6
<1>8. Cardinality(avail[0] \union L) = Cardinality(avail[0]) + Cardinality(L)
  BY <1>3, <1>7, BlockSets
<1> QED BY <1>5, <1>6, <1>8 DEF L

(* A pop keeps the order of list 0, and puts what it leaves of an area of  *)
(* group 0 last.                                                           *)
LEMMA PopOrder ==
  ASSUME TreeInv, Pop
  PROVE  LET v == Victim
         IN  \E n \in 1 .. v.cnt, W \in SUBSET NodeIn :
               /\ n = MIN(Top.want, v.cnt) /\ W = IF n = v.cnt THEN {} ELSE {Rear(v, n)}
               /\ IF Top.src = 0
                  THEN /\ Listed(0)' = (Listed(0) \ {v}) \union W
                       /\ v \in Listed(0)
                       /\ \A m \in Listed(0) : m = v \/ Before(pri[0], m, v)
                       /\ \A a, b : Before(pri'[0], a, b) =>
                            (Before(pri[0], a, b) /\ a # v /\ b # v)
                              \/ (b \in W /\ a \in Listed(0) \ {v})
                  ELSE /\ Listed(0)' = Listed(0)
                       /\ \A a, b : Before(pri'[0], a, b) => Before(pri[0], a, b)
<1> DEFINE t == Top.src
           v == Victim
           q == PriExtract(pri, v)
           s == pri[0]
           r == Unlink(s, v)
<1>1. /\ t \in Tiers /\ v \in Lists(pri)[t] /\ v \in NodeIn /\ v.cnt >= 1 /\ v.cnt \in Int
      /\ 0 \in Tiers
      /\ pri[t] \in Seq(NodeIn) /\ pri[t] # <<>>
  BY PopSplits, NodeForm DEF Tiers
<1>2. PICK n \in 1 .. v.cnt, W \in SUBSET NodeIn :
        /\ n = MIN(Top.want, v.cnt)
        /\ W = IF n = v.cnt THEN {} ELSE {Rear(v, n)}
        /\ pri' = IF n = v.cnt THEN q ELSE PriInsertLow(q, t, Rear(v, n))
        /\ \A u \in Tiers : Lists(pri')[u] = (Lists(pri)[u] \ {v})
                                               \union (IF u = t THEN W ELSE {})
  BY PopSplits
<1>3. /\ pri \in PriIn /\ s \in Seq(NodeIn) /\ IsInjective(s)
      /\ Partition(avail, Lists(pri), MovingIn(ev))
  BY <1>1 DEF TreeInv, SpaceInv, IInv, SpaceIn, PriIn, Tidy, Lined
<1>4. /\ r \in Seq(NodeIn) /\ Range(r) = Listed(0) \ {v} /\ q[0] = r /\ q \in PriIn
  <2>1. r \in Seq(NodeIn) /\ Range(r) = Listed(0) \ {v}
    BY <1>3, UnlinkType, UnlinkRange DEF Listed
  <2>2. q[0] = r
    BY <1>1 DEF PriExtract
  <2> QED BY <1>3, <2>1, <2>2, PriExtractType
<1>5. \A u \in Tiers : Lists(pri)[u] = Listed(u) /\ Lists(pri')[u] = Listed(u)'
  BY DEF Lists, Listed
<1>6. \A a, b : Before(r, a, b) => Before(s, a, b) /\ a # v /\ b # v
  <2> TAKE a, b
  <2>1. HAVE Before(r, a, b)
  <2>2. a \in Range(r) /\ b \in Range(r)
    BY <2>1, BeforeIn
  <2> QED BY <1>3, <1>4, <2>1, <2>2, UnlinkOrder
<1>7. CASE t = 0
  <2>1. Listed(0)' = (Listed(0) \ {v}) \union W /\ v \in Listed(0)
    BY <1>1, <1>2, <1>5, <1>7
  <2>2. ASSUME NEW m \in Listed(0) PROVE m = v \/ Before(s, m, v)
    <3>1. m \in Range(s) /\ s # <<>> /\ v = Last(s)
      BY <1>1, <1>7 DEF Listed, Victim
    <3> QED BY <1>3, <3>1, LastIsBehind
  <2>3. ASSUME NEW a, NEW b, Before(pri'[0], a, b)
        PROVE  \/ Before(s, a, b) /\ a # v /\ b # v
               \/ b \in W /\ a \in Listed(0) \ {v}
    <3>1. CASE pri'[0] = r
      BY <1>6, <2>3, <3>1
    <3>2. CASE n # v.cnt /\ pri'[0] = Append(r, Rear(v, n))
      <4>1. Rear(v, n) \in NodeIn /\ Rear(v, n) \in W
        BY <1>2, <3>2
      <4>2. Before(r, a, b) \/ (a \in Range(r) /\ b = Rear(v, n))
        BY <1>4, <2>3, <3>2, <4>1, AddOrder
      <4> QED BY <1>4, <1>6, <4>1, <4>2
    <3>3. pri'[0] = r \/ (n # v.cnt /\ pri'[0] = Append(r, Rear(v, n)))
      <4>1. q \in [Tiers -> Seq(NodeIn)]
        BY <1>4 DEF PriIn
      <4> HIDE DEF q, r, v
      <4> QED BY <1>1, <1>2, <1>4, <1>7, <4>1 DEF PriInsertLow
    <3> QED BY <3>1, <3>2, <3>3
  <2> HIDE DEF t, v, s
  <2>4. \A a, b : Before(pri'[0], a, b) =>
          (Before(s, a, b) /\ a # v /\ b # v) \/ (b \in W /\ a \in Listed(0) \ {v})
    BY <2>3
  <2> QED BY <1>2, <1>7, <2>1, <2>2, <2>4 DEF t, v, s
<1>8. CASE t # 0
  <2>1. v \notin Listed(0)
    <3>1. ASSUME v \in Listed(0) PROVE FALSE
      <4>1. v \in Lists(pri)[0] /\ Span(v.rep) # {} /\ Span(v.rep) \subseteq Block
        BY <1>1, <1>5, <3>1, OnList, NodeForm DEF TreeInv
      <4> QED BY <1>1, <1>3, <1>8, <4>1 DEF Partition, ListedOnce
    <3> QED BY <3>1
  <2>2. Listed(0)' = Listed(0)
    <3>1. Lists(pri)[0] = Listed(0) /\ Lists(pri')[0] = Listed(0)'
      BY <1>1, <1>5
    <3> HIDE DEF t, v, q, s, r
    <3>2. Lists(pri')[0] = Lists(pri)[0] \ {v}
      BY <1>1, <1>2, <1>8
    <3> QED BY <2>1, <3>1, <3>2
  <2>3. pri'[0] = r
    <3>1. q \in [Tiers -> Seq(NodeIn)]
      BY <1>4 DEF PriIn
    <3> HIDE DEF q, r, v
    <3> QED BY <1>1, <1>2, <1>4, <1>8, <3>1 DEF PriInsertLow
  <2>4. \A a, b : Before(pri'[0], a, b) => Before(s, a, b)
    BY <1>6, <2>3
  <2> HIDE DEF t, v, s
  <2> QED BY <1>2, <1>8, <2>2, <2>4 DEF t, v, s
<1> QED BY <1>7, <1>8


(* What a victim of the first loop means for the areas found so far: there *)
(* are more blocks in it than the loop takes, and those it takes come      *)
(* before the request.                                                     *)
LEMMA VictimUsed ==
  ASSUME DoomInv, Fits, Stay, InOrder, Missing, NEW f, UsedFrom(f), Pop, Top.src = 0,
         Victim \in Used
  PROVE  /\ Used = Listed(0) /\ Victim.ori.start = f /\ f \in Int
         /\ Top.want \in Int /\ Top.want > 0 /\ f + Top.want <= req.start
         /\ Top.want < Victim.cnt
<1> DEFINE v == Victim
<1>1. /\ TreeInv /\ RoomInv /\ SpaceInv /\ IInv
      /\ req.start \in Int /\ req.end \in Int /\ blk \in Nat
  BY Cursor DEF DoomInv, TreeInv, SpaceInv
<1>2. /\ ev # <<>> /\ Top.want \in Int /\ Top.want > 0 /\ v \in NodeIn /\ v.cnt >= 1
      /\ Top.area = NoNode
  BY <1>1, PopSplits DEF Pop, Popping
<1>3. /\ v.ori.start \in Int /\ v.ori.end \in Int /\ v.cnt \in Int
      /\ v.ori.end = v.ori.start + v.cnt - 1 /\ Span(v.ori) = v.ori.start .. v.ori.end
  BY <1>2, NodeForm DEF Span
<1>4. \A m \in Listed(0) : m = v \/ Before(pri[0], m, v)
  BY <1>1, PopOrder
<1>5. Used = Listed(0)
  <2>1. \A m \in Listed(0) : m \in Used
    BY <1>4 DEF InOrder
  <2> QED BY <2>1 DEF Used
<1>6. v.ori.start = f /\ f \in Int
  <2>1. f \in Int /\ f <= v.ori.start /\ \E u \in Used : u.ori.start = f
    BY DEF UsedFrom
  <2>2. PICK u \in Listed(0) : u.ori.start = f
    BY <1>5, <2>1
  <2>3. u = v \/ v.ori.end < u.ori.start
    BY <1>4, <2>2 DEF InOrder
  <2> QED BY <1>2, <1>3, <2>1, <2>2, <2>3
<1>7. MovingIn(ev)[1] = {} /\ Wins(ev) = Top.want
  <2>1. ev \in Seq(FrameIn) /\ Stacked(ev)
    BY <1>1 DEF RoomInv, IInv
  <2>2. ev[1] = Top
    <3>1. Top \in FrameIn /\ DOMAIN ev = 1 .. Len(ev) /\ Len(ev) \in Nat /\ Top = ev[Len(ev)]
          /\ Len(ev) \in DOMAIN ev
      <4>1. Top \in FrameIn
        BY <1>2, <2>1, StackType
      <4>2. DOMAIN ev = 1 .. Len(ev) /\ Len(ev) \in Nat /\ Len(ev) >= 1 /\ Top = ev[Len(ev)]
        BY <1>2, <2>1, <4>1, FrameIndex
      <4> QED BY <4>1, <4>2
    <3>2. Top.src = Len(ev) - 1
      BY <2>1, <3>1 DEF Stacked
    <3> QED BY <3>1, <3>2
  <2>3. MovingIn(ev)[1] = {}
    BY <1>2, <2>1, <2>2, FirstLoop, NoNodeSpan
  <2>4. Cardinality(Span(NoNode.rep)) = 0
    BY NoNodeSpan, FS_EmptySet
  <2> QED BY <1>2, <2>2, <2>3, <2>4 DEF Wins
<1>8. Cardinality(avail[0]) + (blk - f) = AreaBlocks[0]
  <2>1. Cardinality(SpanOf(Listed(0))) = blk - f
    BY <1>5 DEF UsedFrom
  <2> QED BY <1>1, <1>7, <2>1, HomeBlocks DEF Fits
<1>9. Cardinality(avail[0]) + Top.want = req.end - blk + 1
  BY <1>2, <1>7 DEF Missing
<1>10. f + Top.want <= req.start
  <2>1. Size(req) <= AreaBlocks[0] /\ Size(req) = req.end - req.start + 1
    BY DEF Fits, Size
  <2>2. Cardinality(avail[0]) \in Int
    BY <1>1, BlockSets, FamiliesType DEF Tiers
  <2>3. AreaBlocks[0] \in Int
    BY Geometry, Sizes DEF Tiers
  <2>4. \A c, a, w, g, b, e, s \in Int :
          c + (b - g) = a /\ c + w = e - b + 1 /\ e - s + 1 <= a => g + w <= s
    OBVIOUS
  <2>5. blk \in Int /\ req.end - req.start + 1 <= AreaBlocks[0]
    BY <1>1, <2>1
  <2> DEFINE c == Cardinality(avail[0])
             a == AreaBlocks[0]
             w == Top.want
             e == req.end
             s == req.start
  <2>6. c \in Int /\ a \in Int /\ w \in Int /\ f \in Int /\ blk \in Int /\ e \in Int /\ s \in Int
    BY <1>1, <1>2, <1>6, <2>2, <2>3, <2>5
  <2>7. c + (blk - f) = a /\ c + w = e - blk + 1 /\ e - s + 1 <= a
    BY <1>8, <1>9, <2>5
  <2> HIDE DEF v, c, a, w, e, s
  <2>8. f + w <= s
    BY <2>4, <2>6, <2>7
  <2> QED BY <2>8 DEF w, s
<1>11. Top.want < v.cnt
  <2>1. PICK l \in req.start .. (blk - 1) : l \in Span(v.ori)
    BY DEF Used
  <2> QED BY <1>1, <1>2, <1>3, <1>6, <1>10, <2>1
<1> QED BY <1>2, <1>5, <1>6, <1>10, <1>11


(* Such a victim stays in part, and the part that stays has the blocks of  *)
(* the request.                                                            *)
LEMMA PopUsed ==
  ASSUME DoomInv, Fits, Stay, InOrder, Missing, NEW f, UsedFrom(f), Pop, Top.src = 0,
         Victim \in Used
  PROVE  (Stay /\ InOrder /\ \E g : UsedFrom(g))'
<1> DEFINE v == Victim
           n == Top.want
           k == Rear(v, n)
           U == Listed(0) \ {v}
<1>1. /\ TreeInv /\ RoomInv /\ SpaceInv /\ IInv
      /\ req.start \in Int /\ req.end \in Int /\ blk \in Nat
  BY Cursor DEF DoomInv, TreeInv, SpaceInv
<1>2. /\ Used = Listed(0) /\ v.ori.start = f /\ f \in Int
      /\ n \in Int /\ n > 0 /\ f + n <= req.start /\ n < v.cnt
  BY VictimUsed
<1>3. v \in NodeIn /\ UNCHANGED <<req, blk>>
  BY <1>1, PopSplits DEF call
<1>4. /\ v.ori.start \in Int /\ v.ori.end \in Int /\ v.cnt \in Int
      /\ v.ori.end = v.ori.start + v.cnt - 1 /\ Span(v.ori) = v.ori.start .. v.ori.end
  BY <1>3, NodeForm DEF Span
<1>5. /\ k \in NodeIn /\ k.cnt = v.cnt - n /\ k.ori.start = f + n /\ k.ori.end = v.ori.end
      /\ Span(k.ori) = (f + n) .. v.ori.end /\ Span(k.rep) \subseteq Span(v.rep)
  <2>1. n >= 0 /\ n <= v.cnt
    BY <1>2, <1>4
  <2>2. /\ k \in NodeIn /\ k.cnt = v.cnt - n /\ k.ori.start = v.ori.start + n
        /\ Span(k.rep) \subseteq Span(v.rep)
        /\ k = [ ori |-> Extent(v.ori.start + n, v.ori.end),
                 rep |-> Extent(v.rep.start + n, v.rep.end), cnt |-> v.cnt - n ]
    <3>1. n \in Int /\ n >= 0 /\ n <= v.cnt /\ v \in NodeIn
      BY <1>2, <1>3, <2>1
    <3> HIDE DEF n, v
    <3>2. Rear(v, n) \in NodeIn /\ Rear(v, n).cnt = v.cnt - n
      BY <3>1, SplitNode
    <3>3. Rear(v, n).ori.start = v.ori.start + n
      BY <3>1, SplitNode
    <3>4. Span(Rear(v, n).rep) \subseteq Span(v.rep)
      <4>1. Span(Lead(v, n).rep) \union Span(Rear(v, n).rep) = Span(v.rep)
        BY <3>1, SplitNode
      <4> QED BY <4>1
    <3>5. Rear(v, n) = [ ori |-> Extent(v.ori.start + n, v.ori.end),
                         rep |-> Extent(v.rep.start + n, v.rep.end), cnt |-> v.cnt - n ]
      BY <3>1, SplitNode
    <3> QED BY <3>2, <3>3, <3>4, <3>5
  <2> QED BY <1>2, <2>2 DEF Extent, Span
<1>6. /\ Listed(0)' = U \union {k} /\ v \in Listed(0)
      /\ \A m \in Listed(0) : m = v \/ Before(pri[0], m, v)
      /\ \A a, b : Before(pri'[0], a, b) => Before(pri[0], a, b) \/ (b = k /\ a \in U)
  <2>1. MIN(n, v.cnt) = n /\ n # v.cnt
    BY <1>2, <1>4 DEF MIN
  <2> HIDE DEF v
  <2> QED BY <1>1, <2>1, PopOrder DEF v
<1> HIDE DEF v, n, k
<1>7. \A m \in U : m.ori.start > v.ori.end /\ m.ori.start \in Int
  <2> TAKE m \in U
  <2>1. v.ori.end < m.ori.start
    BY <1>2, <1>6 DEF InOrder
  <2>2. m \in NodeIn
    <3>1. m \in AllListed
      BY DEF AllListed, Tiers
    <3> QED BY <1>1, <3>1, TreeNodes
  <2> QED BY <1>4, <2>1, <2>2, NodeForm
<1>8. PICK l \in req.start .. (blk - 1) : l \in Span(v.ori)
  BY <1>2, <1>6 DEF Used
<1>9. Used' = Listed(0)'
  <2>1. ASSUME NEW m \in U PROVE m \in Used'
    <3>1. m \in Used
      BY <1>2
    <3> QED BY <1>3, <1>6, <2>1, <3>1 DEF Used
  <2>2. k \in Used'
    <3>1. l \in Span(k.ori)
      BY <1>1, <1>2, <1>4, <1>5, <1>8
    <3> QED BY <1>3, <1>6, <1>8, <3>1 DEF Used
  <2> QED BY <1>6, <2>1, <2>2 DEF Used
<1>10. Stay'
  <2> SUFFICES ASSUME NEW x \in req.start .. (blk - 1)
               PROVE  \E m \in U \union {k} : x \in Span(m.ori)
    BY <1>3, <1>6 DEF Stay
  <2>1. PICK m \in Listed(0) : x \in Span(m.ori)
    BY DEF Stay
  <2>2. CASE m = v
    BY SMTT(60), <1>1, <1>2, <1>4, <1>5, <2>1, <2>2
  <2> QED BY <2>1, <2>2
<1>11. InOrder'
  <2> SUFFICES ASSUME NEW a, NEW b, Before(pri'[0], a, b), b \in Used'
               PROVE  a \in Used' /\ b.ori.end < a.ori.start
    BY DEF InOrder
  <2>1. a \in Listed(0)'
    BY BeforeIn DEF Listed
  <2>2. CASE b = k /\ a \in U
    BY <1>5, <1>7, <1>9, <2>1, <2>2
  <2>3. CASE Before(pri[0], a, b)
    <3>1. b \in Listed(0)
      BY <2>3, BeforeIn DEF Listed
    <3> QED BY <1>2, <1>9, <2>1, <2>3, <3>1 DEF InOrder
  <2> QED BY <1>6, <2>2, <2>3
<1>12. Cardinality(SpanOf(U \union {k})) = blk - (f + n)
  <2>1. /\ SpanOf(U) \subseteq Block /\ Cardinality(SpanOf(U)) \in Nat
        /\ Span(v.rep) \intersect SpanOf(U) = {}
        /\ Cardinality(SpanOf(U \union {v})) = Cardinality(SpanOf(U)) + v.cnt
    <3>1. U \subseteq Listed(0) /\ v \in Listed(0) \ U
      BY <1>6
    <3> HIDE DEF U
    <3> QED BY <1>1, <3>1, BlocksOf
  <2>2. Cardinality(SpanOf(U)) + v.cnt = blk - f
    <3>1. U \union {v} = Used
      BY <1>2, <1>6
    <3> QED BY <2>1, <3>1 DEF UsedFrom
  <2>3. SpanOf(U \union {k}) = SpanOf(U) \union Span(k.rep)
    BY DEF SpanOf
  <2>4. Cardinality(Span(k.rep)) = v.cnt - n /\ Span(k.rep) \subseteq Block
    <3>1. k \in NodeIn /\ k.cnt >= 0 /\ k.cnt = v.cnt - n
      BY <1>2, <1>4, <1>5
    <3> QED BY <3>1, NodeBlocks, NodeForm
  <2>5. SpanOf(U) \intersect Span(k.rep) = {}
    BY <1>5, <2>1
  <2>6. Cardinality(SpanOf(U) \union Span(k.rep)) = Cardinality(SpanOf(U)) + (v.cnt - n)
    BY <2>1, <2>4, <2>5, BlockSets
  <2>7. \A c, m \in Int : c + m = blk - f => c + (m - n) = blk - (f + n)
    BY <1>1, <1>2
  <2>8. Cardinality(SpanOf(U)) + (v.cnt - n) = blk - (f + n)
    <3>1. Cardinality(SpanOf(U)) \in Int
      BY <2>1
    <3> QED BY <1>4, <2>2, <2>7, <3>1
  <2> HIDE DEF U
  <2> QED BY <2>3, <2>6, <2>8
<1>13. PICK g \in Int : g = f + n
  BY <1>2
<1>14. UsedFrom(g)'
  <2>1. /\ f + n \in Int /\ f + n <= req.start /\ k.ori.start = f + n
        /\ v.ori.end >= f + n /\ v.ori.end < blk
    BY <1>2, <1>4, <1>5, <1>6 DEF UsedFrom
  <2>2. \A m \in U : f + n <= m.ori.start /\ m.ori.end < blk
    <3> TAKE m \in U
    <3>1. m.ori.end < blk
      BY <1>2 DEF UsedFrom
    <3> QED BY <1>4, <1>7, <2>1, <3>1
  <2>3. \A m \in U \union {k} : f + n <= m.ori.start /\ m.ori.end < blk
    BY <1>5, <2>1, <2>2
  <2>4. Used' = U \union {k}
    BY <1>6, <1>9
  <2> HIDE DEF U
  <2>5. /\ g \in Int /\ g <= req'.start
        /\ \A m \in Used' : g <= m.ori.start /\ m.ori.end < blk'
        /\ k \in Used' /\ k.ori.start = g
        /\ Cardinality(SpanOf(Used')) = blk' - g
    BY <1>3, <1>12, <1>13, <2>1, <2>3, <2>4
  <2> QED BY <2>5 DEF UsedFrom
<1> QED BY <1>10, <1>11, <1>14


LEMMA SameUsed ==
  ASSUME UNCHANGED <<req, blk>>, Used' = Used, Stay, \E f : UsedFrom(f),
         \A m \in Used : m \in Listed(0)'
  PROVE  (Stay /\ \E f : UsedFrom(f))'
<1>1. Stay'
  <2> SUFFICES ASSUME NEW l \in req.start .. (blk - 1)
               PROVE  \E m \in Listed(0)' : l \in Span(m.ori)
    BY DEF Stay
  <2>1. PICK m \in Listed(0) : l \in Span(m.ori)
    BY DEF Stay
  <2>2. m \in Used
    BY <2>1 DEF Used
  <2> QED BY <2>1, <2>2
<1>2. PICK f : UsedFrom(f)
  OBVIOUS
<1>3. UsedFrom(f)'
  <2> HIDE DEF Used
  <2> QED BY <1>2 DEF UsedFrom
<1> QED BY <1>1, <1>3

LEMMA PopJust ==
  ASSUME JustInv, Pop, Fits'
  PROVE  (Stay /\ (Roomy \/ Recent))'
<1>1. /\ DoomInv /\ TreeInv /\ RoomInv /\ SpaceInv /\ IInv
  BY DEF JustInv, DoomInv, TreeInv, SpaceInv
<1>2. /\ UNCHANGED <<avail, pc, req, blk, foreign>> /\ ev # <<>>
      /\ Top.src \in Tiers /\ Victim \in NodeIn
  BY <1>1, PopSplits DEF call
<1>3. Fits /\ Stay /\ Recent
  BY <1>2 DEF Fits, JustInv, Roomy
<1>4. PICK f : UsedFrom(f)
  BY <1>3 DEF Recent
<1>5. Refused' = {} /\ Missing'
  <2>1. Refused' = {}
    BY <1>1, <1>3, PopRefuses DEF Recent
  <2>2. Cardinality(avail'[0]) + Wins(ev') = req.end - blk + 1
    BY <1>1, <1>2, <1>3, PopRoom DEF Recent, Missing
  <2> QED BY <1>2, <2>1, <2>2 DEF Missing
<1>6. CASE Top.src = 0 /\ Victim \in Used
  <2>1. (Stay /\ InOrder /\ \E g : UsedFrom(g))'
    <3> HIDE DEF Stay, InOrder, UsedFrom, Missing, Used, Fits
    <3> QED BY <1>1, <1>3, <1>4, <1>6, PopUsed DEF Recent
  <2> QED BY <1>5, <2>1 DEF Recent
<1>7. CASE ~ (Top.src = 0 /\ Victim \in Used)
  <2>1. PICK W \in SUBSET NodeIn :
          /\ \A k \in W : k \notin Used /\ Span(k.ori) \subseteq Span(Victim.ori)
          /\ Top.src = 0 => Listed(0)' = (Listed(0) \ {Victim}) \union W
          /\ Top.src # 0 => Listed(0)' = Listed(0)
          /\ \A a, b : Before(pri'[0], a, b) =>
               Before(pri[0], a, b) \/ (Top.src = 0 /\ b \in W)
    <3>1. CASE Top.src # 0
      <4>1. /\ Listed(0)' = Listed(0)
            /\ \A a, b : Before(pri'[0], a, b) => Before(pri[0], a, b)
        BY <1>1, <3>1, PopOrder
      <4>2. {} \in SUBSET NodeIn
        OBVIOUS
      <4> QED BY <3>1, <4>1, <4>2
    <3>2. CASE Top.src = 0
      <4> DEFINE v == Victim
      <4>1. PICK n \in 1 .. v.cnt, W \in SUBSET NodeIn :
              /\ W = IF n = v.cnt THEN {} ELSE {Rear(v, n)}
              /\ Listed(0)' = (Listed(0) \ {v}) \union W
              /\ v \in Listed(0)
              /\ \A a, b : Before(pri'[0], a, b) =>
                   (Before(pri[0], a, b) /\ a # v /\ b # v) \/ (b \in W /\ a \in Listed(0) \ {v})
        BY <1>1, <3>2, PopOrder
      <4>2. v \notin Used /\ v \in NodeIn
        BY <1>2, <1>7, <3>2
      <4> HIDE DEF v
      <4>3. ASSUME NEW k \in W PROVE k \notin Used /\ Span(k.ori) \subseteq Span(v.ori)
        <5>1. k = Rear(v, n)
          BY <4>1
        <5>2. n \in Int /\ n >= 0 /\ n <= v.cnt
          BY <4>2, NodeForm
        <5>3. Span(k.ori) \subseteq Span(v.ori)
          <6>1. Span(Lead(v, n).ori) \union Span(Rear(v, n).ori) = Span(v.ori)
            BY <4>2, <5>2, SplitNode
          <6> QED BY <5>1, <6>1
        <5>4. k \notin Used
          BY <4>1, <4>2, <5>3 DEF Used
        <5> QED BY <5>3, <5>4
      <4> QED BY <3>2, <4>1, <4>3 DEF v
    <3> QED BY <3>1, <3>2
  <2>2. Used' = Used
    <3>1. \A m : m \in Used' <=> m \in Listed(0)' /\ \E l \in req.start .. (blk - 1) : l \in Span(m.ori)
      BY <1>2 DEF Used
    <3>2. \A m : m \in Used <=> m \in Listed(0) /\ \E l \in req.start .. (blk - 1) : l \in Span(m.ori)
      BY DEF Used
    <3>3. CASE Top.src # 0
      BY <2>1, <3>1, <3>2, <3>3
    <3>4. CASE Top.src = 0
      <4>1. Victim \notin Used
        BY <1>7, <3>4
      <4>2. ASSUME NEW m \in Used' PROVE m \in Used
        <5>1. m \in W => m \in Used
          <6>1. ASSUME m \in W PROVE FALSE
            <7>1. Span(m.ori) \subseteq Span(Victim.ori) /\ m \notin Used
              BY <2>1, <6>1
            <7>2. \E l \in req.start .. (blk - 1) : l \in Span(Victim.ori)
              BY <3>1, <4>2, <7>1
            <7>3. Victim \in Listed(0)
              BY <1>1, <3>4, PopOrder
            <7> QED BY <3>2, <4>1, <7>2, <7>3
          <6> QED BY <6>1
        <5> QED BY <2>1, <3>1, <3>2, <3>4, <4>2, <5>1
      <4>3. ASSUME NEW m \in Used PROVE m \in Used'
        BY <2>1, <3>1, <3>2, <3>4, <4>1, <4>3
      <4> QED BY <4>2, <4>3
    <3> QED BY <3>3, <3>4
  <2>3. (Stay /\ \E g : UsedFrom(g))'
    <3>1. \A m \in Used : m \in Listed(0)'
      BY <2>2 DEF Used
    <3> HIDE DEF Stay, UsedFrom, Used, Listed
    <3> QED BY <1>2, <1>3, <1>4, <2>2, <3>1, SameUsed
  <2>4. InOrder'
    <3> SUFFICES ASSUME NEW a, NEW b, Before(pri'[0], a, b), b \in Used'
                 PROVE  a \in Used' /\ b.ori.end < a.ori.start
      BY DEF InOrder
    <3>1. Before(pri[0], a, b)
      BY <2>1, <2>2
    <3> QED BY <1>3, <2>2, <3>1 DEF Recent, InOrder
  <2> QED BY <1>5, <2>3, <2>4 DEF Recent
<1> QED BY <1>6, <1>7

LEMMA SameJust ==
  ASSUME UNCHANGED <<pri, repTree, req, blk>>, Stay, Recent, Missing'
  PROVE  (Stay /\ Recent)'
<1>1. Used' = Used /\ Refused' = Refused /\ Listed(0)' = Listed(0)
  BY DEF Used, Refused, AllListed, Listed
<1>2. (Stay /\ \E f : UsedFrom(f))'
  <2>1. \A m \in Used : m \in Listed(0)'
    BY <1>1 DEF Used
  <2> HIDE DEF Stay, UsedFrom, Used, Listed
  <2> QED BY <1>1, <2>1, SameUsed DEF Recent
<1>3. InOrder'
  BY <1>1 DEF InOrder, Recent
<1> QED BY <1>1, <1>2, <1>3 DEF Recent

LEMMA PlaceJust ==
  ASSUME JustInv, Place, Fits'
  PROVE  (Stay /\ (Roomy \/ Recent))'
<1>1. /\ DoomInv /\ TreeInv /\ RoomInv /\ SpaceInv /\ IInv
  BY DEF JustInv, DoomInv, TreeInv, SpaceInv
<1>2. /\ UNCHANGED <<pc, req, blk, foreign>> /\ ev # <<>>
      /\ Top.src \in {0, 1}
      /\ \E n : pri' = PriInsert(pri, Top.src + 1, n)
  BY <1>1, PlaceMoves DEF call
<1>3. Fits /\ Stay /\ Recent
  BY <1>2 DEF Fits, JustInv, Roomy
<1>4. pri'[0] = pri[0]
  <2>1. pri \in [Tiers -> Seq(NodeIn)] /\ 0 \in Tiers /\ Top.src + 1 # 0
    BY <1>1, <1>2 DEF IInv, SpaceIn, PriIn, Tiers
  <2> QED BY <1>2, <2>1 DEF PriInsert
<1>5. Used' = Used /\ Listed(0)' = Listed(0)
  BY <1>2, <1>4 DEF Used, Listed
<1>6. (Stay /\ \E f : UsedFrom(f))'
  <2>1. \A m \in Used : m \in Listed(0)'
    BY <1>5 DEF Used
  <2> HIDE DEF Stay, UsedFrom, Used, Listed
  <2> QED BY <1>2, <1>3, <1>5, <2>1, SameUsed DEF Recent
<1>7. InOrder'
  BY <1>3, <1>4, <1>5 DEF Recent, InOrder
<1>8. Refused' = {}
  BY <1>1, <1>3, PlaceRefuses DEF Recent
<1>9. Missing'
  <2>1. Cardinality(avail'[0]) + Wins(ev') = req.end - blk + 1
    BY <1>1, <1>2, <1>3, PlaceRoom DEF Recent, Missing
  <2> QED BY <1>2, <2>1 DEF Missing
<1> QED BY <1>6, <1>7, <1>8, <1>9 DEF Recent

LEMMA EvictedJust ==
  ASSUME JustInv, Evicted, Fits'
  PROVE  (Stay /\ (Roomy \/ Recent))'
<1>1. /\ RoomInv /\ ev # <<>> /\ ev \in Seq(FrameIn)
      /\ UNCHANGED <<avail, pri, repTree, req, blk, foreign>> /\ ev' = Under /\ pc' = pc
  BY DEF JustInv, DoomInv, RoomInv, SpaceInv, IInv, Evicted, Evicting, space, Fits
<1>2. Stay /\ Recent
  BY <1>1 DEF Fits, JustInv, Roomy
<1>3. Missing'
  <2> SUFFICES ASSUME ev' # <<>>
               PROVE  Cardinality(avail[0]) + Wins(ev') = req.end - blk + 1
    BY <1>1 DEF Missing
  <2>1. ev'[1] = ev[1]
    <3>1. Top \in FrameIn
      BY <1>1, StackType
    <3>2. /\ Len(ev) \in Nat /\ DOMAIN Under = 1 .. (Len(ev) - 1)
          /\ \A i \in 1 .. (Len(ev) - 1) : Under[i] = ev[i]
      BY <1>1, <3>1, FrameIndex
    <3>3. Under \in Seq(FrameIn) /\ Under # <<>>
      BY <1>1, StackType
    <3>4. 1 \in 1 .. (Len(ev) - 1)
      BY <3>2, <3>3, EmptySeq, LenProperties
    <3> QED BY <1>1, <3>2, <3>4
  <2> QED BY <1>1, <1>2, <2>1 DEF Recent, Missing, Wins
<1> HIDE DEF Stay, Recent, Missing
<1> QED BY <1>1, <1>2, <1>3, SameJust

LEMMA MakeRoomJust ==
  ASSUME JustInv, MakeRoom, Fits'
  PROVE  (Stay /\ (Roomy \/ Recent))'
<1>1. /\ RoomInv /\ UNCHANGED <<avail, pri, repTree, req, blk, foreign>> /\ pc = "search"
      /\ ev = <<>> /\ ~ foreign /\ SpaceInv /\ blk \in Int /\ req.end \in Int
  BY DEF JustInv, DoomInv, RoomInv, SpaceInv, IInv, CallIn, RequestIn, MakeRoom, Searching,
     Running, space, Fits
<1>2. Stay /\ (Roomy \/ Recent)
  BY <1>1 DEF Fits, JustInv
<1>3. CASE Roomy
  <2>1. Roomy'
    BY <1>1, <1>3, MakeRoomRoomy
  <2>2. Stay'
    BY <1>1, <1>2 DEF Stay, Listed
  <2> QED BY <2>1, <2>2
<1>4. CASE Recent
  <2> DEFINE left == Cardinality(avail[0]) - (req.end - blk + 1)
  <2>1. left \in Int /\ ev' = IF left < 0 THEN <<Frame(0, -left)>> ELSE <<>>
    BY <1>1, MakeRoomCounts
  <2>2. Cardinality(avail[0]) \in Int
    <3>1. avail[0] \subseteq Block
      BY <1>1, FamiliesType DEF SpaceInv, Tiers
    <3> QED BY <3>1, BlockSets
  <2>3. Missing'
    <3> SUFFICES ASSUME ev' # <<>>
                 PROVE  Cardinality(avail[0]) + Wins(ev') = req.end - blk + 1
      BY <1>1 DEF Missing
    <3> HIDE DEF left
    <3>1. ev'[1] = Frame(0, -left)
      BY <2>1
    <3>2. Cardinality(Span(NoNode.rep)) = 0
      BY NoNodeSpan, FS_EmptySet
    <3>3. Wins(ev') = -left + 0
      BY <3>1, <3>2 DEF Wins, Frame
    <3>4. Cardinality(avail[0]) + (-left) = req.end - blk + 1
      BY <1>1, <2>2 DEF left
    <3> QED BY <2>1, <2>2, <3>3, <3>4
  <2> HIDE DEF Stay, Recent, Missing
  <2> QED BY <1>1, <1>2, <1>4, <2>3, SameJust
<1> QED BY <1>2, <1>3, <1>4


LEMMA AllocJust ==
  ASSUME JustInv, Alloc, Fits'
  PROVE  (Stay /\ (Roomy \/ Recent))'
<1>1. /\ RoomInv /\ SpaceInv /\ blk \in Nat /\ pc = "alloc" /\ UNCHANGED <<req, foreign>>
      /\ req.start \in Int
  BY Cursor, AllocMaps DEF JustInv, DoomInv, RoomInv
<1>2. PICK n \in Int, p \in Int :
        LET area == Node(blk, p, n)
        IN  /\ n >= 1 /\ blk' = blk + n
            /\ Span(area.ori) = blk .. (blk + n - 1)
            /\ Lists(pri') = [Lists(pri) EXCEPT ![0] = @ \union {area}]
  BY <1>1, AllocMaps
<1> DEFINE area == Node(blk, p, n)
<1>3. /\ n >= 1 /\ blk' = blk + n /\ Span(area.ori) = blk .. (blk + n - 1)
      /\ Listed(0)' = Listed(0) \union {area}
  <2>1. Listed(0) = Lists(pri)[0] /\ Listed(0)' = Lists(pri')[0] /\ 0 \in Tiers
    BY DEF Listed, Lists, Tiers
  <2>2. Lists(pri')[0] = Lists(pri)[0] \union {area}
    BY <1>2, <2>1 DEF Lists
  <2> QED BY <1>2, <2>1, <2>2
<1> HIDE DEF area
<1>4. Stay
  BY <1>1 DEF Fits, JustInv
<1>5. Stay'
  <2> SUFFICES ASSUME NEW l \in req.start .. (blk' - 1)
               PROVE  \E m \in Listed(0) \union {area} : l \in Span(m.ori)
    BY <1>1, <1>3 DEF Stay
  <2>1. CASE l \in req.start .. (blk - 1)
    BY <1>4, <2>1 DEF Stay
  <2>2. CASE l \notin req.start .. (blk - 1)
    BY <1>1, <1>3, <2>2
  <2> QED BY <2>1, <2>2
<1> QED BY <1>1, <1>5, AllocRoomy

LEMMA SubmitJust ==
  ASSUME JustInv, Submit
  PROVE  (Stay /\ (Roomy \/ Recent))'
<1>1. /\ DoomInv /\ fault = "none" /\ pc = "idle" /\ ev = <<>>
      /\ UNCHANGED <<avail, pri, repTree, ev>> /\ blk' = req'.start
  BY DEF JustInv, Submit, Start, Running, space
<1>2. req'.start \in Int
  <2>1. [Next]_vars
    BY DEF Next
  <2>2. TreeInv
    BY <1>1 DEF DoomInv
  <2> QED BY <2>1, <2>2, NextTreeInv DEF TreeInv, SpaceInv, IInv, CallIn, RequestIn
<1>3. Refused' = {}
  BY <1>1 DEF DoomInv, RefusedDoom, Refused, AllListed, Listed
<1>4. req'.start .. (blk' - 1) = {}
  BY <1>1, <1>2
<1>5. Used' = {} /\ Stay'
  BY <1>4 DEF Used, Stay
<1>6. InOrder' /\ Missing'
  BY <1>1, <1>5 DEF InOrder, Missing
<1>7. PICK f \in Int : f = req'.start
  BY <1>2
<1>8. UsedFrom(f)'
  <2>1. Cardinality(SpanOf(Used')) = 0
    <3>1. SpanOf(Used') = {}
      BY <1>5 DEF SpanOf
    <3> QED BY <3>1, FS_EmptySet
  <2>2. /\ f \in Int /\ f <= req'.start
        /\ \A n \in Used' : f <= n.ori.start /\ n.ori.end < blk'
        /\ Used' # {} => \E n \in Used' : n.ori.start = f
        /\ Cardinality(SpanOf(Used')) = blk' - f
    BY <1>1, <1>5, <1>7, <2>1
  <2> QED BY <2>2 DEF UsedFrom
<1> QED BY <1>3, <1>5, <1>6, <1>8 DEF Recent

LEMMA NextJustInv == JustInv /\ [Next]_vars => JustInv'
<1> SUFFICES ASSUME JustInv, [Next]_vars PROVE JustInv'
  OBVIOUS
<1>1. DoomInv'
  BY NextDoomInv DEF JustInv
<1> SUFFICES ASSUME Fits' PROVE (Stay /\ (Roomy \/ Recent))'
  BY <1>1 DEF JustInv
<1> HIDE DEF Stay, Recent
<1>2. CASE Touch
  BY <1>2, TouchJust
<1>3. CASE MakeRoom
  BY <1>3, MakeRoomJust
<1>4. CASE Alloc
  BY <1>4, AllocJust
<1>5. CASE Pop
  BY <1>5, PopJust
<1>6. CASE Place
  BY <1>6, PlaceJust
<1>7. CASE Evicted
  BY <1>7, EvictedJust
<1>8. CASE Submit
  BY <1>8, SubmitJust
<1>9. CASE Fail \/ Halted \/ UNCHANGED vars
  <2>1. UNCHANGED <<avail, pri, repTree, req, blk, ev, pc>> /\ ~ foreign
    BY <1>9, Stopping DEF Fits, JustInv, DoomInv, TreeInv, SpaceInv, IInv
  <2>2. Stay /\ (Roomy \/ Recent)
    BY <2>1 DEF Fits, JustInv
  <2>3. CASE Roomy
    <3>1. Roomy' /\ Stay'
      BY <2>1, <2>2, <2>3 DEF Roomy, Stay, Listed
    <3> QED BY <3>1
  <2>4. CASE Recent
    <3>1. Missing'
      BY <2>1, <2>4 DEF Recent, Missing
    <3> QED BY <2>1, <2>2, <2>4, <3>1, SameJust
  <2> QED BY <2>2, <2>3, <2>4
<1>10. CASE Inserted \/ Issue \/ Issued \/ DeleteArea \/ Deleted
  BY <1>10 DEF Inserted, Issue, Issued, DeleteArea, Deleting, Deleted, Issuing, Running, Return,
     Fits
<1>11. CASE Discard \/ Evict \/ Delete
  BY <1>11 DEF Discard, Evict, Delete, Start, Running, call, Fits
<1> QED BY <1>2, <1>3, <1>4, <1>5, <1>6, <1>7, <1>8, <1>9, <1>10, <1>11 DEF Next, Step

(* As long as no demoted area has been found or deleted, a request that    *)
(* fits in group 0 keeps every area found or mapped for it: those it has   *)
(* found are the most recent of group 0, in order and without a gap, so    *)
(* that when all of the others are gone what is still missing is in front  *)
(* of the request.                                                         *)
THEOREM FoundAreasStay == Spec => []JustUsedStays
<1>1. Init => JustInv
  BY InitDoom DEF Init, JustInv, Fits
<1>2. JustInv => JustUsedStays
  BY DEF JustInv, Fits, Stay, JustUsedStays
<1> QED BY <1>1, <1>2, NextJustInv, PTL DEF Spec

-----------------------------------------------------------------------------
(* Every area, on a list or being moved, lies within a bio that some       *)
(* client has asked for.                                                   *)
Asked ==
  /\ pc \in {"search", "alloc", "issue"} => req \in Requests
  /\ pc = "delete" => \E x \in Deletes : req = Call(x, FALSE)

Inside(n) == n.cnt >= 1 => \E r \in Requests : Span(n.ori) \subseteq Span(r)

AllInside == (\A n \in AllListed : Inside(n)) /\ (\A i \in Nat : Inside(NodesIn(ev)[i]))

InsideInv == TreeInv /\ Busy /\ Ahead /\ Asked /\ AllInside

LEMMA NextAsked == Busy /\ Asked /\ [Next]_vars => Asked'
<1> SUFFICES ASSUME Busy, Asked, [Next]_vars PROVE Asked'
  OBVIOUS
<1>1. CASE Submit \/ Delete
  BY <1>1 DEF Submit, Delete, Start, Asked
<1>2. CASE Touch \/ MakeRoom \/ Alloc \/ Inserted \/ Issue \/ DeleteArea
  BY <1>2 DEF Touch, MakeRoom, Alloc, Inserted, Issue, Issuing, DeleteArea, Deleting, Searching,
     Running, Asked
<1>3. CASE Issued \/ Deleted \/ Discard \/ Evict
  BY <1>3 DEF Issued, Deleted, Discard, Evict, Return, Running, call, Asked
<1>4. CASE Pop \/ Place \/ Evicted
  BY <1>4 DEF Pop, Place, Evicted, Popping, Placing, Evicting, call, Busy, Asked
<1>5. CASE Fail \/ Halted \/ UNCHANGED vars
  BY <1>5, Stopping DEF Asked
<1> QED BY <1>1, <1>2, <1>3, <1>4, <1>5 DEF Next, Step

LEMMA InsidePart ==
  ASSUME NEW v, NEW n, Inside(v), v.cnt >= 1, Span(n.ori) \subseteq Span(v.ori)
  PROVE  Inside(n)
  BY DEF Inside

LEMMA NextInside == InsideInv /\ [Next]_vars => InsideInv'
<1> SUFFICES ASSUME InsideInv, [Next]_vars PROVE AllInside'
  BY NextTreeInv, NextBusy, NextAhead, NextAsked DEF InsideInv
<1>1. /\ TreeInv /\ SpaceInv /\ req.start \in Int /\ req.end \in Int /\ blk \in Nat
      /\ \A n \in AllListed : Inside(n)
      /\ \A i \in Nat : Inside(NodesIn(ev)[i])
  BY Cursor DEF InsideInv, TreeInv, AllInside
<1>2. Inside(NoNode)
  BY DEF Inside, NoNode, Node
<1>3. CASE Alloc
  <2>1. pc = "alloc" /\ ev = <<>> /\ ev' = <<>>
    BY <1>1, <1>3, AllocMaps
  <2>2. PICK n \in Int, p \in Int :
          LET area == Node(blk, p, n)
          IN  /\ n >= 1 /\ n <= req.end - blk + 1
              /\ Span(area.ori) = blk .. (blk + n - 1)
              /\ AllListed' = AllListed \union {area}
    BY <1>1, <1>3, AllocMaps
  <2>3. req \in Requests /\ blk >= req.start
    BY <2>1 DEF InsideInv, Asked, Ahead
  <2>4. Span(Node(blk, p, n).ori) \subseteq Span(req)
    <3>1. blk .. (blk + n - 1) \subseteq req.start .. req.end
      BY <1>1, <2>2, <2>3
    <3> QED BY <2>2, <3>1 DEF Span
  <2>5. Inside(Node(blk, p, n))
    BY <2>3, <2>4 DEF Inside
  <2> QED BY <1>1, <2>1, <2>2, <2>5 DEF AllInside
<1>4. CASE Pop
  <2> DEFINE v == Victim
  <2>1. /\ v \in NodeIn /\ v.cnt >= 1 /\ v \in AllListed /\ v.cnt \in Int
        /\ NodesIn(ev) \in [Nat -> NodeIn]
    BY <1>1, <1>4, PopSplits, NodeForm, TreeNodes, NodesType
  <2>2. PICK n \in 1 .. v.cnt, W \in SUBSET NodeIn :
          /\ W = IF n = v.cnt THEN {} ELSE {Rear(v, n)}
          /\ AllListed' = (AllListed \ {v}) \union W
          /\ NodesIn(ev') = [NodesIn(ev) EXCEPT ![Len(ev)] = Lead(v, n)]
    BY <1>1, <1>4, PopSplits
  <2> HIDE DEF v
  <2>3. n \in Int /\ n >= 1 /\ n <= v.cnt
    BY <2>1
  <2>4. Span(Lead(v, n).ori) \union Span(Rear(v, n).ori) = Span(v.ori)
    BY <2>1, <2>3, Parts
  <2>5. Inside(Lead(v, n)) /\ Inside(Rear(v, n))
    <3>1. Inside(v) /\ Span(Lead(v, n).ori) \subseteq Span(v.ori)
          /\ Span(Rear(v, n).ori) \subseteq Span(v.ori)
      BY <1>1, <2>1, <2>4
    <3> QED BY <2>1, <3>1, InsidePart
  <2>6. \A m \in W : Inside(m)
    BY <2>2, <2>5
  <2> QED BY <1>1, <2>1, <2>2, <2>5, <2>6 DEF AllInside
<1>5. CASE Place
  <2> DEFINE s == Top.rest
  <2>1. /\ s \in NodeIn /\ s.cnt >= 1 /\ Len(ev) \in Nat /\ NodesIn(ev)[Len(ev)] = s
        /\ s.cnt \in Int /\ NodesIn(ev) \in [Nat -> NodeIn]
    BY <1>1, <1>5, PlaceMoves, NodesType
  <2>2. PICK n \in 1 .. s.cnt, x \in Int :
          LET dst == Node(s.ori.start, x, n)
          IN  /\ Span(dst.ori) = Span(Lead(s, n).ori)
              /\ AllListed' = AllListed \union {dst}
              /\ NodesIn(ev') = [NodesIn(ev) EXCEPT ![Len(ev)] = Remains(s, n)]
    BY <1>1, <1>5, PlaceMoves
  <2> DEFINE dst == Node(s.ori.start, x, n)
  <2> HIDE DEF s
  <2>3. n \in Int /\ n >= 1 /\ n <= s.cnt
    BY <2>1
  <2>4. Span(Lead(s, n).ori) \union Span(Rear(s, n).ori) = Span(s.ori)
    BY <2>1, <2>3, Parts
  <2>5. Inside(dst) /\ Inside(Rear(s, n))
    <3>1. Inside(s) /\ Span(dst.ori) \subseteq Span(s.ori)
          /\ Span(Rear(s, n).ori) \subseteq Span(s.ori)
      BY <1>1, <2>1, <2>2, <2>4
    <3> QED BY <2>1, <3>1, InsidePart
  <2>6. Inside(Remains(s, n))
    BY <1>2, <2>5 DEF Remains
  <2> QED BY <1>1, <2>1, <2>2, <2>5, <2>6 DEF AllInside
<1>6. CASE ~ Pop /\ ~ Place /\ ~ Alloc
  <2>1. NodesIn(ev)' = NodesIn(ev) /\ AllListed' \subseteq AllListed
    <3>1. CASE DeleteArea
      BY <1>1, <1>6, <3>1, OtherOnce, DeleteAreaDoes
    <3> QED BY <1>1, <1>6, <3>1, OtherOnce
  <2> QED BY <1>1, <2>1 DEF AllInside
<1> QED BY <1>3, <1>4, <1>5, <1>6

LEMMA InsideInvariant == Spec => []InsideInv
<1>1. Init => InsideInv
  <2> SUFFICES ASSUME Init PROVE InsideInv
    OBVIOUS
  <2>1. NodesIn(ev) = [i \in Nat |-> NoNode] /\ AllListed = {}
    BY NoLoopNodes DEF Init, AllListed, Listed, Range
  <2> QED BY <2>1, InitOnce DEF Init, InsideInv, Busy, Ahead, Asked, AllInside, Inside, NoNode, Node
<1> QED BY <1>1, NextInside, PTL DEF Spec


-----------------------------------------------------------------------------
(* The storage map against the areas that make it.                         *)
LocFacts ==
  \A l \in Block :
    LET m == Mapped(repTree, NodesIn(ev), l)
    IN  /\ m <=> Loc[l] # -1
        /\ m => Loc[l] \in Block /\ Maps(repTree, NodesIn(ev), l, Loc[l])
        /\ \A p : Maps(repTree, NodesIn(ev), l, p) => Loc[l] = p

LEMMA LocIs == TreeInv => LocFacts
<1> SUFFICES ASSUME TreeInv, NEW l \in Block
             PROVE  /\ Mapped(repTree, NodesIn(ev), l) <=> Loc[l] # -1
                    /\ Mapped(repTree, NodesIn(ev), l) =>
                         Loc[l] \in Block /\ Maps(repTree, NodesIn(ev), l, Loc[l])
                    /\ \A p : Maps(repTree, NodesIn(ev), l, p) => Loc[l] = p
  BY DEF LocFacts
<1> DEFINE F == NodesIn(ev)
<1>1. /\ SpaceInv /\ repTree \subseteq NodeIn /\ F \in [Nat -> NodeIn] /\ Once(repTree, F)
      /\ Span(NoNode.ori) = {}
      /\ DOMAIN ev \subseteq Nat
  BY TreeNodes, NodesType, LenProperties DEF TreeInv, SpaceInv, IInv
<1>2. \A m : m \in Holders(l) <=> \/ m \in repTree /\ l \in Span(m.ori)
                                  \/ \E i \in Nat : m = F[i] /\ l \in Span(m.ori)
  <2>1. \A m : m \in Areas <=> m \in repTree \/ \E i \in DOMAIN ev : m = ev[i].rest
    BY DEF Areas, Range
  <2>2. \A i \in Nat : F[i] = IF i \in DOMAIN ev THEN ev[i].rest ELSE NoNode
    BY DEF NodesIn
  <2> HIDE DEF F
  <2> QED BY <1>1, <2>1, <2>2 DEF Holders
<1> HIDE DEF F
<1>3. \A m, n \in Holders(l) : m = n
  BY <1>1, <1>2 DEF Once, TreeOnce, RestOnce, TreeOrRest
<1>4. \A m \in Holders(l) : m \in NodeIn /\ l \in Span(m.ori)
  BY <1>1, <1>2
<1>5. Mapped(repTree, F, l) <=> Holders(l) # {}
  BY <1>2 DEF Mapped
<1>6. \A p : Maps(repTree, F, l, p) <=> \E m \in Holders(l) : p = Where(m, l)
  BY <1>2 DEF Maps
<1>7. Loc[l] = IF Holders(l) = {} THEN -1 ELSE Where(CHOOSE n \in Holders(l) : TRUE, l)
  BY DEF Loc
<1>8. ASSUME NEW m \in Holders(l) PROVE Loc[l] = Where(m, l) /\ Loc[l] \in Block /\ Loc[l] # -1
  <2>1. (CHOOSE n \in Holders(l) : TRUE) = m
    BY <1>3
  <2> QED BY <1>4, <1>7, <2>1, WhereIs
<1> QED BY <1>5, <1>6, <1>7, <1>8 DEF F

LEMMA LocNext ==
  ASSUME TreeInv'
  PROVE  \A l \in Block :
           LET m == Mapped(repTree', NodesIn(ev'), l)
           IN  /\ m <=> Loc'[l] # -1
               /\ m => Loc'[l] \in Block /\ Maps(repTree', NodesIn(ev'), l, Loc'[l])
               /\ \A p : Maps(repTree', NodesIn(ev'), l, p) => Loc'[l] = p
<1>1. TreeInv' => LocFacts'
  BY LocIs, PTL
<1> QED BY <1>1 DEF LocFacts

(* What an action does to the map at one block.                            *)
LEMMA LocStays ==
  ASSUME TreeInv, TreeInv', NEW l \in Block,
         \A p : Maps(repTree', NodesIn(ev'), l, p) <=> Maps(repTree, NodesIn(ev), l, p)
  PROVE  Loc'[l] = Loc[l]
<1>1. /\ Mapped(repTree', NodesIn(ev'), l) <=> \E p : Maps(repTree', NodesIn(ev'), l, p)
      /\ Mapped(repTree, NodesIn(ev), l) <=> \E p : Maps(repTree, NodesIn(ev), l, p)
  BY DEF Maps, Mapped
<1>2. /\ Mapped(repTree', NodesIn(ev'), l) <=> Loc'[l] # -1
      /\ \A p : Maps(repTree', NodesIn(ev'), l, p) => Loc'[l] = p
  BY LocNext
<1>3. /\ Mapped(repTree, NodesIn(ev), l) <=> Loc[l] # -1
      /\ \A p : Maps(repTree, NodesIn(ev), l, p) => Loc[l] = p
  BY LocIs DEF LocFacts
<1> QED BY <1>1, <1>2, <1>3

LEMMA LocSame ==
  ASSUME TreeInv, TreeInv', SameMap(repTree, NodesIn(ev), repTree', NodesIn(ev'))
  PROVE  Loc' = Loc
<1>1. \A l \in Block : Loc'[l] = Loc[l]
  BY LocStays DEF SameMap
<1> DEFINE L1 == Loc
           L2 == Loc'
<1>2. L1 = [l \in Block |-> L1[l]] /\ L2 = [l \in Block |-> L2[l]]
  BY DEF Loc
<1> QED BY <1>1, <1>2

LEMMA LocMoved ==
  ASSUME TreeInv, TreeInv', NEW dst,
         MovedMap(repTree, NodesIn(ev), repTree', NodesIn(ev'), dst)
  PROVE  \A l \in Block : Loc'[l] = IF l \in Span(dst.ori) THEN Where(dst, l) ELSE Loc[l]
<1> SUFFICES ASSUME NEW l \in Block
             PROVE  Loc'[l] = IF l \in Span(dst.ori) THEN Where(dst, l) ELSE Loc[l]
  OBVIOUS
<1>1. CASE l \in Span(dst.ori)
  <2>1. Maps(repTree', NodesIn(ev'), l, Where(dst, l))
    BY <1>1 DEF MovedMap
  <2> QED BY <1>1, <2>1, LocNext
<1>2. CASE l \notin Span(dst.ori)
  <2>1. \A p : Maps(repTree', NodesIn(ev'), l, p) <=> Maps(repTree, NodesIn(ev), l, p)
    BY <1>2 DEF MovedMap
  <2> QED BY <1>2, <2>1, LocStays
<1> QED BY <1>1, <1>2

LEMMA LocAdded ==
  ASSUME TreeInv, TreeInv', NodesIn(ev') = NodesIn(ev), NEW area,
         repTree' = repTree \union {area}, \A l \in Span(area.ori) : ~ Mapped(repTree, NodesIn(ev), l)
  PROVE  \A l \in Block : Loc'[l] = IF l \in Span(area.ori) THEN Where(area, l) ELSE Loc[l]
<1> SUFFICES ASSUME NEW l \in Block
             PROVE  Loc'[l] = IF l \in Span(area.ori) THEN Where(area, l) ELSE Loc[l]
  OBVIOUS
<1>1. CASE l \in Span(area.ori)
  <2>1. Maps(repTree', NodesIn(ev'), l, Where(area, l))
    BY <1>1 DEF Maps
  <2> QED BY <1>1, <2>1, LocNext
<1>2. CASE l \notin Span(area.ori)
  <2>1. \A p : Maps(repTree', NodesIn(ev'), l, p) <=> Maps(repTree, NodesIn(ev), l, p)
    BY <1>2 DEF Maps
  <2> QED BY <1>2, <2>1, LocStays
<1> QED BY <1>1, <1>2

LEMMA LocTaken ==
  ASSUME TreeInv, TreeInv', NodesIn(ev') = NodesIn(ev), NEW n \in repTree,
         repTree' = repTree \ {n}
  PROVE  \A l \in Block : Loc'[l] = IF l \in Span(n.ori) THEN -1 ELSE Loc[l]
<1> SUFFICES ASSUME NEW l \in Block
             PROVE  Loc'[l] = IF l \in Span(n.ori) THEN -1 ELSE Loc[l]
  OBVIOUS
<1>1. CASE l \in Span(n.ori)
  <2>1. ~ Mapped(repTree', NodesIn(ev'), l)
    BY <1>1 DEF Mapped, TreeInv, Once, TreeOnce, TreeOrRest
  <2> QED BY <1>1, <2>1, LocNext
<1>2. CASE l \notin Span(n.ori)
  <2>1. \A p : Maps(repTree', NodesIn(ev'), l, p) <=> Maps(repTree, NodesIn(ev), l, p)
    BY <1>2 DEF Maps
  <2> QED BY <1>2, <2>1, LocStays
<1> QED BY <1>1, <1>2


-----------------------------------------------------------------------------
(* No bio is longer than what one pass copies, which makes the copy whole. *)
Short == \A r \in Requests : Size(r) <= MaxPages

LEMMA InsideShort ==
  ASSUME Short, NEW s \in NodeIn, s.cnt >= 1, Inside(s)
  PROVE  s.cnt <= MaxPages
<1>1. PICK r \in Requests : Span(s.ori) \subseteq Span(r)
  BY DEF Inside
<1>2. r.start \in Int /\ r.end \in Int /\ MaxPages \in Int
  <2>1. PICK e \in Logical, w \in BOOLEAN : r = Call(e, w)
    BY <1>1, BlockAreaAssumption
  <2>2. r.start = e.start /\ r.end = e.end /\ e.start \in Block /\ e.end \in Block
    BY <2>1 DEF Call, Logical
  <2>3. MaxPages \in Int
    BY BlockAreaAssumption
  <2>4. Block \subseteq Int
    BY Geometry
  <2> QED BY <2>2, <2>3, <2>4
<1>3. r.end - r.start + 1 <= MaxPages
  BY DEF Short, Size
<1>4. /\ s.ori.start \in Int /\ s.cnt \in Int
      /\ Span(s.ori) = s.ori.start .. (s.ori.start + s.cnt - 1)
  BY NodeForm
<1> DEFINE o == s.ori.start
           c == s.cnt
<1>5. o .. (o + c - 1) \subseteq r.start .. r.end /\ c >= 1 /\ o \in Int /\ c \in Int
  BY <1>1, <1>4 DEF Span
<1> HIDE DEF o, c
<1>6. o \in o .. (o + c - 1) /\ o + c - 1 \in o .. (o + c - 1)
  BY <1>5
<1>7. o >= r.start /\ o + c - 1 <= r.end
  BY <1>2, <1>5, <1>6
<1> QED BY <1>2, <1>3, <1>5, <1>7 DEF c

(* One pass of a loop: the extent it places has the contents of the one    *)
(* it was read from, and no other block is touched.                        *)
LEMMA PlaceCarries ==
  ASSUME InsideInv, Short, Place
  PROVE  /\ Top.src + 1 \in Tiers
         /\ \E dst \in NodeIn :
              /\ Span(dst.rep) \subseteq avail[Top.src + 1]
              /\ \A l \in Block : Loc'[l] = IF l \in Span(dst.ori) THEN Where(dst, l) ELSE Loc[l]
              /\ \A l \in Span(dst.ori) : Loc[l] # -1 /\ disk'[Where(dst, l)] = disk[Loc[l]]
              /\ \A p \in Block \ Span(dst.rep) : disk'[p] = disk[p]
<1> DEFINE s == Top.rest
<1>1. TreeInv /\ TreeInv'
  BY NextTreeInv DEF InsideInv, Next, Step
<1>2. /\ Top.src + 1 \in Tiers /\ s \in NodeIn /\ s.cnt \in Int /\ s.cnt >= 1
      /\ Len(ev) \in Nat /\ NodesIn(ev)[Len(ev)] = s
  BY <1>1, PlaceMoves
<1>3. PICK n \in 1 .. s.cnt, x \in Int :
        LET dst == Node(s.ori.start, x, n)
        IN  /\ dst \in NodeIn /\ Span(dst.rep) \subseteq avail[Top.src + 1]
            /\ Span(dst.ori) = Span(Lead(s, n).ori)
            /\ repTree' = repTree \union {dst}
            /\ NodesIn(ev') = [NodesIn(ev) EXCEPT ![Len(ev)] = Remains(s, n)]
            /\ disk' = Copy(disk, s.rep.start, x, n)
  BY <1>1, PlaceMoves
<1> DEFINE dst == Node(s.ori.start, x, n)
<1>4. /\ Span(dst.ori) \subseteq Span(s.ori)
      /\ MovedMap(repTree, NodesIn(ev), repTree', NodesIn(ev'), dst)
  BY <1>1, <1>3, PlaceMap
<1>5. \A l \in Block : Loc'[l] = IF l \in Span(dst.ori) THEN Where(dst, l) ELSE Loc[l]
  <2> HIDE DEF dst
  <2> QED BY <1>1, <1>4, LocMoved
<1>6. s.cnt <= MaxPages
  <2>1. Inside(s)
    BY <1>2 DEF InsideInv, AllInside
  <2> HIDE DEF s
  <2> QED BY <1>2, <2>1, InsideShort
<1>7. /\ n \in Int /\ MIN(MaxPages, n) = n
      /\ s.ori.start \in Int /\ s.rep.start \in Int /\ x \in Int
  BY <1>2, <1>3, <1>6, NodeForm, BlockAreaAssumption DEF MIN
<1>8. \A p \in Block : disk'[p] = IF p \in x .. (x + n - 1)
                                  THEN disk[s.rep.start + (p - x)] ELSE disk[p]
  <2> HIDE DEF s
  <2> QED BY <1>3, <1>7 DEF Copy
<1>9. /\ Span(dst.rep) = x .. (x + n - 1) /\ dst.rep.start = x /\ dst.ori.start = s.ori.start
      /\ Span(dst.ori) = s.ori.start .. (s.ori.start + n - 1)
  BY DEF Node, Extent, Span
<1>10. dst \in NodeIn /\ Span(dst.rep) \subseteq avail[Top.src + 1]
  BY <1>3
<1> HIDE DEF dst
<1>11. ASSUME NEW l \in Span(dst.ori)
       PROVE  Loc[l] # -1 /\ disk'[Where(dst, l)] = disk[Loc[l]]
  <2>1. l \in Block /\ l \in Span(s.ori)
    BY <1>4, <1>10, NodeForm
  <2>2. Maps(repTree, NodesIn(ev), l, Where(s, l)) /\ Mapped(repTree, NodesIn(ev), l)
    BY <1>2, <2>1 DEF Maps, Mapped
  <2>3. Loc[l] = Where(s, l) /\ Loc[l] # -1
    BY <1>1, <2>1, <2>2, LocIs DEF LocFacts
  <2>4. Where(dst, l) \in Span(dst.rep) /\ Where(dst, l) \in Block
    BY <1>10, WhereIs
  <2>5. disk'[Where(dst, l)] = disk[s.rep.start + (Where(dst, l) - x)]
    BY <1>8, <1>9, <2>4
  <2>6. s.rep.start + (Where(dst, l) - x) = Where(s, l)
    <3>1. Where(dst, l) = x + (l - s.ori.start)
      BY <1>9 DEF Where
    <3>2. l \in Int
      BY <2>1, Geometry
    <3>3. \A a, b, c \in Int : a + ((x + (b - c)) - x) = a + (b - c)
      BY <1>7
    <3> HIDE DEF s
    <3> QED BY <1>7, <3>1, <3>2, <3>3 DEF Where
  <2> QED BY <2>3, <2>5, <2>6
<1>12. \A p \in Block \ Span(dst.rep) : disk'[p] = disk[p]
  BY <1>8, <1>9
<1> QED BY <1>2, <1>5, <1>10, <1>11, <1>12

(* The other steps leave a mapped block where it is, or unmap it.          *)
LEMMA OthersLoc ==
  ASSUME TreeInv, [Next]_vars, ~ Pop, ~ Place, ~ Alloc, ~ DeleteArea
  PROVE  Loc' = Loc
<1>1. TreeInv' /\ NodesIn(ev') = NodesIn(ev) /\ repTree' = repTree
  BY NextTreeInv, OtherOnce
<1> QED BY <1>1, LocSame DEF SameMap

LEMMA PopLoc ==
  ASSUME TreeInv, Pop
  PROVE  Loc' = Loc
<1>1. TreeInv'
  BY NextTreeInv DEF Next, Step
<1> QED BY <1>1, PopMap, LocSame

LEMMA DeleteAreaLoc ==
  ASSUME TreeInv, DeleteArea, NEW n \in At(blk), repTree' = repTree \ {n}
  PROVE  \A l \in Block : Loc'[l] = IF l \in Span(n.ori) THEN -1 ELSE Loc[l]
<1>1. TreeInv' /\ NodesIn(ev') = NodesIn(ev)
  <2>1. UNCHANGED ev
    BY DeleteAreaDoes DEF TreeInv
  <2> QED BY <2>1, NextTreeInv DEF Next, Step
<1>2. n \in repTree
  BY DEF At
<1> QED BY <1>1, <1>2, LocTaken

(* A new area is refused, or its blocks were not mapped.                   *)
LEMMA AllocLoc ==
  ASSUME TreeInv, Alloc, NEW area \in NodeIn, repTree' = RepInsert(repTree, area)
  PROVE  \/ Loc' = Loc
         \/ /\ \A l \in Block : Loc'[l] = IF l \in Span(area.ori) THEN Where(area, l) ELSE Loc[l]
            /\ \A l \in Span(area.ori) : Loc[l] = -1
            /\ repTree' = repTree \union {area}
<1>1. TreeInv' /\ ev' = ev /\ ev = <<>>
  BY NextTreeInv, AllocMaps DEF TreeInv, Next, Step
<1>2. CASE repTree' = repTree
  BY <1>1, <1>2, LocSame DEF SameMap
<1>3. CASE repTree' = repTree \union {area} /\ area \notin repTree
  <2>1. TreeOnce(repTree')
    BY <1>1 DEF TreeInv, Once
  <2>2. \A i \in Nat : Span(NodesIn(ev)[i].ori) = {}
    BY <1>1, NoLoopNodes, NodesType DEF TreeInv
  <2>3. Span(area.ori) \subseteq Block
    BY NodeForm
  <2>4. \A l \in Span(area.ori) : ~ Mapped(repTree, NodesIn(ev), l)
    BY <1>3, <2>1, <2>2, <2>3 DEF TreeOnce, Mapped
  <2>5. \A l \in Span(area.ori) : Loc[l] = -1
    BY <2>3, <2>4, LocIs DEF LocFacts
  <2> QED BY <1>1, <1>3, <2>4, <2>5, LocAdded
<1> QED BY <1>2, <1>3 DEF RepInsert

(* MoveCarriesData for bios of at most HYPRAID_MAX_PAGES blocks: whatever  *)
(* the groups, the overlaps of the bios and the evictions, a block that    *)
(* _hypraid_block_replacement_operation moves arrives with its contents.   *)
(* The extents it moves are cut from what bios have asked for, so that one *)
(* pass of its loop over pages copies all of them.                         *)
THEOREM ShortExtentsKeepContents ==
  ASSUME Short
  PROVE  Spec => MoveCarriesData
<1> DEFINE Carries == \A l \in Block : Loc[l] # -1 /\ Loc'[l] \notin {-1, Loc[l]} =>
                                         disk'[Loc'[l]] = disk[Loc[l]]
<1>1. InsideInv /\ [Next]_vars => [Carries]_vars
  <2> SUFFICES ASSUME InsideInv, [Next]_vars, NEW l \in Block, Loc[l] # -1,
                      Loc'[l] \notin {-1, Loc[l]}
               PROVE  disk'[Loc'[l]] = disk[Loc[l]]
    OBVIOUS
  <2>1. TreeInv
    BY DEF InsideInv
  <2>2. CASE Place
    <3>1. PICK dst \in NodeIn :
            /\ \A k \in Block : Loc'[k] = IF k \in Span(dst.ori) THEN Where(dst, k) ELSE Loc[k]
            /\ \A k \in Span(dst.ori) : disk'[Where(dst, k)] = disk[Loc[k]]
      BY <2>2, PlaceCarries
    <3> QED BY <3>1
  <2>3. CASE Alloc
    <3>1. PICK area \in NodeIn : repTree' = RepInsert(repTree, area)
      BY <2>1, <2>3, AllocMaps DEF TreeInv
    <3> QED BY <2>1, <2>3, <3>1, AllocLoc
  <2>4. CASE Pop
    BY <2>1, <2>4, PopLoc
  <2>5. CASE DeleteArea
    <3>1. PICK n \in At(blk) : repTree' = repTree \ {n}
      BY <2>1, <2>5, DeleteAreaDoes DEF TreeInv
    <3> QED BY <2>1, <2>5, <3>1, DeleteAreaLoc
  <2>6. CASE ~ Pop /\ ~ Place /\ ~ Alloc /\ ~ DeleteArea
    BY <2>1, <2>6, OthersLoc
  <2> QED BY <2>2, <2>3, <2>4, <2>5, <2>6
<1>2. Spec => [][Carries]_vars
  BY <1>1, InsideInvariant, PTL DEF Spec
<1> QED BY <1>2 DEF MoveCarriesData


-----------------------------------------------------------------------------
(* Clients that always use the same extents: no two of those the manager   *)
(* is called with, by bios or by the ioctl, overlap in part.               *)
Known == Requests \union Deletes

FixedClients ==
  /\ Discards = {}
  /\ \A x, y \in Known : Span(x) = Span(y) \/ Span(x) \intersect Span(y) = {}

InMap == { l \in Block : Mapped(repTree, NodesIn(ev), l) }

AllHere(I) == I \subseteq InMap

NoneHere(I) == I \intersect InMap = {}

(* Then each of the extents is mapped as a whole or not at all, except the *)
(* one that a call is working its way through.                             *)
Underway(x) == pc \in {"search", "alloc", "delete"} /\ Span(x) = Span(req)

Extents1 == \A x \in Known : Underway(x) \/ AllHere(Span(x)) \/ NoneHere(Span(x))

Rest1 == AllHere(blk .. req.end) \/ NoneHere(blk .. req.end)

SearchPart == pc = "search" => blk <= req.end + 1 /\ AllHere(req.start .. (blk - 1)) /\ Rest1

AllocPart == pc = "alloc" => AllHere(req.start .. (blk - 1)) /\ NoneHere(blk .. req.end)

IssuePart == pc = "issue" => AllHere(req.start .. req.end)

DeletePart == pc = "delete" => blk <= req.end + 1 /\ NoneHere(req.start .. (blk - 1)) /\ Rest1

FixedInv ==
  InsideInv /\ Refused = {} /\ Extents1 /\ SearchPart /\ AllocPart /\ IssuePart /\ DeletePart

LEMMA KnownExtent ==
  ASSUME NEW x \in Known
  PROVE  x.start \in Nat /\ x.end \in Nat /\ x.start <= x.end /\ Span(x) = x.start .. x.end
         /\ Span(x) \subseteq Block /\ Span(x) # {}
<1>1. x.start \in Block /\ x.end \in Block /\ x.start <= x.end
  <2>1. CASE x \in Deletes
    BY <2>1, BlockAreaAssumption DEF Logical
  <2>2. CASE x \in Requests
    <3>1. PICK e \in Logical, w \in BOOLEAN : x = Call(e, w)
      BY <2>2, BlockAreaAssumption
    <3> QED BY <3>1 DEF Call, Logical
  <2> QED BY <2>1, <2>2 DEF Known
<1>2. Block \subseteq Nat
  BY Geometry
<1>3. x.start \in Nat /\ x.end \in Nat
  BY <1>1, <1>2
<1>4. x.start .. x.end \subseteq Block
  BY <1>1, <1>3, Geometry DEF Block
<1>5. x.start \in x.start .. x.end
  BY <1>1, <1>3
<1> QED BY <1>1, <1>3, <1>4, <1>5 DEF Span

(* The request of a call is one of them, and an area that has a block of   *)
(* it lies in it.                                                          *)
LEMMA CallExtent ==
  ASSUME InsideInv, pc \in {"search", "alloc", "issue", "delete"}
  PROVE  /\ \E x \in Known : Span(x) = Span(req)
         /\ req.start \in Nat /\ req.end \in Nat /\ req.start <= req.end
         /\ Span(req) = req.start .. req.end /\ blk \in Nat /\ blk >= req.start
         /\ req.start .. req.end \subseteq Block
<1>1. \E x \in Known : req.start = x.start /\ req.end = x.end
  BY DEF InsideInv, Asked, Known, Call
<1>2. PICK x \in Known : req.start = x.start /\ req.end = x.end
  BY <1>1
<1>3. Span(x) = Span(req)
  BY <1>2 DEF Span
<1>4. blk \in Nat /\ blk >= req.start
  BY Cursor DEF InsideInv, Ahead
<1> QED BY <1>2, <1>3, <1>4, KnownExtent

LEMMA AreaInCall ==
  ASSUME FixedClients, InsideInv, pc \in {"search", "alloc", "issue", "delete"},
         NEW n \in AllListed, NEW l \in req.start .. req.end, l \in Span(n.ori)
  PROVE  Span(n.ori) \subseteq req.start .. req.end
<1>1. n.cnt >= 1 /\ Inside(n)
  BY TreeNodes DEF InsideInv, TreeInv, AllInside
<1>2. PICK r \in Requests : Span(n.ori) \subseteq Span(r)
  BY <1>1 DEF Inside
<1>3. PICK x \in Known : Span(x) = Span(req)
  BY CallExtent
<1>4. Span(req) = req.start .. req.end
  BY CallExtent
<1>5. r \in Known /\ l \in Span(r) /\ l \in Span(x)
  BY <1>2, <1>3, <1>4 DEF Known
<1>6. Span(r) = Span(x)
  BY <1>5 DEF FixedClients
<1> QED BY <1>2, <1>3, <1>4, <1>6

(* What a step does to the blocks that are mapped.                         *)
LEMMA SameInMap ==
  ASSUME TreeInv, [Next]_vars, ~ Alloc, ~ DeleteArea
  PROVE  InMap' = InMap
<1>1. CASE Pop \/ Place
  <2>1. \A l \in Block : Mapped(repTree, NodesIn(ev), l)' <=> Mapped(repTree, NodesIn(ev), l)
    BY <1>1, PopRefuses, PlaceRefuses
  <2> QED BY <2>1 DEF InMap
<1>2. CASE ~ Pop /\ ~ Place
  <2>1. NodesIn(ev)' = NodesIn(ev) /\ repTree' = repTree
    BY <1>2, OtherOnce
  <2> QED BY <2>1 DEF InMap
<1> QED BY <1>1, <1>2

LEMMA AtInMap ==
  ASSUME TreeInv, ev = <<>>
  PROVE  /\ InMap = { l \in Block : At(l) # {} }
         /\ \A l \in Block : \A n \in At(l) : /\ n \in AllListed /\ Span(n.ori) \subseteq InMap
                                             /\ l \in Span(n.ori)
<1>1. InMap = { l \in Block : At(l) # {} }
  BY NowhereMapped DEF InMap
<1>2. ASSUME NEW l \in Block, NEW n \in At(l)
      PROVE  n \in AllListed /\ Span(n.ori) \subseteq InMap /\ l \in Span(n.ori)
  <2>1. n \in repTree /\ n \in AllListed /\ n \in NodeIn /\ l \in Span(n.ori)
    BY TreeNodes DEF TreeInv, At
  <2>2. Span(n.ori) \subseteq Block
    BY <2>1, NodeForm
  <2> QED BY <1>1, <2>1, <2>2 DEF At
<1> QED BY <1>1, <1>2

LEMMA SameListed ==
  ASSUME TreeInv, [Next]_vars, ~ Alloc, Refused = {}
  PROVE  Refused' = {}
<1>1. CASE Pop \/ Place
  BY <1>1, PopRefuses, PlaceRefuses
<1>2. CASE DeleteArea
  BY <1>2, DeleteAreaDoes DEF Refused, TreeInv
<1>3. CASE ~ Pop /\ ~ Place /\ ~ DeleteArea
  <2>1. repTree' = repTree /\ AllListed' = AllListed
    BY <1>3, OtherOnce
  <2> QED BY <2>1 DEF Refused
<1> QED BY <1>1, <1>2, <1>3

LEMMA AllocInMap ==
  ASSUME FixedClients, FixedInv, Alloc
  PROVE  /\ Refused' = {} /\ UNCHANGED req /\ pc' = "search"
         /\ \E n \in Int : /\ n >= 1 /\ n <= req.end - blk + 1 /\ blk' = blk + n
                           /\ InMap' = InMap \union (blk .. (blk + n - 1))
<1>1. /\ TreeInv /\ SpaceInv /\ pc = "alloc" /\ ev = <<>> /\ ev' = ev
      /\ UNCHANGED req /\ pc' = "search"
  BY AllocMaps DEF FixedInv, InsideInv, TreeInv
<1>2. PICK n \in Int, p \in Int :
        LET area == Node(blk, p, n)
        IN  /\ n >= 1 /\ n <= req.end - blk + 1 /\ blk' = blk + n
            /\ area \in NodeIn
            /\ Span(area.ori) = blk .. (blk + n - 1)
            /\ repTree' = RepInsert(repTree, area)
            /\ AllListed' = AllListed \union {area}
  BY <1>1, AllocMaps
<1> DEFINE area == Node(blk, p, n)
<1>3. /\ area \in NodeIn /\ Span(area.ori) = blk .. (blk + n - 1) /\ area.cnt = n
      /\ repTree' = RepInsert(repTree, area) /\ AllListed' = AllListed \union {area}
  BY <1>2 DEF Node
<1> HIDE DEF area
<1>4. blk .. (blk + n - 1) \subseteq blk .. req.end
  <2>1. req.end \in Int /\ blk \in Int
    BY <1>1, Cursor
  <2> QED BY <1>2, <2>1
<1>5. Span(area.ori) \intersect InMap = {} /\ Span(area.ori) \subseteq Block
  <2>1. (blk .. req.end) \intersect InMap = {}
    BY <1>1 DEF FixedInv, AllocPart, NoneHere
  <2> QED BY <1>3, <1>4, <2>1, NodeForm
<1>6. repTree' = repTree \union {area}
  <2>1. \A m \in repTree, l \in Block : ~ (l \in Span(m.ori) /\ l \in Span(area.ori))
    BY <1>5 DEF InMap, Mapped
  <2>2. repTree \subseteq NodeIn /\ \A m \in repTree : m.cnt >= 1
    BY <1>1, TreeNodes
  <2> QED BY <1>2, <1>3, <2>1, <2>2, NotRefused
<1>7. Refused' = {}
  BY <1>3, <1>6 DEF FixedInv, Refused
<1>8. InMap' = InMap \union (blk .. (blk + n - 1))
  <2>1. \A l \in Block : Mapped(repTree', NodesIn(ev'), l) <=>
                           Mapped(repTree, NodesIn(ev), l) \/ l \in Span(area.ori)
    BY <1>1, <1>6 DEF Mapped
  <2> QED BY <1>3, <1>5, <2>1 DEF InMap
<1> QED BY <1>1, <1>2, <1>7, <1>8

LEMMA DeleteInMap ==
  ASSUME FixedClients, FixedInv, DeleteArea
  PROVE  /\ UNCHANGED <<req, pc>> /\ pc = "delete"
         /\ \E e \in Int : /\ e >= blk /\ e <= req.end /\ blk' = e + 1
                           /\ InMap' = InMap \ (blk .. e)
         /\ \A n \in At(blk) : Span(n.ori) \subseteq Span(req)
<1>1. /\ InsideInv /\ TreeInv /\ IInv /\ pc = "delete" /\ ev = <<>> /\ ev' = ev
      /\ UNCHANGED <<req, pc>> /\ blk <= req.end
  BY DeleteAreaDoes DEF FixedInv, InsideInv, TreeInv, SpaceInv
<1>2. PICK n \in At(blk) : repTree' = repTree \ {n} /\ blk' = n.ori.end + 1
  BY <1>1, DeleteAreaDoes DEF TreeInv
<1>3. /\ req.start \in Nat /\ req.end \in Nat /\ blk \in Nat /\ blk >= req.start
      /\ Span(req) = req.start .. req.end /\ req.start .. req.end \subseteq Block
  BY <1>1, CallExtent
<1>4. blk \in req.start .. req.end /\ blk \in Block
  BY <1>1, <1>3
<1>5. \A m \in At(blk) : Span(m.ori) \subseteq req.start .. req.end
  BY <1>1, <1>4, AtInMap, AreaInCall
<1>6. /\ n \in NodeIn /\ n.ori.start \in Int /\ n.ori.end \in Int
      /\ n.ori.start <= blk /\ blk <= n.ori.end /\ n.cnt >= 1
  BY <1>1, FoundType
<1>7. Span(n.ori) \subseteq InMap /\ Span(n.ori) = n.ori.start .. n.ori.end
  BY <1>1, <1>4, AtInMap DEF Span
<1>8. n.ori.start \in Span(n.ori) /\ n.ori.end \in Span(n.ori)
  BY <1>3, <1>6, <1>7
<1>9. n.ori.end <= req.end /\ n.ori.start >= req.start
  BY <1>3, <1>5, <1>8
<1>10. n.ori.start = blk
  <2>1. n.ori.start \notin req.start .. (blk - 1)
    BY <1>1, <1>7, <1>8 DEF FixedInv, DeletePart, NoneHere
  <2> QED BY <1>3, <1>6, <1>9, <2>1
<1>11. InMap' = InMap \ (blk .. n.ori.end)
  <2>1. n \in repTree /\ Once(repTree, NodesIn(ev))
    BY <1>1 DEF At, TreeInv
  <2>2. \A l \in Block : Mapped(repTree', NodesIn(ev'), l) <=>
                           Mapped(repTree, NodesIn(ev), l) /\ l \notin Span(n.ori)
    BY <1>1, <1>2, <2>1 DEF Mapped, Once, TreeOnce, TreeOrRest
  <2> QED BY <1>7, <1>10, <2>2 DEF InMap
<1> QED BY <1>1, <1>2, <1>3, <1>5, <1>6, <1>9, <1>11


(* Each extent not under way stays whole when only blocks of the request   *)
(* are mapped or given up.                                                 *)
LEMMA OthersWhole ==
  ASSUME FixedClients, Extents1, NEW q \in Known, Span(q) = Span(req),
         UNCHANGED req, pc' \in {"search", "alloc", "delete"},
         NEW D, D \subseteq Span(req),
         InMap' = InMap \union D \/ InMap' = InMap \ D
  PROVE  Extents1'
<1> SUFFICES ASSUME NEW x \in Known, Span(x) # Span(req)
             PROVE  (AllHere(Span(x)) \/ NoneHere(Span(x)))'
  BY DEF Extents1, Underway
<1>1. Span(x) \intersect D = {}
  BY DEF FixedClients
<1>2. AllHere(Span(x)) \/ NoneHere(Span(x))
  BY DEF Extents1, Underway
<1> QED BY <1>1, <1>2 DEF AllHere, NoneHere

LEMMA SameWhole ==
  ASSUME InMap' = InMap, Extents1, ~ (pc \in {"search", "alloc", "delete"})
  PROVE  Extents1'
  BY DEF Extents1, Underway, AllHere, NoneHere

LEMMA CallRest ==
  ASSUME FixedInv, pc \in {"search", "alloc", "issue", "delete"}
  PROVE  /\ InsideInv /\ TreeInv /\ IInv
         /\ req.start \in Nat /\ req.end \in Nat /\ req.start <= req.end
         /\ Span(req) = req.start .. req.end /\ blk \in Nat /\ blk >= req.start
         /\ req.start .. req.end \subseteq Block
  BY CallExtent DEF FixedInv, InsideInv, TreeInv, SpaceInv

LEMMA StartFixed ==
  ASSUME FixedInv, [Next]_vars, Submit \/ Delete
  PROVE  FixedInv'
<1>1. TreeInv /\ InsideInv'
  BY NextInside DEF FixedInv, InsideInv
<1>2. InMap' = InMap /\ Refused' = {}
  <2>1. ~ Alloc /\ ~ DeleteArea
    BY DEF Submit, Delete, Start, Alloc, DeleteArea, Deleting, Running
  <2> QED BY <1>1, <2>1, SameInMap, SameListed DEF FixedInv
<1>3. pc = "idle" /\ pc' \in {"search", "delete"} /\ blk' = req'.start
  BY DEF Submit, Delete, Start, Running
<1>4. PICK x \in Known : req'.start = x.start /\ req'.end = x.end
  BY <1>3 DEF Submit, Delete, Start, Known, Call
<1>5. /\ x.start \in Nat /\ x.end \in Nat /\ x.start <= x.end /\ Span(x) = x.start .. x.end
  BY KnownExtent
<1>6. AllHere(Span(x)) \/ NoneHere(Span(x))
  BY <1>3 DEF FixedInv, Extents1, Underway
<1>7. /\ blk' .. req'.end = Span(x) /\ req'.start .. (blk' - 1) = {} /\ blk' <= req'.end + 1
  BY <1>3, <1>4, <1>5
<1>8. Extents1'
  BY <1>2, <1>3, SameWhole DEF FixedInv
<1>9. SearchPart'
  BY <1>2, <1>6, <1>7 DEF SearchPart, Rest1, AllHere, NoneHere
<1>10. DeletePart'
  BY <1>2, <1>6, <1>7 DEF DeletePart, Rest1, AllHere, NoneHere
<1> QED BY <1>1, <1>2, <1>3, <1>8, <1>9, <1>10 DEF FixedInv, AllocPart, IssuePart

LEMMA TouchFixed ==
  ASSUME FixedClients, FixedInv, [Next]_vars, Touch
  PROVE  FixedInv'
<1>1. /\ TreeInv /\ SpaceInv /\ InsideInv'
  BY NextInside DEF FixedInv, InsideInv, TreeInv
<1>2. /\ pc = "search" /\ pc' = "search" /\ ev = <<>> /\ UNCHANGED req /\ blk <= req.end
      /\ InMap' = InMap /\ Refused' = {}
  <2>1. ~ Alloc /\ ~ DeleteArea
    BY DEF Touch, Searching, Alloc, DeleteArea, Deleting, Running
  <2>2. blk <= req.end
    BY DEF Touch, Searching
  <2> QED BY <1>1, <2>1, <2>2, TouchFiles, SameInMap, SameListed DEF FixedInv
<1>3. PICK n \in At(blk) : blk' = n.ori.end + 1
  BY <1>1, TouchFiles
<1>4. /\ InsideInv /\ IInv /\ req.start \in Nat /\ req.end \in Nat
      /\ Span(req) = req.start .. req.end /\ blk \in Nat /\ blk >= req.start
      /\ req.start .. req.end \subseteq Block
  BY <1>2, CallRest
<1>5. blk \in req.start .. req.end /\ blk \in Block
  BY <1>2, <1>4
<1>6. /\ Span(n.ori) \subseteq InMap /\ Span(n.ori) \subseteq req.start .. req.end
  BY <1>1, <1>2, <1>4, <1>5, AtInMap, AreaInCall
<1>7. /\ n.ori.start \in Int /\ n.ori.end \in Int /\ n.ori.start <= blk /\ blk <= n.ori.end
      /\ Span(n.ori) = n.ori.start .. n.ori.end
  BY <1>4, FoundType DEF Span
<1>8. n.ori.end <= req.end /\ blk .. n.ori.end \subseteq InMap
  <2>1. n.ori.end \in Span(n.ori) /\ blk .. n.ori.end \subseteq Span(n.ori)
    BY <1>4, <1>7
  <2> QED BY <1>4, <1>6, <2>1
<1>9. /\ blk' <= req.end + 1 /\ blk' .. req.end \subseteq blk .. req.end
      /\ req.start .. (blk' - 1) = (req.start .. (blk - 1)) \union (blk .. n.ori.end)
  BY <1>3, <1>4, <1>7, <1>8
<1>10. SearchPart'
  <2>1. AllHere(req.start .. (blk - 1)) /\ Rest1
    BY <1>2 DEF FixedInv, SearchPart
  <2> QED BY <1>2, <1>8, <1>9, <2>1 DEF SearchPart, Rest1, AllHere, NoneHere
<1>11. Extents1'
  BY <1>2 DEF FixedInv, Extents1, Underway, AllHere, NoneHere
<1> QED BY <1>1, <1>2, <1>10, <1>11 DEF FixedInv, AllocPart, IssuePart, DeletePart

LEMMA MakeRoomFixed ==
  ASSUME FixedInv, [Next]_vars, MakeRoom
  PROVE  FixedInv'
<1>1. /\ TreeInv /\ InsideInv'
  BY NextInside DEF FixedInv, InsideInv
<1>2. /\ pc = "search" /\ pc' = "alloc" /\ ev = <<>> /\ UNCHANGED <<req, blk>> /\ blk <= req.end
      /\ InMap' = InMap /\ Refused' = {} /\ At(blk) = {}
  <2>1. /\ pc = "search" /\ pc' = "alloc" /\ ev = <<>> /\ UNCHANGED <<req, blk>> /\ blk <= req.end
        /\ At(blk) = {}
    BY DEF MakeRoom, Searching, Running
  <2>2. ~ Alloc /\ ~ DeleteArea
    BY <2>1 DEF Alloc, DeleteArea, Deleting, Running
  <2> QED BY <1>1, <2>1, <2>2, SameInMap, SameListed DEF FixedInv
<1>4. /\ req.end \in Nat /\ blk \in Nat
  BY <1>2, CallRest
<1>5. blk \in blk .. req.end
  BY <1>2, <1>4
<1>6. blk \notin InMap
  BY <1>1, <1>2, AtInMap
<1>7. AllHere(req.start .. (blk - 1)) /\ NoneHere(blk .. req.end)
  BY <1>2, <1>5, <1>6 DEF FixedInv, SearchPart, Rest1, AllHere
<1>8. AllocPart'
  BY <1>2, <1>7 DEF AllocPart, AllHere, NoneHere
<1>11. Extents1'
  BY <1>2 DEF FixedInv, Extents1, Underway, AllHere, NoneHere
<1> QED BY <1>1, <1>2, <1>8, <1>11 DEF FixedInv, SearchPart, IssuePart, DeletePart

LEMMA AllocFixed ==
  ASSUME FixedClients, FixedInv, [Next]_vars, Alloc
  PROVE  FixedInv'
<1>1. /\ InsideInv /\ InsideInv'
  BY NextInside DEF FixedInv
<1>2. /\ pc = "alloc" /\ pc' = "search" /\ UNCHANGED req /\ Refused' = {}
  BY AllocInMap DEF Alloc, Running
<1>3. PICK n \in Int : /\ n >= 1 /\ n <= req.end - blk + 1 /\ blk' = blk + n
                       /\ InMap' = InMap \union (blk .. (blk + n - 1))
  BY AllocInMap
<1>4. /\ req.start \in Nat /\ req.end \in Nat
      /\ Span(req) = req.start .. req.end /\ blk \in Nat /\ blk >= req.start
  BY <1>2, CallRest
<1>5. /\ blk' <= req.end + 1 /\ blk' .. req.end \subseteq blk .. req.end
      /\ (blk' .. req.end) \intersect (blk .. (blk + n - 1)) = {}
      /\ req.start .. (blk' - 1) = (req.start .. (blk - 1)) \union (blk .. (blk + n - 1))
      /\ blk .. (blk + n - 1) \subseteq req.start .. req.end
  BY SMTT(60), <1>3, <1>4
<1>6. SearchPart'
  <2>1. AllHere(req.start .. (blk - 1)) /\ NoneHere(blk .. req.end)
    BY <1>2 DEF FixedInv, AllocPart
  <2> QED BY <1>2, <1>3, <1>5, <2>1 DEF SearchPart, Rest1, AllHere, NoneHere
<1>7. Extents1'
  <2>1. PICK q \in Known : Span(q) = Span(req)
    BY <1>1, <1>2, CallExtent
  <2> DEFINE D == blk .. (blk + n - 1)
  <2>2. D \subseteq Span(req) /\ InMap' = InMap \union D
    BY <1>3, <1>4, <1>5
  <2> HIDE DEF D
  <2> QED BY <1>2, <2>1, <2>2, OthersWhole DEF FixedInv
<1> QED BY <1>1, <1>2, <1>6, <1>7 DEF FixedInv, AllocPart, IssuePart, DeletePart

LEMMA DeleteAreaFixed ==
  ASSUME FixedClients, FixedInv, [Next]_vars, DeleteArea
  PROVE  FixedInv'
<1>1. /\ InsideInv /\ TreeInv /\ InsideInv'
  BY NextInside DEF FixedInv, InsideInv
<1>2. /\ pc = "delete" /\ UNCHANGED <<req, pc>>
  BY DeleteInMap
<1>3. PICK e \in Int : /\ e >= blk /\ e <= req.end /\ blk' = e + 1
                       /\ InMap' = InMap \ (blk .. e)
  BY DeleteInMap
<1>4. /\ req.start \in Nat /\ req.end \in Nat
      /\ Span(req) = req.start .. req.end /\ blk \in Nat /\ blk >= req.start
  BY <1>2, CallRest
<1>5. /\ blk' <= req.end + 1 /\ blk' .. req.end \subseteq blk .. req.end
      /\ (blk' .. req.end) \intersect (blk .. e) = {}
      /\ req.start .. (blk' - 1) = (req.start .. (blk - 1)) \union (blk .. e)
      /\ blk .. e \subseteq req.start .. req.end
  BY <1>3, <1>4
<1>6. DeletePart'
  <2>1. NoneHere(req.start .. (blk - 1)) /\ Rest1
    BY <1>2 DEF FixedInv, DeletePart
  <2> QED BY <1>2, <1>3, <1>5, <2>1 DEF DeletePart, Rest1, AllHere, NoneHere
<1>7. Extents1'
  <2>1. PICK q \in Known : Span(q) = Span(req)
    BY <1>1, <1>2, CallExtent
  <2> DEFINE D == blk .. e
  <2>2. D \subseteq Span(req) /\ InMap' = InMap \ D
    BY <1>3, <1>4, <1>5
  <2> HIDE DEF D
  <2> QED BY <1>2, <2>1, <2>2, OthersWhole DEF FixedInv
<1>8. Refused' = {}
  <2>1. ~ Alloc
    BY <1>2 DEF Alloc, Running
  <2> QED BY <1>1, <2>1, SameListed DEF FixedInv
<1> QED BY <1>1, <1>2, <1>6, <1>7, <1>8 DEF FixedInv, SearchPart, AllocPart, IssuePart

(* The call is over, and all of its extent is mapped or none of it.        *)
LEMMA DeletedNone ==
  ASSUME FixedInv, Deleted
  PROVE  AllHere(Span(req)) \/ NoneHere(Span(req))
<1>1. pc = "delete" /\ ev = <<>> /\ (blk > req.end \/ At(blk) = {})
  BY DEF Deleted, Running
<1>2. /\ TreeInv /\ req.start \in Nat /\ req.end \in Nat
      /\ Span(req) = req.start .. req.end /\ blk \in Nat /\ blk >= req.start
  BY <1>1, CallRest
<1>3. NoneHere(req.start .. (blk - 1)) /\ Rest1 /\ blk <= req.end + 1
  BY <1>1 DEF FixedInv, DeletePart
<1>4. CASE blk > req.end
  <2>1. req.start .. req.end = req.start .. (blk - 1)
    BY <1>2, <1>3, <1>4
  <2> QED BY <1>2, <1>3, <2>1
<1>5. CASE blk <= req.end
  <2>1. blk \notin InMap
    BY <1>1, <1>2, <1>5, AtInMap
  <2>2. blk \in blk .. req.end
    BY <1>2, <1>5
  <2>3. NoneHere(blk .. req.end)
    BY <1>3, <2>1, <2>2 DEF Rest1, AllHere
  <2>4. req.start .. req.end = (req.start .. (blk - 1)) \union (blk .. req.end)
    BY <1>2, <1>3
  <2> QED BY <1>2, <1>3, <2>3, <2>4 DEF NoneHere
<1> QED BY <1>2, <1>4, <1>5

LEMMA EndFixed ==
  ASSUME FixedInv, [Next]_vars, Inserted \/ Issue \/ Issued \/ Deleted
  PROVE  FixedInv'
<1>1. /\ InsideInv /\ TreeInv /\ IInv /\ InsideInv'
  BY NextInside DEF FixedInv, InsideInv, TreeInv, SpaceInv
<1>2. InMap' = InMap /\ Refused' = {}
  <2>1. ~ Alloc /\ ~ DeleteArea
    BY DEF Inserted, Issue, Issuing, Issued, Deleted, Alloc, DeleteArea, Deleting, Running, Return
  <2> QED BY <1>1, <2>1, SameInMap, SameListed DEF FixedInv
<1>3. CASE Inserted
  <2>1. pc = "search" /\ pc' = "issue" /\ blk > req.end /\ UNCHANGED req
    BY <1>3 DEF Inserted, Running
  <2>2. req.start \in Nat /\ req.end \in Nat /\ Span(req) = req.start .. req.end /\ blk \in Nat
    BY <2>1, CallRest
  <2>3. AllHere(req.start .. (blk - 1)) /\ blk <= req.end + 1
    BY <2>1 DEF FixedInv, SearchPart
  <2>4. req.start .. req.end = req.start .. (blk - 1)
    BY <2>1, <2>2, <2>3
  <2>5. AllHere(req.start .. req.end)
    BY <2>3, <2>4
  <2>6. IssuePart'
    BY <1>2, <2>1, <2>5 DEF IssuePart, AllHere
  <2>7. Extents1'
    BY <1>2, <2>2, <2>5 DEF FixedInv, Extents1, Underway, AllHere, NoneHere
  <2> QED BY <1>1, <1>2, <2>1, <2>6, <2>7 DEF FixedInv, SearchPart, AllocPart, DeletePart
<1>4. CASE Issue
  <2>1. pc = "issue" /\ pc' = "issue" /\ UNCHANGED req
    BY <1>1, <1>4, IssueAdvances
  <2>2. IssuePart'
    BY <1>2, <2>1 DEF FixedInv, IssuePart, AllHere
  <2>3. Extents1'
    BY <1>2, <2>1, SameWhole DEF FixedInv
  <2> QED BY <1>1, <1>2, <2>1, <2>2, <2>3 DEF FixedInv, SearchPart, AllocPart, DeletePart
<1>5. CASE Issued
  <2>1. pc = "issue" /\ pc' = "idle"
    BY <1>5 DEF Issued, Running, Return
  <2>3. Extents1'
    BY <1>2, <2>1, SameWhole DEF FixedInv
  <2> QED BY <1>1, <1>2, <2>1, <2>3 DEF FixedInv, SearchPart, AllocPart, IssuePart, DeletePart
<1>6. CASE Deleted
  <2>1. pc = "delete" /\ pc' = "idle"
    BY <1>6 DEF Deleted, Running, Return
  <2>2. AllHere(Span(req)) \/ NoneHere(Span(req))
    BY <1>6, DeletedNone
  <2>3. Extents1'
    BY <1>2, <2>1, <2>2 DEF FixedInv, Extents1, Underway, AllHere, NoneHere
  <2> QED BY <1>1, <1>2, <2>1, <2>3 DEF FixedInv, SearchPart, AllocPart, IssuePart, DeletePart
<1> QED BY <1>3, <1>4, <1>5, <1>6

LEMMA OtherFixed ==
  ASSUME FixedInv, [Next]_vars,
         Pop \/ Place \/ Evicted \/ Evict \/ Discard \/ Fail \/ Halted \/ UNCHANGED vars
  PROVE  FixedInv'
<1>1. /\ InsideInv /\ TreeInv /\ InsideInv'
  BY NextInside DEF FixedInv, InsideInv
<1>2. InMap' = InMap /\ Refused' = {}
  <2>1. CASE Pop \/ Place
    <3>1. \A l \in Block : Mapped(repTree, NodesIn(ev), l)' <=> Mapped(repTree, NodesIn(ev), l)
      BY <1>1, <2>1, PopRefuses, PlaceRefuses
    <3>2. Refused' = {}
      BY <1>1, <2>1, PopRefuses, PlaceRefuses DEF FixedInv
    <3> QED BY <3>1, <3>2 DEF InMap
  <2>2. CASE Evicted \/ Evict \/ Discard
    <3>1. ~ Alloc /\ ~ DeleteArea
      BY <2>2 DEF Evicted, Evicting, Evict, Discard, Alloc, DeleteArea, Deleting, Running
    <3> QED BY <1>1, <3>1, SameInMap, SameListed DEF FixedInv
  <2>3. CASE Fail \/ Halted \/ UNCHANGED vars
    <3>1. UNCHANGED <<repTree, pri, ev>>
      BY <2>3, Stopping
    <3> QED BY <3>1 DEF InMap, FixedInv, Refused, AllListed, Listed
  <2> QED BY <2>1, <2>2, <2>3
<1>3. CASE UNCHANGED <<pc, req, blk>>
  <2>1. Extents1'
    BY <1>2, <1>3 DEF FixedInv, Extents1, Underway, AllHere, NoneHere
  <2>2. SearchPart' /\ DeletePart'
    BY <1>2, <1>3 DEF FixedInv, SearchPart, DeletePart, Rest1, AllHere, NoneHere
  <2>3. AllocPart' /\ IssuePart'
    BY <1>2, <1>3 DEF FixedInv, AllocPart, IssuePart, AllHere, NoneHere
  <2> QED BY <1>1, <1>2, <2>1, <2>2, <2>3 DEF FixedInv
<1>4. CASE pc \in {"idle", "evict"} /\ pc' \in {"idle", "evict"}
  <2>1. Extents1'
    BY <1>2, <1>4, SameWhole DEF FixedInv
  <2> QED BY <1>1, <1>2, <1>4, <2>1 DEF FixedInv, SearchPart, AllocPart, IssuePart, DeletePart
<1>5. \/ UNCHANGED <<pc, req, blk>>
      \/ pc \in {"idle", "evict"} /\ pc' \in {"idle", "evict"}
  BY Stopping DEF Pop, Place, Evicted, Evict, Discard, Running, call
<1> QED BY <1>3, <1>4, <1>5

LEMMA NextFixed == ASSUME FixedClients PROVE FixedInv /\ [Next]_vars => FixedInv'
  BY StartFixed, TouchFixed, MakeRoomFixed, AllocFixed, DeleteAreaFixed, EndFixed, OtherFixed
     DEF Next, Step

LEMMA InitFixed == Init => FixedInv
<1> SUFFICES ASSUME Init PROVE FixedInv
  OBVIOUS
<1>1. NodesIn(ev) = [i \in Nat |-> NoNode] /\ AllListed = {} /\ repTree = {}
  BY NoLoopNodes DEF Init, AllListed, Listed, Range
<1>2. InsideInv
  BY <1>1, InitOnce DEF Init, InsideInv, Busy, Ahead, Asked, AllInside, Inside, NoNode, Node
<1>3. Span(NoNode.ori) = {}
  BY DEF NoNode, Node, Extent, Span
<1>4. InMap = {}
  BY <1>1, <1>3 DEF InMap, Mapped
<1> QED BY <1>1, <1>2, <1>4 DEF Init, FixedInv, Refused, Extents1, NoneHere, SearchPart,
   AllocPart, IssuePart, DeletePart

LEMMA FixedInvariant == ASSUME FixedClients PROVE Spec => []FixedInv
  BY InitFixed, NextFixed, PTL DEF Spec


(* Coherent for such clients: nothing that insert makes is refused by the  *)
(* tree, so that lists and tree hold the same areas, disjoint ones. It is  *)
(* the overlap in part of two requests that parts them.                    *)
THEOREM FixedExtentsAreCoherent ==
  ASSUME FixedClients
  PROVE  Spec => []Coherent
<1>1. FixedInv => Coherent
  <2> SUFFICES ASSUME FixedInv
               PROVE  /\ repTree = AllListed
                      /\ \A m, n \in repTree : m # n => ~ Overlap(m.ori, n.ori)
    BY DEF Coherent
  <2>1. SpaceInv /\ Once(repTree, NodesIn(ev))
    BY DEF FixedInv, InsideInv, TreeInv
  <2>2. repTree = AllListed
    BY <2>1, TreeNodes DEF FixedInv, Refused
  <2>3. ASSUME NEW m \in repTree, NEW n \in repTree, Overlap(m.ori, n.ori)
        PROVE  m = n
    <3>1. m \in NodeIn /\ n \in NodeIn /\ m.cnt >= 1 /\ n.cnt >= 1
      BY <2>1, TreeNodes
    <3>2. /\ m.ori.start \in Int /\ m.ori.end \in Int /\ m.ori.start <= m.ori.end
          /\ n.ori.start \in Int /\ n.ori.end \in Int /\ n.ori.start <= n.ori.end
          /\ Span(m.ori) \subseteq Block
      <4>1. m.ori.end = m.ori.start + m.cnt - 1 /\ n.ori.end = n.ori.start + n.cnt - 1
        BY <3>1, NodeForm
      <4>2. /\ m.ori.start \in Int /\ m.ori.end \in Int /\ m.cnt \in Int
            /\ n.ori.start \in Int /\ n.ori.end \in Int /\ n.cnt \in Int
        BY <3>1, NodeForm
      <4> QED BY SMTT(60), <3>1, <4>1, <4>2, NodeForm
    <3>3. m.ori.end >= n.ori.start /\ n.ori.end >= m.ori.start
      BY <2>3, <3>2 DEF Overlap
    <3>4. CASE m.ori.start <= n.ori.start
      <4>1. n.ori.start \in Span(m.ori) /\ n.ori.start \in Span(n.ori)
        BY <3>2, <3>3, <3>4 DEF Span
      <4> QED BY <2>1, <3>2, <4>1 DEF Once, TreeOnce
    <3>5. CASE n.ori.start < m.ori.start
      <4>1. m.ori.start \in Span(m.ori) /\ m.ori.start \in Span(n.ori)
        BY <3>2, <3>3, <3>5 DEF Span
      <4> QED BY <2>1, <3>2, <4>1 DEF Once, TreeOnce
    <3> QED BY <3>2, <3>4, <3>5
  <2> QED BY <2>2, <2>3
<1> QED BY <1>1, FixedInvariant, PTL

(* DeleteWithinRange for such clients: hypraid_delete_block_area gives up  *)
(* whole areas, which then lie within the range it was called with.        *)
THEOREM FixedDeletesStayInRange ==
  ASSUME FixedClients
  PROVE  Spec => DeleteWithinRange
<1> DEFINE Within == \A l \in Block :
                       pc = "delete" /\ Loc[l] # -1 /\ Loc'[l] = -1 => l \in Span(req)
<1>1. FixedInv /\ [Next]_vars => [Within]_vars
  <2> SUFFICES ASSUME FixedInv, [Next]_vars, NEW l \in Block,
                      pc = "delete", Loc[l] # -1, Loc'[l] = -1
               PROVE  l \in Span(req)
    OBVIOUS
  <2>1. TreeInv /\ ev = <<>>
    BY DEF FixedInv, InsideInv, Busy
  <2>2. CASE DeleteArea
    <3>1. PICK n \in At(blk) : repTree' = repTree \ {n}
      BY <2>1, <2>2, DeleteAreaDoes DEF TreeInv
    <3>2. l \in Span(n.ori)
      BY <2>1, <2>2, <3>1, DeleteAreaLoc
    <3> QED BY <2>2, <3>2, DeleteInMap
  <2>3. CASE ~ DeleteArea
    <3>1. ~ Pop /\ ~ Place /\ ~ Alloc
      BY <2>1 DEF Pop, Place, Alloc, Popping, Placing, Evicting, Running
    <3>2. Loc' = Loc
      BY <2>1, <2>3, <3>1, OthersLoc
    <3> QED BY <3>2
  <2> QED BY <2>2, <2>3
<1>2. Spec => [][Within]_vars
  BY <1>1, FixedInvariant, PTL DEF Spec
<1> QED BY <1>2 DEF DeleteWithinRange


-----------------------------------------------------------------------------
(* The refinement of StorageMap, step by step.                             *)
MapStep == [Storage!Next]_(Storage!vars)

LEMMA StorageTypes ==
  ASSUME TreeInv
  PROVE  /\ Loc \in [Block -> Block \union {-1}]
         /\ disk \in [Block -> Block \union {-1}]
         /\ Storage!Mapped = { l \in Block : Loc[l] # -1 }
         /\ Storage!Used = { Loc[l] : l \in Storage!Mapped }
         /\ \A k, l \in Storage!Mapped : Loc[k] = Loc[l] => k = l
<1> DEFINE L == Loc
<1>1. \A l \in Block : L[l] \in Block \union {-1}
  BY LocIs DEF LocFacts
<1>2. L = [l \in Block |-> L[l]]
  BY DEF Loc
<1>3. Storage!Mapped = { l \in Block : Loc[l] # -1 } /\ Storage!Used = { Loc[l] : l \in Storage!Mapped }
  BY DEF Storage!Mapped, Storage!Used, Storage!NoBlock
<1>4. \A k, l \in Storage!Mapped : Loc[k] = Loc[l] => k = l
  BY NotShared DEF TreeInv, NoSharedBlock, Storage!Injective
<1>5. L \in [Block -> Block \union {-1}]
  <2> HIDE DEF L
  <2> QED BY <1>1, <1>2
<1> QED BY <1>3, <1>4, <1>5 DEF TreeInv, SpaceInv, IInv, DataIn, NoData

(* What a free list has is nobody's place.                                 *)
LEMMA FreeIsUnused ==
  ASSUME TreeInv, NEW t \in Tiers, NEW l \in Block, Loc[l] # -1
  PROVE  Loc[l] \notin avail[t]
<1>1. Maps(repTree, NodesIn(ev), l, Loc[l])
  BY LocIs DEF LocFacts
<1>2. SpaceInv /\ Partition(avail, Lists(pri), MovingIn(ev))
  BY DEF TreeInv, SpaceInv, Tidy
<1>3. CASE \E n \in repTree : l \in Span(n.ori) /\ Loc[l] = Where(n, l)
  <2>1. PICK n \in repTree : l \in Span(n.ori) /\ Loc[l] = Where(n, l)
    BY <1>3
  <2>2. n \in NodeIn /\ n \in AllListed
    BY <1>2, TreeNodes
  <2>3. PICK u \in Tiers : n \in Lists(pri)[u]
    BY <1>2, <2>2, OnList
  <2>4. Loc[l] \in Span(n.rep) /\ Loc[l] \in Block
    BY <2>1, <2>2, WhereIs
  <2> QED BY <1>2, <2>3, <2>4 DEF Partition, FreeOrListed
<1>4. CASE \E i \in Nat : l \in Span(NodesIn(ev)[i].ori) /\ Loc[l] = Where(NodesIn(ev)[i], l)
  <2>1. PICK i \in Nat : l \in Span(NodesIn(ev)[i].ori) /\ Loc[l] = Where(NodesIn(ev)[i], l)
    BY <1>4
  <2>2. NodesIn(ev)[i] \in NodeIn /\ Span(NoNode.ori) = {}
    BY <1>2, NodesType
  <2>3. i \in DOMAIN ev /\ NodesIn(ev)[i] = ev[i].rest
    BY <2>1, <2>2 DEF NodesIn
  <2>4. Loc[l] \in Span(ev[i].rest.rep) /\ Loc[l] \in Block
    BY <2>1, <2>2, <2>3, WhereIs
  <2>5. Span(ev[i].rest.rep) \subseteq MovingIn(ev)[i]
    BY <1>2, <2>3 DEF SpaceInv, Tidy, Held, FrameHeld, MovingIn
  <2> QED BY <1>2, <2>4, <2>5 DEF Partition, FreeOrMoving
<1> QED BY <1>1, <1>3, <1>4 DEF Maps

(* An area of new blocks, all of them free, has a place for each of its    *)
(* logical blocks.                                                         *)
LEMMA NewPlaces ==
  ASSUME TreeInv, TreeInv', NEW t \in Tiers, NEW n \in NodeIn, Span(n.rep) \subseteq avail[t],
         \A l \in Block : Loc'[l] = IF l \in Span(n.ori) THEN Where(n, l) ELSE Loc[l]
  PROVE  /\ Loc' \in [Block -> Block \union {-1}]
         /\ Span(n.ori) \subseteq Block
         /\ \A l \in Block \ Span(n.ori) : Loc'[l] = Loc[l]
         /\ \A l \in Span(n.ori) : Loc'[l] \in Block \ Storage!Used
         /\ \A k, l \in Span(n.ori) : Loc'[k] = Loc'[l] => k = l
<1>1. Loc' \in [Block -> Block \union {-1}]
  <2>1. TreeInv' => (Loc \in [Block -> Block \union {-1}])'
    BY StorageTypes, PTL
  <2> QED BY <2>1
<1>2. Span(n.ori) \subseteq Block /\ Block \subseteq Int
  BY NodeForm, Geometry
<1>3. ASSUME NEW l \in Span(n.ori) PROVE Loc'[l] \in Block \ Storage!Used
  <2>1. Loc'[l] = Where(n, l) /\ Where(n, l) \in Span(n.rep) /\ Where(n, l) \in Block
    BY <1>2, WhereIs
  <2>2. \A k \in Block : Loc[k] # -1 => Loc[k] # Where(n, l)
    BY <2>1, FreeIsUnused
  <2>3. Where(n, l) \notin Storage!Used
    BY <2>2, StorageTypes
  <2> QED BY <2>1, <2>3
<1>4. ASSUME NEW k \in Span(n.ori), NEW l \in Span(n.ori), Loc'[k] = Loc'[l] PROVE k = l
  <2>1. Where(n, k) = Where(n, l) /\ k \in Int /\ l \in Int
    BY <1>2, <1>4
  <2>2. n.rep.start \in Int /\ n.ori.start \in Int
    BY NodeForm
  <2>3. n.rep.start + (k - n.ori.start) = n.rep.start + (l - n.ori.start)
    BY <2>1 DEF Where
  <2>4. \A a, b, c, d \in Int : a + (b - c) = a + (d - c) => b = d
    OBVIOUS
  <2> QED BY <2>1, <2>2, <2>3, <2>4
<1> QED BY <1>1, <1>2, <1>3, <1>4

LEMMA AllocMapStep ==
  ASSUME TreeInv, Alloc
  PROVE  MapStep
<1>1. /\ TreeInv' /\ UNCHANGED <<disk, written>> /\ SpaceInv
  BY NextTreeInv, AllocMaps DEF TreeInv, Next, Step
<1>2. PICK n \in Int, p \in Int :
        LET area == Node(blk, p, n)
        IN  area \in NodeIn /\ Span(area.rep) \subseteq avail[0] /\ repTree' = RepInsert(repTree, area)
  BY <1>1, AllocMaps
<1> DEFINE area == Node(blk, p, n)
<1>3. /\ area \in NodeIn /\ Span(area.rep) \subseteq avail[0] /\ repTree' = RepInsert(repTree, area)
      /\ 0 \in Tiers
  BY <1>2 DEF Tiers
<1> HIDE DEF area
<1>4. CASE Loc' = Loc
  BY <1>1, <1>4 DEF MapStep, Storage!vars
<1>5. CASE /\ \A l \in Block : Loc'[l] = IF l \in Span(area.ori) THEN Where(area, l) ELSE Loc[l]
           /\ \A l \in Span(area.ori) : Loc[l] = -1
  <2>1. /\ Loc' \in [Block -> Block \union {-1}]
        /\ Span(area.ori) \subseteq Block
        /\ \A l \in Block \ Span(area.ori) : Loc'[l] = Loc[l]
        /\ \A l \in Span(area.ori) : Loc'[l] \in Block \ Storage!Used
        /\ \A k, l \in Span(area.ori) : Loc'[k] = Loc'[l] => k = l
    BY <1>1, <1>3, <1>5, NewPlaces
  <2>2. Span(area.ori) \in SUBSET (Block \ Storage!Mapped)
    BY <1>5, <2>1, StorageTypes
  <2>3. Storage!Allocate
    BY <1>1, <2>1, <2>2 DEF Storage!Allocate, Storage!NoBlock
  <2> QED BY <2>3 DEF MapStep, Storage!Next
<1> QED BY <1>3, <1>4, <1>5, AllocLoc

LEMMA PlaceMapStep ==
  ASSUME InsideInv, Short, Place
  PROVE  MapStep
<1>1. TreeInv /\ TreeInv' /\ UNCHANGED written
  BY NextTreeInv DEF InsideInv, Next, Step, Place
<1>2. Top.src + 1 \in Tiers
  BY PlaceCarries
<1>3. PICK dst \in NodeIn :
        /\ Span(dst.rep) \subseteq avail[Top.src + 1]
        /\ \A l \in Block : Loc'[l] = IF l \in Span(dst.ori) THEN Where(dst, l) ELSE Loc[l]
        /\ \A l \in Span(dst.ori) : Loc[l] # -1 /\ disk'[Where(dst, l)] = disk[Loc[l]]
        /\ \A p \in Block \ Span(dst.rep) : disk'[p] = disk[p]
  BY PlaceCarries
<1>4. /\ Loc' \in [Block -> Block \union {-1}]
      /\ Span(dst.ori) \subseteq Block
      /\ \A l \in Block \ Span(dst.ori) : Loc'[l] = Loc[l]
      /\ \A l \in Span(dst.ori) : Loc'[l] \in Block \ Storage!Used
      /\ \A k, l \in Span(dst.ori) : Loc'[k] = Loc'[l] => k = l
  BY <1>1, <1>2, <1>3, NewPlaces
<1>5. Span(dst.ori) \in SUBSET Storage!Mapped
  BY <1>1, <1>3, <1>4, StorageTypes
<1>6. disk' \in [Block -> Block \union {-1}]
  BY <1>1 DEF TreeInv, SpaceInv, IInv, DataIn, NoData
<1>7. ASSUME NEW l \in Storage!Mapped PROVE Storage!Keeps(l)
  <2>1. l \in Block /\ Loc[l] # -1 /\ Loc[l] \in Block
    <3>1. l \in Block /\ Loc[l] # -1
      BY <1>1, StorageTypes
    <3> QED BY <1>1, <3>1, StorageTypes
  <2>2. disk'[Loc'[l]] = disk[Loc[l]]
    <3>1. CASE l \in Span(dst.ori)
      BY <1>3, <2>1, <3>1
    <3>2. CASE l \notin Span(dst.ori)
      <4>1. Loc[l] \notin avail[Top.src + 1]
        BY <1>1, <1>2, <2>1, FreeIsUnused
      <4> QED BY <1>3, <2>1, <3>2, <4>1
    <3> QED BY <3>1, <3>2
  <2> QED BY <2>2 DEF Storage!Keeps
<1>8. Storage!Relocate
  BY <1>1, <1>4, <1>5, <1>6, <1>7 DEF Storage!Relocate, Storage!NoBlock, Storage!NoData
<1> QED BY <1>8 DEF MapStep, Storage!Next

LEMMA DeleteMapStep ==
  ASSUME TreeInv, DeleteArea
  PROVE  MapStep
<1>1. TreeInv' /\ SpaceInv
  BY NextTreeInv DEF TreeInv, Next, Step
<1>2. PICK n \in At(blk) :
        /\ repTree' = repTree \ {n}
        /\ disk' = [p \in Block |-> IF disk[p] \in Span(n.ori) THEN NoData ELSE disk[p]]
        /\ written' = written \ Span(n.ori)
  BY <1>1, DeleteAreaDoes
<1>3. \A l \in Block : Loc'[l] = IF l \in Span(n.ori) THEN -1 ELSE Loc[l]
  BY <1>2, DeleteAreaLoc
<1>4. n \in repTree /\ n \in NodeIn /\ Span(n.ori) \subseteq Block
  <2>1. n \in repTree
    BY DEF At
  <2>2. n \in NodeIn
    BY <1>1, <2>1, TreeNodes
  <2> QED BY <2>1, <2>2, NodeForm
<1>5. Span(n.ori) \in SUBSET Storage!Mapped
  <2>1. ASSUME NEW l \in Span(n.ori) PROVE Loc[l] # -1
    <3>1. l \in Block /\ Mapped(repTree, NodesIn(ev), l)
      BY <1>4, <2>1 DEF Mapped
    <3> QED BY <3>1, LocIs DEF LocFacts
  <2> QED BY <1>4, <2>1, StorageTypes
<1>6. Loc' = [l \in Block |-> IF l \in Span(n.ori) THEN -1 ELSE Loc[l]]
  <2> DEFINE L2 == Loc'
  <2>1. L2 = [l \in Block |-> L2[l]]
    BY DEF Loc
  <2>2. \A l \in Block : L2[l] = IF l \in Span(n.ori) THEN -1 ELSE Loc[l]
    BY <1>3
  <2> HIDE DEF L2
  <2>3. L2 = [l \in Block |-> IF l \in Span(n.ori) THEN -1 ELSE Loc[l]]
    BY <2>1, <2>2
  <2> QED BY <2>3 DEF L2
<1>7. disk' \in [Block -> Block \union {-1}]
  BY <1>1 DEF TreeInv, SpaceInv, IInv, DataIn, NoData
<1>8. ASSUME NEW l \in Storage!Mapped \ Span(n.ori) PROVE Storage!Keeps(l)
  <2>1. l \in Block /\ Loc[l] # -1
    BY StorageTypes
  <2>2. Loc[l] \in Block /\ Loc'[l] = Loc[l]
    BY <1>3, <2>1, StorageTypes
  <2> QED BY <1>2, <2>2 DEF Storage!Keeps
<1>9. Storage!Delete
  BY <1>2, <1>5, <1>6, <1>7, <1>8 DEF Storage!Delete, Storage!NoBlock, Storage!NoData
<1> QED BY <1>9 DEF MapStep, Storage!Next


(* A client of fixed extents finds an area where its bio begins.           *)
LEMMA FixedStartsClean ==
  ASSUME FixedClients, FixedInv, Issuing
  PROVE  StartsClean
<1>1. pc = "issue" /\ ev = <<>>
  BY DEF Issuing, Running
<1>2. /\ InsideInv /\ TreeInv /\ IInv /\ req.start \in Nat /\ req.end \in Nat
      /\ req.start <= req.end /\ req.start .. req.end \subseteq Block
  BY <1>1, CallRest
<1>3. req.start \in req.start .. req.end
  BY <1>2
<1>4. req.start \in InMap /\ req.start \in Block
  BY <1>1, <1>2, <1>3 DEF FixedInv, IssuePart, AllHere
<1>5. PICK n \in At(req.start) : TRUE
  BY <1>1, <1>2, <1>4, AtInMap
<1>6. n \in AllListed /\ n \in NodeIn /\ req.start \in Span(n.ori)
  <2>1. n \in AllListed /\ req.start \in Span(n.ori)
    BY <1>1, <1>2, <1>4, AtInMap
  <2> QED BY <1>2, <2>1, TreeNodes DEF TreeInv
<1>7. Span(n.ori) \subseteq req.start .. req.end
  BY <1>1, <1>2, <1>3, <1>6, AreaInCall
<1>8. n.ori.start = req.start
  <2>1. n.ori.start \in Int /\ n.ori.start <= req.start /\ n.ori.end \in Int /\ req.start <= n.ori.end
    BY <1>2, <1>6, NodeForm DEF Span
  <2>2. n.ori.start \in Span(n.ori)
    BY <1>2, <2>1 DEF Span
  <2> QED BY <1>2, <1>7, <2>1, <2>2
<1> QED BY <1>8 DEF StartsClean

(* What goes out for a piece reaches blocks that are mapped to where it    *)
(* goes.                                                                   *)
LEMMA IssueMapStep ==
  ASSUME FixedClients, FixedInv, InStep, Issue
  PROVE  MapStep
<1>1. /\ Issuing /\ StartsClean /\ AimInv /\ TreeInv
  <2>1. Issuing
    BY DEF Issue
  <2> QED BY <2>1, FixedStartsClean DEF AimInv, FixedInv, InsideInv
<1>2. PICK n \in At(blk) :
        LET x     == Piece(n)
            sent  == Sent(x.to.start, x.to.end, TargetSize)
            wrote == IF req.write THEN { x.from + (p - x.to.start) : p \in sent } ELSE {}
        IN  /\ disk' = [p \in Block |->
                         IF req.write /\ p \in sent THEN x.from + (p - x.to.start)
                         ELSE IF disk[p] \in wrote THEN NoData ELSE disk[p]]
            /\ written' = written \union wrote
  BY DEF Issue
<1> DEFINE f == Piece(n).from
           S == Piece(n).to.start
           sent == Sent(S, Piece(n).to.end, TargetSize)
           wrote == IF req.write THEN { f + (p - S) : p \in sent } ELSE {}
<1>3. /\ disk' = [p \in Block |-> IF req.write /\ p \in sent THEN f + (p - S)
                                  ELSE IF disk[p] \in wrote THEN NoData ELSE disk[p]]
      /\ written' = written \union wrote
  BY <1>2
<1>4. \A p \in sent : p \in Block /\ f + (p - S) \in Block /\ Loc[f + (p - S)] = p
  <2>1. /\ S \in Int /\ Piece(n).to.end \in Int
        /\ \A p \in Span(Piece(n).to) : p \in Block /\ f + (p - S) \in Block /\ Loc[f + (p - S)] = p
    BY <1>1, PieceInArea
  <2>2. sent \subseteq S .. Piece(n).to.end
    BY <2>1, SentWithin, BlockAreaAssumption
  <2>3. Span(Piece(n).to) = S .. Piece(n).to.end
    BY DEF Span
  <2> HIDE DEF sent, f, S
  <2> QED BY <2>1, <2>2, <2>3
<1> HIDE DEF f, S, sent
<1>5. Loc' = Loc
  <2>1. ~ Pop /\ ~ Place /\ ~ Alloc /\ ~ DeleteArea /\ [Next]_vars
    BY <1>1 DEF Issuing, Running, Issue, Pop, Popping, Place, Placing, Evicting, Alloc,
       DeleteArea, Deleting, Next, Step
  <2> QED BY <1>1, <2>1, OthersLoc
<1>6. sent \subseteq Block
  BY <1>4
<1>7. ASSUME NEW l \in wrote PROVE l \in Storage!Mapped /\ disk'[Loc[l]] = l
  <2>1. PICK p \in sent : req.write /\ l = f + (p - S)
    BY <1>7
  <2>2. l \in Block /\ Loc[l] = p /\ p \in Block
    BY <1>4, <1>6, <2>1
  <2>3. l \in Storage!Mapped
    BY <1>1, <2>2, StorageTypes, Geometry
  <2>4. disk'[p] = l
    BY <1>3, <2>1, <2>2
  <2> QED BY <2>2, <2>3, <2>4
<1>8. ASSUME NEW l \in Storage!Mapped \ wrote PROVE Storage!Keeps(l)
  <2>1. l \in Block /\ Loc[l] # -1
    BY <1>1, StorageTypes
  <2>2. Loc[l] \in Block
    BY <1>1, <2>1, StorageTypes
  <2>3. CASE req.write /\ Loc[l] \in sent
    <3> DEFINE k == f + (Loc[l] - S)
    <3>1. k \in wrote /\ k \in Block /\ Loc[k] = Loc[l]
      BY <1>4, <2>3
    <3> HIDE DEF k
    <3>2. k \in Storage!Mapped
      BY <1>1, <2>1, <3>1, StorageTypes
    <3>3. k = l
      BY <1>1, <3>1, <3>2, StorageTypes
    <3> QED BY <3>1, <3>3
  <2>4. CASE ~ (req.write /\ Loc[l] \in sent)
    <3>1. disk'[Loc[l]] = IF disk[Loc[l]] \in wrote THEN NoData ELSE disk[Loc[l]]
      BY <1>3, <2>2, <2>4
    <3> HIDE DEF wrote
    <3> QED BY <1>5, <3>1 DEF Storage!Keeps
  <2> QED BY <2>3, <2>4
<1>9. disk' \in [Block -> Block \union {-1}]
  <2>1. TreeInv'
    BY <1>1, NextTreeInv DEF Next, Step
  <2> QED BY <2>1 DEF TreeInv, SpaceInv, IInv, DataIn, NoData
<1>10. wrote \in SUBSET Storage!Mapped
  BY <1>7
<1> HIDE DEF wrote
<1>11. Storage!Write
  BY <1>3, <1>5, <1>7, <1>8, <1>9, <1>10 DEF Storage!Write, Storage!NoData
<1> QED BY <1>11 DEF MapStep, Storage!Next

(* BlockArea implements StorageMap for such clients, if none of their      *)
(* extents is longer than what one pass copies: insertions, evictions,     *)
(* accesses and deletes show outside as allocations, relocations that keep *)
(* the contents, writes and deletions, whatever the sizes of the groups.   *)
(* Both hypotheses are needed: see Coherent and MoveCarriesData.           *)
THEOREM FixedExtentsAreStored ==
  ASSUME FixedClients, Short
  PROVE  Spec => StorageSpec
<1>1. Init => Storage!Init
  <2> SUFFICES ASSUME Init PROVE Storage!Init
    OBVIOUS
  <2>1. Areas = {}
    BY DEF Init, Areas, Range
  <2>2. Loc = [l \in Block |-> -1]
    BY <2>1 DEF Loc, Holders
  <2> QED BY <2>2 DEF Init, Storage!Init, Storage!NoBlock, Storage!NoData, NoData
<1>2. FixedInv /\ InStep /\ [Next]_vars => MapStep
  <2> SUFFICES ASSUME FixedInv, InStep, [Next]_vars PROVE MapStep
    OBVIOUS
  <2>1. InsideInv /\ TreeInv
    BY DEF FixedInv, InsideInv
  <2>2. CASE Alloc \/ Place \/ DeleteArea \/ Issue
    BY <2>1, <2>2, AllocMapStep, PlaceMapStep, DeleteMapStep, IssueMapStep
  <2>3. CASE ~ Alloc /\ ~ Place /\ ~ DeleteArea /\ ~ Issue
    <3>1. Loc' = Loc
      BY <2>1, <2>3, PopLoc, OthersLoc
    <3>2. UNCHANGED <<disk, written>>
      <4>1. ~ Discard
        BY DEF Discard, FixedClients
      <4>2. CASE Pop \/ Fail \/ Halted \/ UNCHANGED vars
        BY <4>2, Stopping DEF Pop, data
      <4>3. CASE Submit \/ Evict \/ Delete \/ Touch \/ MakeRoom \/ Inserted \/ Issued \/ Evicted \/ Deleted
        BY <4>3 DEF Submit, Evict, Delete, Start, Touch, MakeRoom, Inserted, Issued, Evicted,
           Deleted, Return, data
      <4> QED BY <2>3, <4>1, <4>2, <4>3 DEF Next, Step
    <3> QED BY <3>1, <3>2 DEF MapStep, Storage!vars
  <2> QED BY <2>2, <2>3
<1>3. Spec => [](FixedInv /\ InStep)
  <2>1. Spec => []FixedInv
    BY FixedInvariant
  <2>2. Spec => []AimInv
    BY InitAim, NextAimInv, PTL DEF Spec
  <2>3. AimInv => InStep
    BY DEF AimInv
  <2> QED BY <2>1, <2>2, <2>3, PTL
<1>4. Spec => Storage!Init /\ [][Storage!Next]_(Storage!vars)
  BY <1>1, <1>2, <1>3, PTL DEF Spec, MapStep
<1> QED BY <1>4 DEF StorageSpec, Storage!Spec

-----------------------------------------------------------------------------
(* What StorageMap promises, for the map that BlockArea implements: Injective  *)
(* and Intact are inductive together with the typing, because Injective makes  *)
(* the blocks that a write or a delete touches those of the blocks it names.   *)
StorageInv == Storage!TypeOK /\ Storage!Injective /\ Storage!Intact

LEMMA StorageInit == Storage!Init => StorageInv
  BY DEF Storage!Init, StorageInv, Storage!TypeOK, Storage!Injective, Storage!Intact,
     Storage!Mapped, Storage!NoBlock, Storage!NoData

LEMMA StorageNext ==
  ASSUME Block \subseteq Nat, StorageInv, [Storage!Next]_(Storage!vars)
  PROVE  StorageInv'
<1> USE DEF StorageInv, Storage!TypeOK, Storage!Injective, Storage!Intact, Storage!Mapped, Storage!NoBlock, Storage!NoData
<1>1. CASE Storage!Allocate
  <2>1. PICK L \in SUBSET (Block \ Storage!Mapped) :
          /\ Loc' \in [Block -> Block \union {Storage!NoBlock}]
          /\ \A l \in Block \ L : Loc'[l] = Loc[l]
          /\ \A l \in L : Loc'[l] \in Block \ Storage!Used
          /\ \A k, l \in L : Loc'[k] = Loc'[l] => k = l
          /\ UNCHANGED <<disk, written>>
    BY <1>1 DEF Storage!Allocate
  <2>2. Storage!TypeOK'
    BY <2>1
  <2>3. Storage!Injective'
    <3> SUFFICES ASSUME NEW k \in Block, NEW l \in Block,
                        Loc'[k] # -1, Loc'[l] # -1, Loc'[k] = Loc'[l]
                 PROVE  k = l
      OBVIOUS
    <3>1. CASE k \in L /\ l \in L
      BY <2>1, <3>1
    <3>2. CASE k \notin L /\ l \notin L
      BY <2>1, <3>2
    <3>3. CASE k \in L /\ l \notin L
      BY <2>1, <3>3 DEF Storage!Used
    <3>4. CASE k \notin L /\ l \in L
      BY <2>1, <3>4 DEF Storage!Used
    <3> QED BY <3>1, <3>2, <3>3, <3>4
  <2>4. Storage!Intact'
    BY <2>1
  <2> QED BY <2>2, <2>3, <2>4
<1>2. CASE Storage!Relocate
  <2>1. PICK L \in SUBSET Storage!Mapped :
          /\ Loc' \in [Block -> Block \union {Storage!NoBlock}]
          /\ \A l \in Block \ L : Loc'[l] = Loc[l]
          /\ \A l \in L : Loc'[l] \in Block \ Storage!Used
          /\ \A k, l \in L : Loc'[k] = Loc'[l] => k = l
          /\ disk' \in [Block -> Block \union {Storage!NoData}]
          /\ \A l \in Storage!Mapped : Storage!Keeps(l)
          /\ UNCHANGED written
    BY <1>2 DEF Storage!Relocate
  <2>2. Storage!TypeOK'
    BY <2>1
  <2>3. Storage!Injective'
    <3> SUFFICES ASSUME NEW k \in Block, NEW l \in Block,
                        Loc'[k] # -1, Loc'[l] # -1, Loc'[k] = Loc'[l]
                 PROVE  k = l
      OBVIOUS
    <3>1. CASE k \in L /\ l \in L
      BY <2>1, <3>1
    <3>2. CASE k \notin L /\ l \notin L
      BY <2>1, <3>2
    <3>3. CASE k \in L /\ l \notin L
      BY <2>1, <3>3 DEF Storage!Used
    <3>4. CASE k \notin L /\ l \in L
      BY <2>1, <3>4 DEF Storage!Used
    <3> QED BY <3>1, <3>2, <3>3, <3>4
  <2>4. Storage!Intact'
    <3> SUFFICES ASSUME NEW l \in written' PROVE Loc'[l] # -1 /\ disk'[Loc'[l]] = l
      BY <2>1
    <3>1. l \in Storage!Mapped /\ disk[Loc[l]] = l
      BY <2>1
    <3>2. Loc'[l] # -1
      BY <2>1, <3>1
    <3> QED BY <2>1, <3>1, <3>2 DEF Storage!Keeps
  <2> QED BY <2>2, <2>3, <2>4
<1>3. CASE Storage!Write
  <2>1. PICK L \in SUBSET Storage!Mapped :
          /\ disk' \in [Block -> Block \union {Storage!NoData}]
          /\ \A l \in L : disk'[Loc[l]] = l
          /\ written' = written \union L
          /\ UNCHANGED Loc
          /\ \A l \in Storage!Mapped \ L : Storage!Keeps(l)
    BY <1>3 DEF Storage!Write
  <2>2. Storage!TypeOK' /\ Storage!Injective'
    BY <2>1
  <2>3. Storage!Intact'
    BY <2>1 DEF Storage!Keeps
  <2> QED BY <2>2, <2>3
<1>4. CASE Storage!Delete
  <2>1. PICK L \in SUBSET Storage!Mapped :
          /\ Loc' = [l \in Block |-> IF l \in L THEN Storage!NoBlock ELSE Loc[l]]
          /\ disk' \in [Block -> Block \union {Storage!NoData}]
          /\ \A l \in Storage!Mapped \ L : Storage!Keeps(l)
          /\ written' = written \ L
    BY <1>4 DEF Storage!Delete
  <2>2. Storage!TypeOK' /\ Storage!Injective'
    BY <2>1
  <2>3. Storage!Intact'
    BY <2>1 DEF Storage!Keeps
  <2> QED BY <2>2, <2>3
<1>5. CASE UNCHANGED Storage!vars
  BY <1>5 DEF Storage!vars
<1> QED BY <1>1, <1>2, <1>3, <1>4, <1>5 DEF Storage!Next

(* What is written stays where it can be read: a logical block that has been   *)
(* written and not deleted is mapped, to one physical block that serves no     *)
(* other, and that block holds its contents, through insertions, evictions and *)
(* demotions (for clients as in FixedExtentsAreStored).                        *)
THEOREM WrittenIsReadable ==
  ASSUME FixedClients, Short
  PROVE  Spec => [](Storage!Injective /\ Storage!Intact)
<1>1. Storage!Init => StorageInv
  BY StorageInit
<1>2. StorageInv /\ [Storage!Next]_(Storage!vars) => StorageInv'
  <2>1. Block \subseteq Nat
    BY Geometry DEF Block
  <2> QED BY <2>1, StorageNext
<1>3. StorageInv => Storage!Injective /\ Storage!Intact
  BY DEF StorageInv
<1>4. Spec => Storage!Spec
  BY FixedExtentsAreStored DEF StorageSpec
<1>5. Storage!Spec => [](Storage!Injective /\ Storage!Intact)
  BY <1>1, <1>2, <1>3, PTL DEF Storage!Spec
<1> QED BY <1>4, <1>5, PTL

-----------------------------------------------------------------------------
(* A loop of group 0 and the loop of group 1 that it starts when group 1   *)
(* is too full: the blocks of group 1 are enough for what is left of the   *)
(* area being demoted, or the second loop will win those that lack.        *)
Nested ==
  ~ foreign /\ ev # <<>> =>
    /\ ev[1].want >= 0
    /\ 2 \notin DOMAIN ev => Cardinality(avail[1]) >= Cardinality(Span(ev[1].rest.rep))
    /\ 2 \in DOMAIN ev =>
         /\ ev[2].want >= 0
         /\ Cardinality(avail[1]) + ev[2].want + Cardinality(Span(ev[2].area.rep))
              = Cardinality(Span(ev[1].rest.rep))

(* There are at most these two.                                            *)
LEMMA TwoLoops ==
  ASSUME ev \in Seq(FrameIn), ev # <<>>, Stacked(ev), NEW f \in FrameIn, NEW g \in FrameIn
  PROVE  /\ Top \in FrameIn
         /\ \/ /\ Top.src = 0 /\ DOMAIN ev = {1} /\ ev[1] = Top /\ Under = <<>>
               /\ DOMAIN Append(Under, f) = {1} /\ Append(Under, f)[1] = f
               /\ DOMAIN (Under \o <<f, g>>) = {1, 2}
               /\ (Under \o <<f, g>>)[1] = f /\ (Under \o <<f, g>>)[2] = g
            \/ /\ Top.src = 1 /\ DOMAIN ev = {1, 2} /\ ev[2] = Top /\ ev[1] \in FrameIn
               /\ DOMAIN Under = {1} /\ Under[1] = ev[1]
               /\ DOMAIN Append(Under, f) = {1, 2} /\ Append(Under, f)[1] = ev[1]
               /\ Append(Under, f)[2] = f
<1> DEFINE N == Len(ev)
           U == Under
           a == Append(Under, f)
           b == Under \o <<f, g>>
<1>1. /\ N \in Nat /\ N >= 1 /\ DOMAIN ev = 1 .. N /\ Top = ev[N]
      /\ DOMAIN U = 1 .. (N - 1) /\ \A i \in 1 .. (N - 1) : U[i] = ev[i]
      /\ DOMAIN a = 1 .. N /\ \A i \in 1 .. (N - 1) : a[i] = ev[i]
      /\ a[N] = f
      /\ DOMAIN b = 1 .. (N + 1) /\ \A i \in 1 .. (N - 1) : b[i] = ev[i]
      /\ b[N] = f /\ b[N + 1] = g
  BY FrameIndex
<1>2. Top \in FrameIn /\ U \in Seq(FrameIn) /\ \A i \in 1 .. N : ev[i] \in FrameIn
  <2>1. Top \in FrameIn /\ U \in Seq(FrameIn)
    BY StackType
  <2> QED BY <1>1, <2>1, ElementOfSeq
<1>3. U = <<>> <=> DOMAIN U = {}
  BY <1>2, EmptySeq, LenProperties
<1>4. Top.src = N - 1 /\ Top.src \in {0, 1}
  <2>1. N \in Nat /\ N >= 1 /\ DOMAIN ev = 1 .. N /\ Top = ev[N]
    BY <1>1
  <2>2. N \in 1 .. N
    BY <2>1
  <2>3. N \in DOMAIN ev
    BY <2>1, <2>2, Zenon
  <2> QED BY <2>1, <2>3, <1>2 DEF Stacked, FrameIn
<1> HIDE DEF N, U, a, b
<1>5. CASE N = 1
  <2>1. 1 .. N = {1} /\ 1 .. (N - 1) = {} /\ 1 .. (N + 1) = {1, 2}
    BY <1>5
  <2> QED BY <1>1, <1>2, <1>3, <1>4, <1>5, <2>1 DEF U, a, b
<1>6. CASE N = 2
  <2>1. 1 .. N = {1, 2} /\ 1 .. (N - 1) = {1} /\ Top.src = 1
    BY <1>4, <1>6
  <2>2. /\ DOMAIN ev = {1, 2} /\ ev[2] = Top /\ ev[1] \in FrameIn
        /\ DOMAIN U = {1} /\ U[1] = ev[1]
        /\ DOMAIN a = {1, 2} /\ a[1] = ev[1] /\ a[2] = f
    BY <1>1, <1>2, <1>6, <2>1
  <2> QED BY <1>2, <2>1, <2>2 DEF U, a
<1>7. N = 1 \/ N = 2
  BY <1>1, <1>4
<1> QED BY <1>5, <1>6, <1>7, Zenon

LEMMA StackLen ==
  ASSUME ev \in Seq(FrameIn)
  PROVE  /\ DOMAIN ev = {1} => Len(ev) = 1
         /\ DOMAIN ev = {1, 2} => Len(ev) = 2
<1>1. Len(ev) \in Nat /\ DOMAIN ev = 1 .. Len(ev)
  BY LenProperties
<1> DEFINE N == Len(ev)
<1>2. N \in Nat /\ DOMAIN ev = 1 .. N
  BY <1>1
<1> HIDE DEF N
<1>3. ASSUME 1 .. N = {1} PROVE N = 1
  <2>1. N \in {1} \/ N = 0
    BY <1>2, <1>3
  <2>2. 1 \in 1 .. N
    BY <1>3
  <2> QED BY <1>2, <2>1, <2>2
<1>4. ASSUME 1 .. N = {1, 2} PROVE N = 2
  <2>1. N \in {1, 2} \/ N = 0
    BY <1>2, <1>4
  <2>2. 2 \in 1 .. N
    BY <1>4
  <2> QED BY <1>2, <2>1, <2>2
<1> QED BY <1>2, <1>3, <1>4 DEF N

(* Its blocks that are free are those the counter of group 1 counts, when  *)
(* nothing is on its way.                                                  *)
LEMMA QuietLoop ==
  ASSUME RoomInv, ~ foreign, ev # <<>>, Top.src = 0, Top.area = NoNode, NEW n \in Int
  PROVE  AreaFree(1, n) = Cardinality(avail[1]) - n /\ Cardinality(avail[1]) \in Nat
<1>1. /\ SpaceInv /\ AtHome /\ ev \in Seq(FrameIn) /\ Stacked(ev) /\ Frame(0, 0) \in FrameIn
      /\ 1 \in Tiers
  BY FrameType DEF RoomInv, SpaceInv, IInv, Tiers
<1>2. DOMAIN ev = {1} /\ ev[1] = Top
  BY <1>1, TwoLoops
<1>3. \A i \in Nat : MovingIn(ev)[i] = {}
  BY <1>2, NoNodeSpan DEF MovingIn
<1>4. Cardinality(avail[1]) = AreaFree(1, 0)
  BY <1>1, <1>3, QuietCounts
<1>5. Cardinality(avail[1]) \in Nat
  BY <1>1, FamiliesType, BlockSets DEF SpaceInv
<1>6. Cardinality(bits \intersect TierBlocks(1)) \in Nat /\ AreaBlocks[1] \in Nat
  BY <1>1, Geometry, BlockSets
<1> QED BY <1>4, <1>5, <1>6 DEF AreaFree

(* What hypraid_pop_priority_area makes of the running loop, and when the  *)
(* loop of the next group begins.                                          *)
LEMMA PopLoops ==
  ASSUME SpaceInv, Pop
  PROVE  /\ UNCHANGED <<avail, foreign>> /\ ev # <<>> /\ Top.src \in {0, 1}
         /\ Top.area = NoNode /\ Top.want \in Int /\ Top.want > 0
         /\ \E f \in FrameIn :
              /\ f.src = Top.src /\ f.rest = f.area
              /\ f.area.cnt \in Int /\ f.area.cnt >= 1 /\ f.want = Top.want - f.area.cnt
              /\ f.want >= 0
              /\ ev' = IF Top.src = 0 /\ AreaFree(Top.src + 1, f.area.cnt) < 0
                       THEN Under \o <<f, Frame(1, -AreaFree(Top.src + 1, f.area.cnt))>>
                       ELSE Append(Under, f)
<1> DEFINE t     == Top.src
           v     == Victim
           n     == MIN(Top.want, v.cnt)
           taken == IF n = v.cnt THEN v ELSE Lead(v, n)
           top   == [src |-> t, want |-> Top.want - n, area |-> taken, rest |-> taken]
<1>1. /\ ev' = (IF t = 0 /\ AreaFree(t + 1, taken.cnt) < 0
                THEN Under \o <<top, Frame(1, -AreaFree(t + 1, taken.cnt))>>
                ELSE Append(Under, top))
      /\ Top.want > 0 /\ pri[t] # <<>>
  BY DEF Pop, Popping, Lead
<1>2. /\ UNCHANGED <<avail, foreign>> /\ ev # <<>> /\ t \in {0, 1} /\ t \in Tiers
      /\ Top.area = NoNode /\ v \in NodeIn /\ v \in Lists(pri)[t]
  BY PopDoes DEF SpaceInv, Lists
<1>3. Top.want \in Int
  BY <1>2, StackType DEF SpaceInv, IInv, FrameIn
<1>4. v.cnt \in Int /\ v.cnt >= 1
  BY <1>2, OnList, NodeForm
<1>5. n \in Int /\ n >= 1 /\ n <= v.cnt /\ n <= Top.want
  <2> DEFINE w == Top.want
             c == v.cnt
             m == MIN(w, c)
  <2>1. w \in Int /\ w >= 1 /\ c \in Int /\ c >= 1
    BY <1>1, <1>3, <1>4
  <2> HIDE DEF w, c
  <2>2. m \in Int /\ m >= 1 /\ m <= c /\ m <= w
    BY <2>1 DEF MIN
  <2> QED BY <2>2 DEF w, c
<1>6. v \in NodeOf(t)
  <2>1. pri[t] \in Seq(NodeOf(t))
    BY <1>2 DEF SpaceInv, IInv, SpaceIn, PriIn
  <2>2. Range(pri[t]) \subseteq NodeOf(t)
    BY <2>1, RangeOfSeq
  <2> QED BY <1>2, <2>2 DEF Lists
<1> HIDE DEF n, v
<1>7. Lead(v, n) \in NodeIn /\ Span(Lead(v, n).rep) \subseteq Span(v.rep)
  <2>1. /\ Lead(v, n) \in NodeIn
        /\ Span(Lead(v, n).rep) \union Span(Rear(v, n).rep) = Span(v.rep)
    <3>1. n >= 0
      BY <1>5
    <3> QED BY <1>2, <1>5, <3>1, SplitNode
  <2> QED BY <2>1
<1>8. taken \in NodeOf(t) /\ taken \in NodeIn /\ taken.cnt = n
  BY <1>2, <1>6, <1>7 DEF NodeOf, Lead, Node
<1>9. top \in FrameIn /\ Top.want - n \in Int /\ Top.want - n >= 0
  BY <1>2, <1>3, <1>5, <1>8 DEF FrameIn
<1>10. top.src = t /\ top.area = taken /\ top.rest = taken /\ top.want = Top.want - n
  OBVIOUS
<1> HIDE DEF top, taken, t
<1> QED BY <1>1, <1>2, <1>3, <1>5, <1>8, <1>9, <1>10 DEF t

LEMMA PopNested ==
  ASSUME RoomInv, Nested, Pop
  PROVE  Nested'
<1>1. /\ SpaceInv /\ ev \in Seq(FrameIn) /\ Stacked(ev)
      /\ UNCHANGED <<avail, foreign>> /\ ev # <<>> /\ Top.src \in {0, 1}
      /\ Top.area = NoNode /\ Top.want \in Int /\ Top.want > 0
  BY PopLoops DEF RoomInv, SpaceInv, IInv
<1> SUFFICES ASSUME ~ foreign PROVE Nested'
  BY <1>1 DEF Nested
<1>2. PICK f \in FrameIn :
        /\ f.src = Top.src /\ f.rest = f.area
        /\ f.area.cnt \in Int /\ f.area.cnt >= 1 /\ f.want = Top.want - f.area.cnt
        /\ f.want >= 0
        /\ ev' = IF Top.src = 0 /\ AreaFree(Top.src + 1, f.area.cnt) < 0
                 THEN Under \o <<f, Frame(1, -AreaFree(Top.src + 1, f.area.cnt))>>
                 ELSE Append(Under, f)
  BY <1>1, PopLoops
<1> DEFINE A  == Cardinality(avail[1])
           B  == Cardinality(Span(f.area.rep))
           C  == f.area.cnt
           E  == Cardinality(Span(NoNode.rep))
<1>3. A \in Nat /\ B = C /\ C \in Int /\ C >= 1 /\ E = 0
  <2>1. A \in Nat
    BY <1>1, FamiliesType, BlockSets DEF SpaceInv, Tiers
  <2>2. B = C
    BY <1>2, NodeBlocks DEF FrameIn
  <2> QED BY <1>2, <2>1, <2>2, NoNodeSpan, FS_EmptySet
<1> HIDE DEF A, B, C, E
<1>4. CASE Top.src = 0
  <2> DEFINE left == AreaFree(1, C)
             g    == Frame(1, -left)
  <2>1. left = A - C /\ left \in Int
    BY <1>1, <1>3, <1>4, QuietLoop DEF A
  <2>2. ev' = IF left < 0 THEN Under \o <<f, g>> ELSE Append(Under, f)
    BY <1>2, <1>4 DEF C
  <2> HIDE DEF left
  <2>3. g \in FrameIn /\ g.want = -left /\ g.area = NoNode
    BY <2>1, FrameType DEF Frame
  <2> HIDE DEF g
  <2>4. /\ left < 0 => DOMAIN ev' = {1, 2} /\ ev'[1] = f /\ ev'[2] = g
        /\ ~ left < 0 => DOMAIN ev' = {1} /\ ev'[1] = f
    BY <1>1, <1>4, <2>2, <2>3, TwoLoops
  <2>5. Cardinality(avail'[1]) = A /\ Cardinality(Span(f.rest.rep)) = C
    BY <1>1, <1>2, <1>3 DEF A, B
  <2>6. CASE left < 0
    <3>1. -left >= 0 /\ A + (-left) + E = C
      BY <1>3, <2>1, <2>6
    <3>2. Cardinality(Span(g.area.rep)) = E
      BY <2>3 DEF E
    <3> QED BY <1>2, <2>3, <2>4, <2>5, <2>6, <3>1, <3>2 DEF Nested
  <2>7. CASE ~ left < 0
    <3>1. A >= C
      BY <1>3, <2>1, <2>7
    <3>2. 2 \notin {1}
      OBVIOUS
    <3> QED BY <1>2, <2>4, <2>5, <2>7, <3>1, <3>2 DEF Nested
  <2> QED BY <2>6, <2>7
<1>5. CASE Top.src = 1
  <2>1. /\ DOMAIN ev = {1, 2} /\ ev[2] = Top
        /\ DOMAIN ev' = {1, 2} /\ ev'[1] = ev[1] /\ ev'[2] = f
    <3>1. ev' = Append(Under, f)
      BY <1>2, <1>5
    <3> QED BY <1>1, <1>5, <3>1, TwoLoops
  <2>2. /\ ev[1].want >= 0
        /\ A + Top.want + E = Cardinality(Span(ev[1].rest.rep))
    BY <1>1, <2>1 DEF Nested, A, E
  <2>3. A + f.want + B = A + Top.want + E
    BY <1>1, <1>2, <1>3 DEF C
  <2>4. Cardinality(avail'[1]) = A
    BY <1>1 DEF A
  <2> QED BY <1>2, <2>1, <2>2, <2>3, <2>4 DEF Nested, B
<1> QED BY <1>1, <1>4, <1>5

LEMMA PlaceNested ==
  ASSUME RoomInv, Nested, Place
  PROVE  Nested'
<1> DEFINE t == Top.src
           s == Top.rest
<1>1. /\ UNCHANGED foreign /\ ev # <<>> /\ Top.area # NoNode /\ SpaceInv
      /\ Top \in FrameIn /\ t \in {0, 1} /\ t \in Tiers /\ t + 1 \in Tiers
      /\ ev \in Seq(FrameIn) /\ Stacked(ev)
      /\ avail \in [Tiers -> SUBSET Block]
      /\ Partition(avail, Lists(pri), MovingIn(ev))
  BY PlaceDoes, FamiliesType DEF RoomInv, SpaceInv, IInv, FrameIn, Tidy
<1> SUFFICES ASSUME ~ foreign PROVE Nested'
  BY <1>1 DEF Nested
<1>2. PICK n \in Int, dst \in NodeOf(t + 1), f \in FrameIn :
        /\ n <= s.cnt /\ (n = s.cnt \/ n >= 1) /\ dst.cnt = n
        /\ Span(dst.rep) \subseteq avail[t + 1]
        /\ ev' = Append(Under, f) /\ f.want = Top.want
        /\ LET a == AvailExtract(avail, t + 1, dst.rep)
           IN  \/ n = s.cnt /\ avail' = AvailInsert(a, t, Top.area.rep) /\ f = Frame(t, Top.want)
               \/ n < s.cnt /\ avail' = a /\ f.area = Top.area /\ f.rest.cnt = s.cnt - n
  BY PlaceDoes DEF RoomInv, SpaceInv
<1> DEFINE a == AvailExtract(avail, t + 1, dst.rep)
           P == Span(Top.area.rep)
           D == Span(dst.rep)
<1>3. /\ s \in NodeIn /\ s.cnt \in Int /\ s.cnt >= 1 /\ n >= 1
      /\ Cardinality(Span(s.rep)) = s.cnt /\ P \subseteq Block
  <2>1. s \in NodeIn /\ s.cnt \in Int /\ P \subseteq Block
    BY <1>1 DEF FrameIn, NodeIn, NodeType
  <2>2. s.cnt >= 1
    BY <1>1, TopFamilies DEF FrameHeld
  <2> QED BY <1>2, <2>1, <2>2, NodeBlocks
<1>4. /\ a \in [Tiers -> SUBSET Block] /\ a[t + 1] = avail[t + 1] \ D
      /\ \A u \in Tiers : u # t + 1 => a[u] = avail[u]
  BY <1>1 DEF AvailExtract
<1>5. Cardinality(a[t + 1]) = Cardinality(avail[t + 1]) - n
  <2>1. dst \in NodeIn /\ dst.cnt >= 0
    BY <1>2, <1>3 DEF NodeOf
  <2>2. Cardinality(D) = n /\ D \subseteq Block
    BY <1>2, <2>1, NodeBlocks DEF NodeIn
  <2>3. /\ a[t + 1] \subseteq Block /\ a[t + 1] \intersect D = {}
        /\ a[t + 1] \union D = avail[t + 1]
    BY <1>1, <1>2, <1>4
  <2> HIDE DEF a, D
  <2>4. Cardinality(avail[t + 1]) = Cardinality(a[t + 1]) + Cardinality(D)
    BY <2>2, <2>3, BlockSets
  <2>5. Cardinality(a[t + 1]) \in Nat
    BY <2>3, BlockSets
  <2> QED BY <1>2, <2>2, <2>4, <2>5
<1>6. \/ /\ n = s.cnt /\ f = Frame(t, Top.want) /\ avail' = [a EXCEPT ![t] = @ \union P]
         /\ a[t] \intersect P = {}
      \/ n < s.cnt /\ avail' = a /\ f.area = Top.area /\ f.rest.cnt = s.cnt - n
  <2>1. a[t] \intersect P = {}
    <3>1. P = MovingIn(ev)[Len(ev)] /\ Len(ev) \in Nat
      BY <1>1, TopFamilies
    <3>2. a[t] \subseteq avail[t]
      BY <1>1, <1>4
    <3>3. \A p \in Block : p \in avail[t] => p \notin P
      BY <1>1, <3>1 DEF Partition, FreeOrMoving
    <3> QED BY <1>1, <3>2, <3>3
  <2> HIDE DEF a
  <2>2. AvailInsert(a, t, Top.area.rep) = [a EXCEPT ![t] = @ \union P]
    BY <2>1 DEF AvailInsert
  <2> QED BY <1>2, <2>1, <2>2 DEF a
<1>7. f.rest \in NodeIn /\ f.want = Top.want /\ ev' = Append(Under, f)
  BY <1>2 DEF FrameIn
<1>8. Cardinality(Span(NoNode.rep)) = 0
  BY NoNodeSpan, FS_EmptySet
<1>9. /\ avail[1] \in SUBSET Block /\ Cardinality(avail[1]) \in Nat
      /\ Cardinality(P) \in Nat
      /\ \A S \in SUBSET Block : S \intersect P = {} =>
           Cardinality(S \union P) = Cardinality(S) + Cardinality(P)
  BY <1>1, <1>3, BlockSets DEF Tiers
<1>10. f = Frame(t, Top.want) => f.area = NoNode /\ f.rest = NoNode
  BY DEF Frame
<1> HIDE DEF a, P, D, t, s
<1>11. CASE t = 0
  <2>1. /\ DOMAIN ev = {1} /\ ev[1] = Top /\ DOMAIN ev' = {1} /\ ev'[1] = f /\ 2 \notin {1}
    <3>1. DOMAIN ev = {1} /\ ev[1] = Top /\ DOMAIN ev' = {1} /\ ev'[1] = f
      BY <1>1, <1>7, <1>11, TwoLoops DEF t
    <3> QED BY <3>1
  <2>2. Top.want >= 0 /\ Cardinality(avail[1]) >= Cardinality(Span(s.rep))
    BY <1>1, <2>1 DEF Nested, s
  <2>3. avail'[1] = a[1] /\ Cardinality(a[1]) = Cardinality(avail[1]) - n
    <3>1. t + 1 = 1 /\ t # 1 /\ DOMAIN a = Tiers /\ 1 \in Tiers
      BY <1>1, <1>4, <1>11
    <3>2. avail'[1] = a[1]
      BY <1>6, <3>1
    <3> QED BY <1>5, <3>1, <3>2
  <2>4. Cardinality(Span(f.rest.rep)) = s.cnt - n
    <3>1. CASE n = s.cnt
      <4>1. f.rest = NoNode /\ s.cnt - n = 0
        BY <1>3, <1>6, <1>10, <3>1
      <4> QED BY <1>8, <4>1
    <3>2. CASE n < s.cnt
      <4>1. f.rest.cnt = s.cnt - n /\ f.rest.cnt >= 0
        BY <1>3, <1>6, <3>2
      <4> QED BY <1>7, <4>1, NodeBlocks
    <3> QED BY <1>6, <3>1, <3>2
  <2>5. Cardinality(avail'[1]) >= Cardinality(Span(f.rest.rep))
    BY <1>3, <1>9, <2>2, <2>3, <2>4
  <2> QED BY <1>7, <2>1, <2>2, <2>5 DEF Nested
<1>12. CASE t = 1
  <2>1. /\ DOMAIN ev = {1, 2} /\ ev[2] = Top /\ DOMAIN ev' = {1, 2} /\ ev'[1] = ev[1]
        /\ ev'[2] = f
    BY <1>1, <1>2, <1>7, <1>12, TwoLoops DEF t
  <2>2. /\ ev[1].want >= 0 /\ Top.want >= 0
        /\ Cardinality(avail[1]) + Top.want + Cardinality(P) = Cardinality(Span(ev[1].rest.rep))
    BY <1>1, <2>1 DEF Nested, P
  <2>3. a[1] = avail[1]
    BY <1>1, <1>4, <1>12
  <2>4. Top.want \in Int
    BY <1>1 DEF FrameIn
  <2>5. Cardinality(avail'[1]) + Top.want + Cardinality(Span(f.area.rep))
          = Cardinality(avail[1]) + Top.want + Cardinality(P)
    <3>1. CASE n = s.cnt /\ f = Frame(t, Top.want) /\ avail' = [a EXCEPT ![t] = @ \union P]
               /\ a[t] \intersect P = {}
      <4>1. avail'[1] = avail[1] \union P /\ avail[1] \intersect P = {}
        <5>1. t = 1 /\ DOMAIN a = Tiers /\ 1 \in Tiers /\ a[t] = avail[1]
          BY <1>1, <1>4, <1>12, <2>3
        <5>2. avail'[t] = a[t] \union P
          BY <3>1, <5>1
        <5> QED BY <3>1, <5>1, <5>2
      <4>2. Cardinality(avail'[1]) = Cardinality(avail[1]) + Cardinality(P)
        BY <1>9, <4>1
      <4>3. Cardinality(Span(f.area.rep)) = 0
        BY <1>8, <1>10, <3>1
      <4> QED BY <1>9, <2>4, <4>2, <4>3
    <3>2. CASE avail' = a /\ f.area = Top.area
      BY <2>3, <3>2 DEF P
    <3> QED BY <1>6, <3>1, <3>2
  <2> QED BY <1>7, <2>1, <2>2, <2>5 DEF Nested
<1> QED BY <1>1, <1>11, <1>12

LEMMA EvictedNested ==
  ASSUME RoomInv, Nested, Evicted
  PROVE  Nested'
<1>1. /\ ev # <<>> /\ Top.area = NoNode /\ Top.want <= 0 /\ ev' = Under
      /\ UNCHANGED <<avail, foreign>> /\ ev \in Seq(FrameIn) /\ Stacked(ev)
      /\ Frame(0, 0) \in FrameIn
  BY FrameType DEF Evicted, Evicting, space, RoomInv, SpaceInv, IInv
<1> SUFFICES ASSUME ~ foreign, Under # <<>> PROVE Nested'
  BY <1>1 DEF Nested
<1>2. /\ Top \in FrameIn /\ ev[2] = Top /\ DOMAIN ev = {1, 2}
      /\ DOMAIN Under = {1} /\ Under[1] = ev[1] /\ 2 \notin {1}
  <2>1. /\ Top \in FrameIn /\ ev[2] = Top /\ DOMAIN ev = {1, 2}
        /\ DOMAIN Under = {1} /\ Under[1] = ev[1]
    BY <1>1, TwoLoops
  <2> QED BY <2>1
<1>3. /\ ev[1].want >= 0 /\ Top.want >= 0
      /\ Cardinality(avail[1]) + Top.want + Cardinality(Span(NoNode.rep))
           = Cardinality(Span(ev[1].rest.rep))
  BY <1>1, <1>2 DEF Nested
<1>4. /\ Top.want \in Int /\ Cardinality(Span(NoNode.rep)) = 0
      /\ Cardinality(avail[1]) \in Nat
  <2>1. avail[1] \subseteq Block
    BY FamiliesType DEF RoomInv, SpaceInv, Tiers
  <2> QED BY <1>2, <2>1, NoNodeSpan, FS_EmptySet, BlockSets DEF FrameIn
<1>5. Cardinality(avail[1]) >= Cardinality(Span(ev[1].rest.rep))
  BY <1>1, <1>3, <1>4
<1> QED BY <1>1, <1>2, <1>3, <1>5 DEF Nested

LEMMA NextNested == RoomInv /\ Nested /\ [Next]_vars => Nested'
<1> SUFFICES ASSUME RoomInv, Nested, [Next]_vars PROVE Nested'
  OBVIOUS
<1>1. CASE Pop \/ Place \/ Evicted
  BY <1>1, PopNested, PlaceNested, EvictedNested
<1>2. CASE MakeRoom \/ Evict
  <2>1. PICK k \in Int : k >= 0 /\ (ev' = <<>> \/ ev' = <<Frame(0, k)>>)
    <3>1. CASE MakeRoom
      <4>1. AreaFree(0, req.end - blk + 1) \in Int
        <5>1. IInv /\ req.end - blk + 1 \in Int /\ 0 \in Tiers
          BY DEF RoomInv, SpaceInv, IInv, CallIn, RequestIn, Tiers
        <5> QED BY <5>1, AreaFreeType
      <4>2. CASE AreaFree(0, req.end - blk + 1) < 0
        <5>1. -AreaFree(0, req.end - blk + 1) >= 0
          BY <4>1, <4>2
        <5> QED BY <3>1, <4>1, <4>2, <5>1 DEF MakeRoom
      <4>3. CASE ~ AreaFree(0, req.end - blk + 1) < 0
        BY <3>1, <4>3 DEF MakeRoom
      <4> QED BY <4>2, <4>3
    <3>2. CASE Evict
      BY <3>2, BlockAreaAssumption DEF Evict
    <3> QED BY <1>2, <3>1, <3>2
  <2>2. CASE ev' = <<>>
    BY <2>2 DEF Nested
  <2>3. CASE ev' = <<Frame(0, k)>>
    <3>1. DOMAIN ev' = {1} /\ ev'[1].want = k /\ ev'[1].rest = NoNode /\ 2 \notin {1}
      BY <2>3 DEF Frame
    <3>2. Cardinality(Span(NoNode.rep)) = 0
      BY NoNodeSpan, FS_EmptySet
    <3>3. Cardinality(avail[1]) >= 0 /\ avail' = avail
      <4>1. avail[1] \subseteq Block
        BY FamiliesType DEF RoomInv, SpaceInv, Tiers
      <4> QED BY <1>2, <4>1, BlockSets DEF MakeRoom, Evict, space
    <3> QED BY <2>1, <3>1, <3>2, <3>3 DEF Nested
  <2> QED BY <2>1, <2>2, <2>3
<1>3. CASE Fail \/ Halted \/ UNCHANGED vars
  <2>1. UNCHANGED <<avail, ev>> /\ (foreign' = foreign \/ foreign' = TRUE)
    BY <1>3, Stopping
  <2> QED BY <2>1 DEF Nested
<1>4. CASE ~ Pop /\ ~ Place /\ ~ Evicted /\ ~ MakeRoom /\ ~ Evict /\ ~ (Fail \/ Halted \/ UNCHANGED vars)
  <2>1. ev' = <<>>
    BY <1>4 DEF Next, Step, Submit, Discard, Delete, Start, Touch, Searching, Alloc, Inserted, Issue,
       Issuing, Issued, DeleteArea, Deleting, Deleted, Return, Running
  <2> QED BY <2>1 DEF Nested
<1> QED BY <1>1, <1>2, <1>3, <1>4

LEMMA InitNested == Init => Nested
  BY DEF Init, Nested

-----------------------------------------------------------------------------
(* Group 1 is free as a whole when it has no area and the second loop      *)
(* holds none.                                                             *)
LEMMA LowerFree ==
  ASSUME RoomInv, ~ foreign, ev # <<>>, Top.src = 1, Top.area = NoNode, pri[1] = <<>>
  PROVE  Cardinality(avail[1]) = AreaBlocks[1]
<1>1. /\ SpaceInv /\ ev \in Seq(FrameIn) /\ Stacked(ev) /\ Frame(0, 0) \in FrameIn
      /\ avail \in [Tiers -> SUBSET Block] /\ 1 \in Tiers /\ TierBlocks(1) \subseteq Block
      /\ Cardinality(TierBlocks(1)) = AreaBlocks[1]
  BY FrameType, FamiliesType, Geometry, Sizes DEF RoomInv, SpaceInv, IInv, Tiers
<1>2. /\ \A t \in {1, 2} : avail[t] \subseteq TierBlocks(t) /\ Listed(t) \subseteq NodeOf(t)
      /\ avail[0] \subseteq TierBlocks(0)
      /\ \A n \in Listed(0) : Span(n.rep) \subseteq TierBlocks(0)
      /\ MovingIn(ev)[1] \subseteq TierBlocks(0)
  <2>1. ASSUME NEW t \in {1, 2}
        PROVE  avail[t] \subseteq TierBlocks(t) /\ Listed(t) \subseteq NodeOf(t)
    <3>1. t \in Tiers /\ Own(t) = TierBlocks(t)
      BY DEF Tiers, Own
    <3>2. avail[t] \subseteq TierBlocks(t) /\ pri[t] \in Seq(NodeOf(t))
      BY <1>1, <3>1 DEF SpaceInv, IInv, SpaceIn, AvailIn, PriIn
    <3> QED BY <3>2, RangeOfSeq DEF Listed
  <2> QED BY <2>1 DEF RoomInv, AtHome, Pure0, Listed
<1>3. MovingIn(ev)[2] = {} /\ \A i \in Nat : i \notin {1, 2} => MovingIn(ev)[i] = {}
  <2>1. DOMAIN ev = {1, 2} /\ ev[2] = Top
    BY <1>1, TwoLoops
  <2> QED BY <2>1, NoNodeSpan DEF MovingIn
<1>4. ASSUME NEW p \in TierBlocks(1) PROVE p \in avail[1]
  <2>1. p \in Block /\ p \notin TierBlocks(0) /\ p \notin TierBlocks(2)
    <3>1. p \in Block
      BY <1>1
    <3> QED BY <1>1, <3>1, OneGroup DEF Tiers
  <2>2. \/ \E t \in Tiers : p \in avail[t]
        \/ \E t \in Tiers : \E n \in Listed(t) : p \in Span(n.rep)
        \/ \E i \in Nat : p \in MovingIn(ev)[i]
    BY <1>1, <2>1 DEF SpaceInv, Tidy, Partition, Covered, Lists, Listed
  <2>3. ~ \E t \in Tiers : \E n \in Listed(t) : p \in Span(n.rep)
    <3> SUFFICES ASSUME NEW t \in Tiers, NEW n \in Listed(t), p \in Span(n.rep) PROVE FALSE
      OBVIOUS
    <3>1. t # 0
      BY <1>2, <2>1
    <3>2. t # 2
      BY <1>2, <2>1 DEF NodeOf, Own
    <3>3. Listed(1) = {}
      BY EmptySeq DEF Listed, Range
    <3> QED BY <3>1, <3>2, <3>3 DEF Tiers
  <2>4. ~ \E i \in Nat : p \in MovingIn(ev)[i]
    BY <1>2, <1>3, <2>1
  <2> QED BY <1>2, <2>1, <2>2, <2>3, <2>4 DEF Tiers
<1>5. avail[1] = TierBlocks(1)
  BY <1>2, <1>4
<1> QED BY <1>1, <1>5

(* No more blocks are marked in the bitmap than logical ones are mapped.   *)
LEMMA MarkedAreMapped ==
  ASSUME TreeInv, Refused = {}
  PROVE  /\ bits \subseteq Block /\ InMap \subseteq Block
         /\ Cardinality(bits) <= Cardinality(InMap)
<1>1. /\ SpaceInv /\ bits \subseteq Block /\ InMap \subseteq Block
      /\ Marks(bits, Lists(pri), RestIn(ev)) /\ LocFacts
  BY LocIs DEF TreeInv, SpaceInv, IInv, SpaceIn, Tidy, InMap
<1>2. ASSUME NEW m \in NodeIn, NEW p \in Span(m.rep)
      PROVE  \E l \in Block : l \in Span(m.ori) /\ p = Where(m, l)
  <2> DEFINE l == m.ori.start + (p - m.rep.start)
  <2>1. /\ m.ori.start \in Int /\ m.rep.start \in Int /\ m.cnt \in Int /\ p \in Int
        /\ m.rep.start <= p /\ p <= m.rep.start + m.cnt - 1
        /\ m.ori.end = m.ori.start + m.cnt - 1 /\ Span(m.ori) \subseteq Block
        /\ Span(m.ori) = m.ori.start .. m.ori.end
    BY NodeForm DEF Span
  <2>2. l \in Int /\ m.ori.start <= l /\ l <= m.ori.end
    BY <2>1, SMTT(60)
  <2>3. p = m.rep.start + (l - m.ori.start)
    BY <2>1
  <2>4. l \in Span(m.ori)
    <3> HIDE DEF l
    <3> QED BY <2>1, <2>2
  <2> QED BY <2>1, <2>3, <2>4 DEF Where
<1>3. ASSUME NEW p \in bits PROVE \E l \in InMap : Loc[l] = p
  <2>1. p \in Block
    BY <1>1
  <2>2. CASE \E t \in Tiers : \E n \in Lists(pri)[t] : p \in Span(n.rep)
    <3>1. PICK n \in AllListed : p \in Span(n.rep)
      BY <1>1, <2>2, OnList
    <3>2. n \in repTree /\ n \in NodeIn
      BY <1>1, <3>1, TreeNodes DEF Refused
    <3>3. PICK l \in Block : l \in Span(n.ori) /\ p = Where(n, l)
      BY <1>2, <3>1, <3>2
    <3>4. Mapped(repTree, NodesIn(ev), l) /\ Maps(repTree, NodesIn(ev), l, p)
      BY <3>2, <3>3 DEF Mapped, Maps
    <3> QED BY <1>1, <3>4 DEF LocFacts, InMap
  <2>3. CASE \E i \in Nat : p \in RestIn(ev)[i]
    <3>1. PICK i \in Nat : p \in RestIn(ev)[i]
      BY <2>3
    <3>2. NodesIn(ev)[i] \in NodeIn /\ p \in Span(NodesIn(ev)[i].rep)
      BY <1>1, <3>1, NodesType DEF RestIn, NodesIn
    <3>3. PICK l \in Block : l \in Span(NodesIn(ev)[i].ori) /\ p = Where(NodesIn(ev)[i], l)
      BY <1>2, <3>2
    <3>4. Mapped(repTree, NodesIn(ev), l) /\ Maps(repTree, NodesIn(ev), l, p)
      BY <3>3 DEF Mapped, Maps
    <3> QED BY <1>1, <3>4 DEF LocFacts, InMap
  <2> QED BY <1>1, <2>1, <2>2, <2>3 DEF Marks
<1> DEFINE K == { l \in InMap : Loc[l] \in bits }
           g == [l \in K |-> Loc[l]]
<1>4. K \subseteq Block /\ IsFiniteSet(K) /\ K \subseteq InMap
  BY <1>1, BlockSets
<1>5. g \in Surjection(K, bits)
  BY <1>3 DEF Surjection
<1> HIDE DEF K, g
<1>6. Cardinality(bits) <= Cardinality(K) /\ Cardinality(K) <= Cardinality(InMap)
  BY <1>1, <1>4, <1>5, FS_Surjection, BlockSets
<1>7. Cardinality(bits) \in Nat /\ Cardinality(K) \in Nat /\ Cardinality(InMap) \in Nat
  BY <1>1, <1>4, BlockSets
<1> QED BY <1>1, <1>6, <1>7

(* Sets that cover the device have at least its blocks between them.       *)
LEMMA Joined ==
  ASSUME NEW S, NEW T, S \subseteq Block, T \subseteq Block
  PROVE  /\ S \union T \subseteq Block
         /\ Cardinality(S) \in Nat /\ Cardinality(T) \in Nat /\ Cardinality(S \union T) \in Nat
         /\ Cardinality(S \union T) <= Cardinality(S) + Cardinality(T)
<1> DEFINE D == T \ S
<1>1. D \subseteq T /\ D \subseteq Block /\ S \intersect D = {} /\ S \union D = S \union T
  OBVIOUS
<1> HIDE DEF D
<1>2. /\ Cardinality(S \union T) = Cardinality(S) + Cardinality(D)
      /\ Cardinality(D) <= Cardinality(T)
  BY <1>1, BlockSets
<1>3. /\ S \union T \subseteq Block
      /\ Cardinality(S) \in Nat /\ Cardinality(T) \in Nat /\ Cardinality(S \union T) \in Nat
      /\ Cardinality(D) \in Nat
  BY <1>1, BlockSets
<1>4. Cardinality(S \union T) <= Cardinality(S) + Cardinality(T)
  BY <1>2, <1>3
<1> QED BY <1>3, <1>4

(* The second loop finds room in group 2: what the request still needs and *)
(* what is mapped are not more than the whole device.                      *)
LEMMA LastHasRoom ==
  ASSUME JustInv, FixedInv, Nested, Recent, ~ foreign, pc = "alloc",
         ev # <<>>, Top.src = 1, Top.area # NoNode
  PROVE  avail[2] # {}
<1>1. /\ SpaceInv /\ TreeInv /\ ev \in Seq(FrameIn) /\ Stacked(ev) /\ Frame(0, 0) \in FrameIn
      /\ avail \in [Tiers -> SUBSET Block] /\ Refused = {} /\ Held(ev)
      /\ blk \in Nat /\ blk <= req.end /\ req.end \in Int /\ req.end < Total
  BY FrameType, FamiliesType
     DEF JustInv, DoomInv, RoomInv, SpaceInv, Tidy, IInv, CallIn, RequestIn, Recent
<1>2. DOMAIN ev = {1, 2} /\ ev[2] = Top /\ ev[1] \in FrameIn /\ Top \in FrameIn
  BY <1>1, TwoLoops
<1> DEFINE M1 == Span(ev[1].area.rep)
           M2 == Span(ev[2].area.rep)
           R1 == Span(ev[1].rest.rep)
           R2 == Span(ev[2].rest.rep)
           D1 == M1 \ R1
           D2 == M2 \ R2
           I  == blk .. req.end
           a0 == Cardinality(avail[0])
           a1 == Cardinality(avail[1])
           b  == Cardinality(bits)
           w1 == ev[1].want
           w2 == ev[2].want
<1>3. /\ M1 \subseteq Block /\ M2 \subseteq Block
      /\ R1 \subseteq M1 /\ R2 \subseteq M2
      /\ w1 \in Int /\ w2 \in Int
  <2>1. \A i \in {1, 2} : ev[i] \in FrameIn /\ FrameHeld(ev[i])
    BY <1>1, <1>2 DEF Held
  <2> QED BY <2>1 DEF FrameHeld, FrameIn, NodeIn, NodeType
<1>4. Cardinality(R2) >= 1
  <2>1. Top.rest \in NodeIn /\ Top.rest.cnt >= 1
    BY <1>1, <1>2, TopFamilies DEF FrameHeld, FrameIn
  <2>2. Top.rest.cnt \in Int
    BY <2>1, NodeForm
  <2>3. Cardinality(R2) = Top.rest.cnt
    BY <1>2, <2>1, <2>2, NodeBlocks
  <2> QED BY <2>1, <2>3
<1>5. /\ w1 >= 0 /\ w2 >= 0
      /\ a1 + w2 + Cardinality(M2) = Cardinality(R1)
  BY <1>2 DEF Nested
<1>6. a0 + (w1 + Cardinality(M1)) = req.end - blk + 1
  BY DEF Recent, Missing, Wins
<1>7. b <= Cardinality(InMap) /\ bits \subseteq Block /\ InMap \subseteq Block
  BY <1>1, MarkedAreMapped
<1>8. /\ I \subseteq Block /\ InMap \intersect I = {}
      /\ Cardinality(I) = req.end - blk + 1
  <2>1. I \subseteq Block
    BY <1>1, Geometry DEF Block
  <2>2. InMap \intersect I = {}
    BY DEF FixedInv, AllocPart, NoneHere
  <2>3. Cardinality(I) = req.end - blk + 1
    <3>1. blk \in Int /\ req.end \in Int /\ ~ blk > req.end
      BY <1>1
    <3> QED BY <3>1, FS_Interval
  <2> QED BY <2>1, <2>2, <2>3
<1>9. Cardinality(InMap) + Cardinality(I) <= Total
  <2>1. InMap \union I \subseteq Block /\ Block \subseteq Block
    BY <1>7, <1>8
  <2>2. Cardinality(InMap \union I) = Cardinality(InMap) + Cardinality(I)
    BY <1>7, <1>8, BlockSets
  <2>3. Cardinality(InMap \union I) <= Cardinality(Block)
    BY <2>1, BlockSets
  <2> QED BY <2>2, <2>3, Sizes
<1>10. /\ D1 \subseteq Block /\ D2 \subseteq Block
       /\ Cardinality(M1) = Cardinality(R1) + Cardinality(D1)
       /\ Cardinality(M2) = Cardinality(R2) + Cardinality(D2)
  <2>1. /\ D1 \subseteq Block /\ R1 \intersect D1 = {} /\ R1 \union D1 = M1 /\ R1 \subseteq Block
        /\ D2 \subseteq Block /\ R2 \intersect D2 = {} /\ R2 \union D2 = M2 /\ R2 \subseteq Block
    BY <1>3
  <2> HIDE DEF D1, D2, R1, R2, M1, M2
  <2> QED BY <2>1, BlockSets
<1> SUFFICES ASSUME avail[2] = {} PROVE FALSE
  OBVIOUS
<1>11. Block \subseteq (((avail[0] \union avail[1]) \union bits) \union D1) \union D2
  <2> SUFFICES ASSUME NEW p \in Block
               PROVE  p \in avail[0] \/ p \in avail[1] \/ p \in bits \/ p \in D1 \/ p \in D2
    OBVIOUS
  <2>1. Partition(avail, Lists(pri), MovingIn(ev)) /\ Marks(bits, Lists(pri), RestIn(ev))
    BY <1>1 DEF SpaceInv, Tidy
  <2>2. CASE \E t \in Tiers : p \in avail[t]
    BY <2>2 DEF Tiers
  <2>3. CASE \E t \in Tiers : \E n \in Lists(pri)[t] : p \in Span(n.rep)
    BY <2>1, <2>3 DEF Marks
  <2>4. CASE \E i \in Nat : p \in MovingIn(ev)[i]
    <3>1. PICK i \in Nat : p \in MovingIn(ev)[i]
      BY <2>4
    <3>2. i \in {1, 2} /\ p \in Span(ev[i].area.rep) /\ RestIn(ev)[i] = Span(ev[i].rest.rep)
      BY <1>2, <3>1 DEF MovingIn, RestIn
    <3>3. p \in Span(ev[i].rest.rep) => p \in bits
      BY <2>1, <3>1, <3>2 DEF Marks
    <3> QED BY <3>2, <3>3
  <2> QED BY <2>1, <2>2, <2>3, <2>4 DEF Partition, Covered
<1>12. Total <= a0 + a1 + b + Cardinality(D1) + Cardinality(D2)
  <2> DEFINE U1 == avail[0] \union avail[1]
             U2 == U1 \union bits
             U3 == U2 \union D1
             U4 == U3 \union D2
  <2>0. avail[0] \subseteq Block /\ avail[1] \subseteq Block
    BY <1>1 DEF Tiers
  <2>1. U1 \subseteq Block /\ Cardinality(U1) <= a0 + a1 /\ Cardinality(U1) \in Nat
        /\ a0 \in Nat /\ a1 \in Nat
    BY <2>0, Joined
  <2>2. U2 \subseteq Block /\ Cardinality(U2) <= Cardinality(U1) + b /\ Cardinality(U2) \in Nat
        /\ b \in Nat
    <3> HIDE DEF U1
    <3> QED BY <1>7, <2>1, Joined
  <2>3. U3 \subseteq Block /\ Cardinality(U3) <= Cardinality(U2) + Cardinality(D1)
        /\ Cardinality(U3) \in Nat /\ Cardinality(D1) \in Nat
    <3> HIDE DEF U2, D1
    <3> QED BY <1>10, <2>2, Joined
  <2>4. U4 \subseteq Block /\ Cardinality(U4) <= Cardinality(U3) + Cardinality(D2)
        /\ Cardinality(U4) \in Nat /\ Cardinality(D2) \in Nat
    <3> HIDE DEF U3, D2
    <3> QED BY <1>10, <2>3, Joined
  <2>5. Cardinality(U4) = Total
    <3>1. U4 = Block
      BY <1>11, <2>4
    <3> QED BY <3>1, Sizes
  <2> HIDE DEF U1, U2, U3, U4, a0, a1, b, D1, D2
  <2> QED BY <2>1, <2>2, <2>3, <2>4, <2>5
<1>13. /\ a0 \in Nat /\ a1 \in Nat /\ b \in Nat /\ Cardinality(InMap) \in Nat /\ Total \in Nat
       /\ Cardinality(R1) \in Nat /\ Cardinality(R2) \in Nat
       /\ Cardinality(D1) \in Nat /\ Cardinality(D2) \in Nat
  <2>1. /\ avail[0] \subseteq Block /\ avail[1] \subseteq Block
        /\ R1 \subseteq Block /\ R2 \subseteq Block
    BY <1>1, <1>3 DEF Tiers
  <2> HIDE DEF D1, D2, R1, R2
  <2> QED BY <1>7, <1>10, <2>1, BlockSets, Geometry
<1> HIDE DEF a0, a1, b, M1, M2, R1, R2, D1, D2, I, w1, w2
<1>14. Cardinality(I) = a0 + w1 + Cardinality(R1) + Cardinality(D1)
  BY <1>3, <1>6, <1>8, <1>10, <1>13
<1>15. a1 + w2 + (Cardinality(R2) + Cardinality(D2)) = Cardinality(R1)
  BY <1>5, <1>10
<1>16. Total <= a0 + a1 + Cardinality(InMap) + Cardinality(D1) + Cardinality(D2)
  BY <1>7, <1>12, <1>13
<1>17. Cardinality(InMap) + (a0 + w1 + Cardinality(R1) + Cardinality(D1)) <= Total
  BY <1>9, <1>14
<1> DEFINE rA == Cardinality(R1)
           rB == Cardinality(R2)
           dA == Cardinality(D1)
           dB == Cardinality(D2)
           m  == Cardinality(InMap)
<1> QED
  <2>1. /\ Total <= a0 + a1 + m + dA + dB /\ m + (a0 + w1 + rA + dA) <= Total
        /\ a1 + w2 + (rB + dB) = rA /\ w1 >= 0 /\ w2 >= 0 /\ rB >= 1
        /\ w1 \in Int /\ w2 \in Int /\ a0 \in Int /\ a1 \in Int /\ m \in Int /\ Total \in Int
        /\ rA \in Int /\ rB \in Int /\ dA \in Int /\ dB \in Int
    BY <1>3, <1>4, <1>5, <1>13, <1>15, <1>16, <1>17
  <2> HIDE DEF rA, rB, dA, dB, m
  <2> QED BY <2>1

-----------------------------------------------------------------------------
(* What clients may not do: ask for more than group 0 at once, or use two  *)
(* extents that are both larger than group 1.                              *)
Fitting ==
  /\ \A r \in Requests : Size(r) <= AreaBlocks[0]
  /\ \A x, y \in Requests : Span(x) # Span(y) => Size(x) <= AreaBlocks[1] \/ Size(y) <= AreaBlocks[1]

ServeInv == JustInv /\ FixedInv /\ AimInv /\ Nested

(* A loop that REPLACEMENT_TEST has not started is there for what the      *)
(* running request lacks.                                                  *)
LEMMA LoopOfCall ==
  ASSUME ServeInv, Fitting, ~ foreign, pc # "evict", ev # <<>>
  PROVE  /\ pc = "alloc" /\ Stay /\ Recent /\ req \in Requests /\ Size(req) <= AreaBlocks[0]
         /\ blk \in Nat /\ req.start \in Nat /\ req.end \in Nat /\ req.start <= blk
         /\ Span(req) = req.start .. req.end
<1>1. pc = "alloc" /\ InsideInv
  BY DEF ServeInv, JustInv, DoomInv, Busy, FixedInv
<1>2. req \in Requests /\ Size(req) <= AreaBlocks[0]
  BY <1>1 DEF InsideInv, Asked, Fitting
<1>3. Stay /\ (Roomy \/ Recent)
  BY <1>1, <1>2 DEF ServeInv, JustInv, Fits
<1>4. /\ blk \in Nat /\ req.start \in Nat /\ req.end \in Nat /\ req.start <= blk
      /\ Span(req) = req.start .. req.end
  BY <1>1, CallExtent
<1> QED BY <1>1, <1>2, <1>3, <1>4 DEF Roomy

(* The first loop finds a victim: with no area on its list, group 0 would  *)
(* be free, and the request fits in it.                                    *)
LEMMA FirstPops ==
  ASSUME ServeInv, Fitting, ~ foreign, pc # "evict", Popping, Top.src = 0
  PROVE  pri[0] # <<>>
<1> SUFFICES ASSUME pri[0] = <<>> PROVE FALSE
  OBVIOUS
<1>1. /\ ev # <<>> /\ Top.area = NoNode /\ Top.want > 0
      /\ RoomInv /\ ev \in Seq(FrameIn) /\ Stacked(ev) /\ Frame(0, 0) \in FrameIn
      /\ avail[0] \subseteq Block
  BY FrameType, FamiliesType
     DEF Popping, Evicting, ServeInv, JustInv, DoomInv, RoomInv, SpaceInv, IInv, Tiers
<1>2. /\ Recent /\ Size(req) <= AreaBlocks[0] /\ blk \in Nat /\ req.start \in Nat
      /\ req.end \in Nat /\ req.start <= blk
  BY <1>1, LoopOfCall
<1>3. DOMAIN ev = {1} /\ ev[1] = Top /\ Top \in FrameIn
  BY <1>1, TwoLoops
<1>4. MovingIn(ev)[1] = {} /\ Cardinality(Span(NoNode.rep)) = 0
  BY <1>1, <1>3, NoNodeSpan, FS_EmptySet DEF MovingIn
<1>5. Cardinality(SpanOf(Listed(0))) = 0
  <2>1. Listed(0) = {}
    BY EmptySeq DEF Listed, Range
  <2>2. SpanOf(Listed(0)) = {}
    BY <2>1 DEF SpanOf
  <2> QED BY <2>2, FS_EmptySet
<1>6. Cardinality(avail[0]) = AreaBlocks[0]
  <2>1. Cardinality(avail[0]) + Cardinality(SpanOf(Listed(0))) = AreaBlocks[0]
    BY <1>1, <1>4, HomeBlocks
  <2>2. Cardinality(avail[0]) \in Nat
    BY <1>1, BlockSets
  <2> QED BY <1>5, <2>1, <2>2
<1>7. Cardinality(avail[0]) + (Top.want + 0) = req.end - blk + 1
  BY <1>1, <1>2, <1>3, <1>4 DEF Recent, Missing, Wins
<1>8. AreaBlocks[0] \in Nat /\ Top.want \in Int
  BY <1>3, Geometry DEF FrameIn, Tiers
<1> DEFINE a == AreaBlocks[0]
           w == Top.want
<1>9. a + w = req.end - blk + 1 /\ req.end - req.start + 1 <= a /\ a \in Int /\ w \in Int /\ w > 0
  BY <1>1, <1>2, <1>6, <1>7, <1>8 DEF Size
<1> HIDE DEF a, w
<1> QED BY <1>2, <1>9

(* Where the second loop finds no victim, the area that the first one      *)
(* moves is larger than group 1, which would be free.                      *)
LEMMA SecondLacks ==
  ASSUME ServeInv, ~ foreign, Popping, Top.src = 1, pri[1] = <<>>
  PROVE  /\ DOMAIN ev = {1, 2} /\ ev[2] = Top
         /\ ev[1].rest \in NodeIn /\ ev[1].rest = NodesIn(ev)[1]
         /\ Span(ev[1].rest.rep) \subseteq Span(ev[1].area.rep)
         /\ Span(ev[1].area.rep) \subseteq Block
         /\ ev[1].want \in Int /\ ev[1].want >= 0 /\ ev[1].rest.cnt \in Int
         /\ Cardinality(Span(ev[1].rest.rep)) = ev[1].rest.cnt
         /\ ev[1].rest.cnt > AreaBlocks[1] /\ ev[1].rest.cnt >= 1 /\ AreaBlocks[1] \in Nat
<1>1. /\ ev # <<>> /\ Top.area = NoNode /\ Top.want > 0 /\ RoomInv /\ SpaceInv
      /\ ev \in Seq(FrameIn) /\ Stacked(ev) /\ Held(ev) /\ Frame(0, 0) \in FrameIn
  BY FrameType, FamiliesType
     DEF Popping, Evicting, ServeInv, JustInv, DoomInv, RoomInv, SpaceInv, IInv, Tidy, Tiers
<1>3. DOMAIN ev = {1, 2} /\ ev[2] = Top /\ ev[1] \in FrameIn /\ Top \in FrameIn
  BY <1>1, TwoLoops
<1> DEFINE s == ev[1].rest
           M == Span(ev[1].area.rep)
<1>4. s \in NodeIn /\ s = NodesIn(ev)[1] /\ Span(s.rep) \subseteq M /\ M \subseteq Block
      /\ s.cnt \in Int /\ ev[1].want \in Int /\ Top.want \in Int
  <2>1. s \in NodeIn /\ ev[1].area \in NodeIn /\ ev[1].want \in Int /\ Top.want \in Int
    BY <1>3 DEF FrameIn
  <2>2. Span(s.rep) \subseteq M
    BY <1>1, <1>3 DEF Held, FrameHeld
  <2> QED BY <1>3, <2>1, <2>2, NodeForm DEF NodesIn
<1>5. Cardinality(Span(s.rep)) = s.cnt
  <2>1. s.cnt >= 0
    <3>1. FrameHeld(ev[1]) /\ NoNode.cnt = 0
      BY <1>1, <1>3 DEF Held, NoNode, Node
    <3> QED BY <1>4, <3>1 DEF FrameHeld
  <2> QED BY <1>4, <2>1, NodeBlocks
<1>6. AreaBlocks[1] + Top.want = s.cnt /\ ev[1].want >= 0
  <2>1. /\ ev[1].want >= 0
        /\ Cardinality(avail[1]) + Top.want + Cardinality(Span(NoNode.rep)) = s.cnt
    BY <1>1, <1>3, <1>5 DEF Nested, ServeInv
  <2>2. Cardinality(avail[1]) = AreaBlocks[1] /\ Cardinality(Span(NoNode.rep)) = 0
    BY <1>1, LowerFree, NoNodeSpan, FS_EmptySet
  <2>3. AreaBlocks[1] \in Nat
    BY Geometry DEF Tiers
  <2> QED BY <1>4, <2>1, <2>2, <2>3
<1>7. s.cnt > AreaBlocks[1] /\ s.cnt >= 1 /\ AreaBlocks[1] \in Nat
  <2>1. AreaBlocks[1] \in Nat
    BY Geometry DEF Tiers
  <2> DEFINE a == AreaBlocks[1]
             w == Top.want
             c == s.cnt
  <2>2. a \in Nat /\ w \in Int /\ w > 0 /\ c \in Int /\ a + w = c
    BY <1>1, <1>4, <1>6, <2>1
  <2> HIDE DEF a, w, c
  <2>3. c > a /\ c >= 1
    BY <2>2
  <2> QED BY <2>1, <2>3 DEF a, c
<1> QED BY <1>3, <1>4, <1>5, <1>6, <1>7

(* The second loop finds one too: with none, group 1 would be free, and    *)
(* the area of the first loop, of another extent than the request's, as    *)
(* well as the request would be larger than group 1.                       *)
LEMMA SecondPops ==
  ASSUME ServeInv, Fitting, ~ foreign, pc # "evict", Popping, Top.src = 1
  PROVE  pri[1] # <<>>
<1> SUFFICES ASSUME pri[1] = <<>> PROVE FALSE
  OBVIOUS
<1>1. ev # <<>> /\ RoomInv /\ TreeInv /\ avail[0] \subseteq Block
  BY FamiliesType
     DEF Popping, Evicting, ServeInv, JustInv, DoomInv, RoomInv, SpaceInv, IInv, Tidy, Tiers
<1>2. /\ pc = "alloc" /\ Stay /\ Recent /\ req \in Requests
      /\ blk \in Nat /\ req.start \in Nat /\ req.end \in Nat /\ req.start <= blk
      /\ Span(req) = req.start .. req.end
  BY <1>1, LoopOfCall
<1> DEFINE s == ev[1].rest
           M == Span(ev[1].area.rep)
<1>3. DOMAIN ev = {1, 2} /\ ev[2] = Top
  BY SecondLacks
<1>4. s \in NodeIn /\ s = NodesIn(ev)[1] /\ Span(s.rep) \subseteq M /\ M \subseteq Block
      /\ s.cnt \in Int /\ ev[1].want \in Int
  BY SecondLacks
<1>5. Cardinality(Span(s.rep)) = s.cnt
  BY SecondLacks
<1>6. ev[1].want >= 0
  BY SecondLacks
<1>7. s.cnt > AreaBlocks[1] /\ s.cnt >= 1 /\ AreaBlocks[1] \in Nat
  BY SecondLacks
<1>8. PICK r \in Requests : Span(s.ori) \subseteq Span(r)
  BY <1>4, <1>7 DEF ServeInv, FixedInv, InsideInv, AllInside, Inside
<1>9. /\ s.ori.start \in Span(s.ori) /\ s.ori.end \in Span(s.ori)
      /\ s.ori.start \in Int /\ s.ori.end = s.ori.start + s.cnt - 1
      /\ Span(s.ori) \subseteq Block
  <2>1. /\ s.ori.start \in Int /\ s.ori.end = s.ori.start + s.cnt - 1
        /\ Span(s.ori) = s.ori.start .. (s.ori.start + s.cnt - 1) /\ Span(s.ori) \subseteq Block
    BY <1>4, NodeForm
  <2> DEFINE f == s.ori.start
             c == s.cnt
  <2>2. f \in Int /\ c \in Int /\ c >= 1
    BY <1>4, <1>7, <2>1
  <2> HIDE DEF f, c
  <2>3. f \in f .. (f + c - 1) /\ f + c - 1 \in f .. (f + c - 1)
    BY <2>2
  <2> QED BY <2>1, <2>3 DEF f, c
<1>10. Size(r) > AreaBlocks[1]
  <2>1. r.start \in Int /\ r.end \in Int /\ Span(r) = r.start .. r.end
    <3>1. r \in Known
      BY <1>8 DEF Known
    <3> QED BY <3>1, KnownExtent
  <2>2. r.start <= s.ori.start /\ s.ori.end <= r.end
    BY <1>8, <1>9, <2>1
  <2> DEFINE f == s.ori.start
             c == s.cnt
             a == AreaBlocks[1]
             b == r.start
             e == r.end
  <2>3. /\ f \in Int /\ c \in Int /\ a \in Int /\ b \in Int /\ e \in Int
        /\ b <= f /\ f + c - 1 <= e /\ c > a
    BY <1>4, <1>7, <1>9, <2>1, <2>2
  <2> HIDE DEF f, c, a, b, e
  <2>4. e - b + 1 > a
    BY <2>3
  <2> QED BY <2>4 DEF Size, a, b, e
<1>11. Size(req) > AreaBlocks[1]
  <2>1. Cardinality(avail[0]) + (ev[1].want + Cardinality(M)) = req.end - blk + 1
    BY <1>1, <1>2 DEF Recent, Missing, Wins
  <2>2. Cardinality(M) >= s.cnt /\ Cardinality(M) \in Nat /\ Cardinality(avail[0]) \in Nat
    BY <1>1, <1>4, <1>5, BlockSets
  <2> DEFINE a == Cardinality(avail[0])
             m == Cardinality(M)
             w == ev[1].want
             c == s.cnt
             k == AreaBlocks[1]
             b == req.start
             e == req.end
  <2>3. /\ a \in Int /\ a >= 0 /\ m \in Int /\ m >= c /\ w \in Int /\ w >= 0 /\ c \in Int
        /\ k \in Int /\ c > k /\ a + (w + m) = e - blk + 1
    BY <1>4, <1>6, <1>7, <2>1, <2>2
  <2>4. b \in Int /\ e \in Int /\ blk \in Int /\ b <= blk
    BY <1>2
  <2> HIDE DEF a, m, w, c, k, b, e
  <2>5. e - b + 1 > k
    BY <2>3, <2>4
  <2> QED BY <2>5 DEF Size, k, b, e
<1>12. s.ori.start \notin Span(req)
  <2> DEFINE l == s.ori.start
  <2>1. l \in Block /\ l \in Span(NodesIn(ev)[1].ori)
    BY <1>4, <1>9
  <2>2. l \notin blk .. req.end
    <3>1. l \in InMap
      BY <2>1 DEF InMap, Mapped
    <3> QED BY <1>2, <3>1 DEF ServeInv, FixedInv, AllocPart, NoneHere
  <2>3. l \notin req.start .. (blk - 1)
    <3> SUFFICES ASSUME l \in req.start .. (blk - 1) PROVE FALSE
      OBVIOUS
    <3>1. PICK n \in Listed(0) : l \in Span(n.ori)
      BY <1>2 DEF Stay
    <3>2. n \in repTree
      BY <1>2, <3>1 DEF Recent, Refused, AllListed, Tiers
    <3> QED BY <1>1, <2>1, <3>1, <3>2 DEF TreeInv, Once, TreeOrRest
  <2> QED BY <1>2, <1>9, <2>2, <2>3
<1>13. Span(r) # Span(req)
  BY <1>8, <1>9, <1>12
<1>14. Size(r) \in Int /\ Size(req) \in Int
  BY <1>2, KnownExtent DEF Known, Size
<1> QED BY <1>2, <1>7, <1>10, <1>11, <1>13, <1>14 DEF Fitting

(* Group 1 has a free extent for the loop of group 0 to take,              *)
LEMMA FirstPlaces ==
  ASSUME ServeInv, ~ foreign, Placing, Top.src = 0
  PROVE  avail[1] # {}
<1>1. /\ ev # <<>> /\ Top.area # NoNode /\ SpaceInv
      /\ ev \in Seq(FrameIn) /\ Stacked(ev) /\ Frame(0, 0) \in FrameIn
  BY FrameType
     DEF Placing, Evicting, ServeInv, JustInv, DoomInv, RoomInv, SpaceInv, IInv
<1>2. Top \in FrameIn
  BY <1>1, TwoLoops
<1>3. DOMAIN ev = {1} /\ ev[1] = Top /\ 2 \notin {1}
  <2>1. DOMAIN ev = {1} /\ ev[1] = Top
    BY <1>1, TwoLoops
  <2> QED BY <2>1
<1>4. Cardinality(avail[1]) >= Cardinality(Span(Top.rest.rep))
  BY <1>1, <1>3 DEF ServeInv, Nested
<1>5. Top.rest \in NodeIn /\ Top.rest.cnt >= 1 /\ Top.rest.cnt \in Int
  <2>1. Top.rest \in NodeIn /\ Top.rest.cnt >= 1
    BY <1>1, <1>2, TopFamilies DEF FrameHeld, FrameIn
  <2> QED BY <2>1, NodeForm
<1>6. Cardinality(Span(Top.rest.rep)) = Top.rest.cnt
  BY <1>5, NodeBlocks
<1>7. Cardinality(avail[1]) # 0
  BY <1>4, <1>5, <1>6
<1> QED BY <1>7, FS_EmptySet

(* and so has group 2 for that of group 1, when a bio needs it.            *)
LEMMA PlacesHaveRoom ==
  ASSUME ServeInv, Fitting, ~ foreign, pc # "evict", Placing
  PROVE  avail[Top.src + 1] # {}
<1>1. /\ ev # <<>> /\ Top.area # NoNode /\ SpaceInv
      /\ ev \in Seq(FrameIn) /\ Stacked(ev) /\ Frame(0, 0) \in FrameIn
  BY FrameType
     DEF Placing, Evicting, ServeInv, JustInv, DoomInv, RoomInv, SpaceInv, IInv
<1>2. Top.src = 0 \/ Top.src = 1
  BY <1>1, TwoLoops
<1>3. CASE Top.src = 0
  BY <1>3, FirstPlaces
<1>4. CASE Top.src = 1
  <2>1. pc = "alloc" /\ Recent
    BY <1>1, LoopOfCall
  <2>2. avail[2] # {}
    BY <1>1, <1>4, <2>1, LastHasRoom DEF ServeInv
  <2> QED BY <1>4, <2>2
<1> QED BY <1>2, <1>3, <1>4

(* Nothing stops a bio, and little the loops of REPLACEMENT_TEST.          *)
LEMMA ServedBios ==
  ASSUME FixedClients, Fitting, ServeInv, BioSafeAtHome, [Next]_vars
  PROVE  BioSafeAtHome'
<1> SUFFICES ASSUME fault' # "none", ~ foreign'
             PROVE  (pc = "evict" /\ Overtaxed)'
  BY DEF BioSafeAtHome
<1>1. /\ JustInv /\ FixedInv /\ AimInv /\ TreeInv /\ foreign \in BOOLEAN /\ InsideInv
  BY DEF ServeInv, AimInv, FixedInv, TreeInv, SpaceInv, IInv, InsideInv
<1>2. CASE Fail
  <2>1. ~ foreign /\ pc' = pc /\ ev' = ev
    BY <1>1, <1>2, Stopping
  <2>2. ~ EraseRoot
    BY DEF EraseRoot
  <2>3. ~ IssueUnmapped
    <3> SUFFICES ASSUME IssueUnmapped PROVE FALSE
      OBVIOUS
    <3>1. pc = "issue" /\ ev = <<>> /\ blk <= req.end /\ At(blk) = {}
      BY DEF IssueUnmapped, Issuing, Running
    <3>2. /\ blk \in Nat /\ req.start \in Nat /\ req.end \in Nat /\ req.start <= blk
          /\ req.start .. req.end \subseteq Block
      BY <1>1, <3>1, CallExtent
    <3>3. blk \in Block /\ blk \in InMap
      BY <1>1, <3>1, <3>2 DEF FixedInv, IssuePart, AllHere
    <3> QED BY <1>1, <3>1, <3>3, AtInMap
  <2>4. ~ IssueSplit
    BY <1>1, FixedStartsClean, PieceInArea DEF IssueSplit
  <2>5. CASE PopEmpty
    <3>1. Popping /\ pri[Top.src] = <<>> /\ fault' = "popEmpty"
      BY <2>5 DEF PopEmpty, Stop
    <3>2. ev # <<>> /\ ev \in Seq(FrameIn) /\ Stacked(ev) /\ Frame(0, 0) \in FrameIn
      BY <1>1, <3>1, FrameType
         DEF Popping, Evicting, JustInv, DoomInv, RoomInv, SpaceInv, IInv
    <3>3. CASE Top.src = 0
      <4>1. pc = "evict"
        BY <2>1, <3>1, <3>3, FirstPops
      <4>2. DOMAIN ev = {1}
        BY <3>2, <3>3, TwoLoops
      <4>3. Len(ev) = 1
        BY <3>2, <4>2, StackLen
      <4> QED BY <2>1, <3>1, <4>1, <4>3 DEF Overtaxed
    <3>4. CASE Top.src = 1
      <4>1. pc = "evict"
        BY <2>1, <3>1, <3>4, SecondPops
      <4>2. ev[1].rest.cnt > AreaBlocks[1]
        BY <2>1, <3>1, <3>4, SecondLacks
      <4> QED BY <2>1, <3>1, <4>1, <4>2 DEF Overtaxed
    <3> QED BY <3>2, <3>3, <3>4, TwoLoops
  <2>6. ~ PopUnlinked
    <3> SUFFICES ASSUME PopUnlinked PROVE FALSE
      OBVIOUS
    <3>1. /\ Popping /\ pri[Top.src] # <<>> /\ Victim \notin repTree
          /\ ev # <<>> /\ SpaceInv
      BY <1>1 DEF PopUnlinked, Popping, Evicting, TreeInv
    <3>2. Top.src \in Tiers
      <4>1. Top.src \in {0, 1}
        BY <3>1, StackType DEF SpaceInv, IInv, FrameIn
      <4> QED BY <4>1 DEF Tiers
    <3>3. Victim \in Listed(Top.src)
      <4> DEFINE l == pri[Top.src]
      <4>1. l \in Seq(NodeOf(Top.src)) /\ l # <<>>
        BY <3>1, <3>2 DEF SpaceInv, IInv, SpaceIn, PriIn
      <4> HIDE DEF l
      <4>2. Len(l) \in DOMAIN l
        <5>1. Len(l) \in Nat /\ DOMAIN l = 1 .. Len(l) /\ Len(l) # 0
          BY <4>1, LenProperties, EmptySeq
        <5> QED BY <5>1
      <4>3. Last(l) \in Range(l)
        BY <4>2 DEF Last, Range
      <4> QED BY <4>3 DEF Victim, Listed, l
    <3> QED BY <1>1, <3>1, <3>2, <3>3 DEF FixedInv, Refused, AllListed
  <2>7. CASE PlaceNone
    <3>1. Placing /\ avail[Top.src + 1] = {} /\ fault' = "noAvail"
      BY <2>7 DEF PlaceNone, Stop
    <3>2. ev # <<>> /\ ev \in Seq(FrameIn) /\ Stacked(ev) /\ Frame(0, 0) \in FrameIn
      BY <1>1, <3>1, FrameType
         DEF Placing, Evicting, JustInv, DoomInv, RoomInv, SpaceInv, IInv
    <3>3. pc = "evict"
      BY <2>1, <3>1, PlacesHaveRoom
    <3>4. Top.src # 0
      BY <2>1, <3>1, FirstPlaces
    <3>5. DOMAIN ev = {1, 2}
      BY <3>2, <3>4, TwoLoops
    <3>6. Len(ev) = 2
      BY <3>2, <3>5, StackLen
    <3> QED BY <2>1, <3>1, <3>3, <3>6 DEF Overtaxed
  <2> QED BY <1>2, <2>2, <2>3, <2>4, <2>5, <2>6, <2>7 DEF Fail
<1>3. CASE Halted \/ UNCHANGED vars
  <2>1. UNCHANGED vars
    BY <1>3 DEF Halted
  <2> QED BY <2>1 DEF BioSafeAtHome, Overtaxed, vars, call
<1>4. CASE ~ Fail /\ ~ Halted /\ ~ UNCHANGED vars
  <2>1. fault = "none" /\ fault' = fault
    BY <1>4 DEF Next, Step, Submit, Discard, Evict, Delete, Start, Touch, Searching, MakeRoom, Alloc,
       Inserted, Issue, Issuing, Issued, Pop, Popping, Place, Placing, Evicted, Evicting, DeleteArea, Deleting,
       Deleted, Return, Running
  <2> QED BY <2>1
<1> QED BY <1>2, <1>3, <1>4

LEMMA ServeInvariant == ASSUME FixedClients PROVE Spec => []ServeInv
<1>1. Init => ServeInv
  <2>1. Init => JustInv
    BY InitDoom DEF Init, JustInv, Fits
  <2> QED BY <2>1, InitFixed, InitAim, InitNested DEF ServeInv
<1>2. ServeInv /\ [Next]_vars => ServeInv'
  <2>1. ServeInv => RoomInv
    BY DEF ServeInv, JustInv, DoomInv
  <2>2. FixedInv /\ [Next]_vars => FixedInv'
    BY NextFixed
  <2> QED BY <2>1, <2>2, NextJustInv, NextAimInv, NextNested DEF ServeInv
<1> QED BY <1>1, <1>2, PTL DEF Spec

(* For such clients, and as long as no demoted area has been accessed or   *)
(* deleted, hypraid_insert_block_area and re_request_bio never stop a bio: *)
(* there is an area to evict whenever one is asked for and a free extent   *)
(* wherever one is taken, in both loops, and every area that is used is    *)
(* there.  REPLACEMENT_TEST stops the machine only by asking for more than *)
(* there is to move or room to move it to.  Each half of Fitting is needed *)
(* for that.                                                               *)
THEOREM FixedBiosAreSafe ==
  ASSUME FixedClients, Fitting
  PROVE  Spec => []BioSafeAtHome
<1>1. Init => BioSafeAtHome
  BY DEF Init, BioSafeAtHome
<1>2. ServeInv /\ BioSafeAtHome /\ [Next]_vars => BioSafeAtHome'
  BY ServedBios
<1> QED BY <1>1, <1>2, ServeInvariant, PTL DEF Spec
=============================================================================
