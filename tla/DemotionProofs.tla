--------------------------- MODULE DemotionProofs ---------------------------
(***************************************************************************)
(* However many threads there are, and wherever they sleep in the middle   *)
(* of demotions, no block of the device is lost and none is given out      *)
(* twice.  As for one thread, the state is seen as three families: the     *)
(* free blocks a of each group, the areas L it lists, and, for each thread *)
(* and each of its loops, the block M the loop is moving, or NoBlk.        *)
(* The second half counts: the bitmap marks what is listed or on its way,  *)
(* until it has its new block.  The last part follows the contents through *)
(* the copies.                                                             *)
(***************************************************************************)
EXTENDS Demotion, ExtentsProofs

FreeOnce(a) ==
  \A p \in Block, t, u \in Tiers : p \in a[t] /\ p \in a[u] => t = u

ListedOnce(L) ==
  \A t, u \in Tiers : \A n \in L[t], m \in L[u] : n.rep = m.rep => t = u /\ n = m

MovingOnce(M) ==
  \A c, d \in Threads, i, j \in Nat :
    M[c][i] \in Block /\ M[c][i] = M[d][j] => c = d /\ i = j

FreeOrListed(a, L) == \A t, u \in Tiers : \A n \in L[u] : n.rep \notin a[t]

FreeOrMoving(a, M) == \A t \in Tiers, c \in Threads, i \in Nat : M[c][i] \notin a[t]

ListedOrMoving(L, M) ==
  \A t \in Tiers, c \in Threads, i \in Nat : \A n \in L[t] : n.rep # M[c][i]

Covered(a, L, M) ==
  \A p \in Block : \/ \E t \in Tiers : p \in a[t]
                   \/ \E t \in Tiers : \E n \in L[t] : p = n.rep
                   \/ \E c \in Threads, i \in Nat : p = M[c][i]

Partition(a, L, M) ==
  /\ FreeOnce(a) /\ ListedOnce(L) /\ MovingOnce(M)
  /\ FreeOrListed(a, L) /\ FreeOrMoving(a, M) /\ ListedOrMoving(L, M)
  /\ Covered(a, L, M)

Within(a, L) ==
  \A t \in Tiers : a[t] \subseteq Block /\ \A n \in L[t] : n.rep \in Block

LEMMA NoBlkOutside == NoBlk \notin Block
BY Geometry DEF NoBlk, Block

-----------------------------------------------------------------------------
(* The changes of the families that the actions are made of.  A free block *)
(* becomes an area's: an allocation, or the target of a demotion.          *)
LEMMA FreeToListed ==
  ASSUME NEW a, NEW L, NEW M, Partition(a, L, M), Within(a, L), NEW b, NEW K,
         NEW t \in Tiers, NEW u \in Tiers, NEW n, n.rep \in a[t],
         \A v \in Tiers : b[v] = IF v = t THEN a[t] \ {n.rep} ELSE a[v],
         \A v \in Tiers : K[v] = IF v = u THEN L[u] \union {n} ELSE L[v]
  PROVE  Partition(b, K, M)
<1>1. FreeOnce(b)
  BY DEF Partition, FreeOnce
<1>2. ListedOnce(K)
  BY DEF Partition, ListedOnce, FreeOrListed
<1>3. FreeOrListed(b, K)
  BY DEF Partition, FreeOrListed, FreeOnce, Within
<1>4. FreeOrMoving(b, M)
  BY DEF Partition, FreeOrMoving
<1>5. ListedOrMoving(K, M)
  BY DEF Partition, ListedOrMoving, FreeOrMoving
<1>6. Covered(b, K, M)
  BY DEF Partition, Covered
<1> QED BY <1>1, <1>2, <1>3, <1>4, <1>5, <1>6 DEF Partition

(* An area's block becomes free: a deletion.                               *)
LEMMA ListedToFree ==
  ASSUME NEW a, NEW L, NEW M, Partition(a, L, M), Within(a, L), NEW b, NEW K,
         NEW t \in Tiers, NEW u \in Tiers, NEW n \in L[t],
         \A v \in Tiers : b[v] = IF v = u THEN a[u] \union {n.rep} ELSE a[v],
         \A v \in Tiers : K[v] = L[v] \ {n}
  PROVE  Partition(b, K, M)
<1>1. FreeOnce(b)
  BY DEF Partition, FreeOnce, FreeOrListed
<1>2. ListedOnce(K)
  BY DEF Partition, ListedOnce
<1>3. FreeOrListed(b, K)
  BY DEF Partition, FreeOrListed, ListedOnce
<1>4. FreeOrMoving(b, M)
  BY DEF Partition, FreeOrMoving, ListedOrMoving
<1>5. ListedOrMoving(K, M)
  BY DEF Partition, ListedOrMoving
<1>6. Covered(b, K, M)
  BY DEF Partition, Covered
<1> QED BY <1>1, <1>2, <1>3, <1>4, <1>5, <1>6 DEF Partition

(* A victim leaves its list for loop i of thread c.                        *)
LEMMA ListedToMoving ==
  ASSUME NEW a, NEW L, NEW M, Partition(a, L, M), Within(a, L), NEW K, NEW N,
         NEW t \in Tiers, NEW n \in L[t], NEW c \in Threads, NEW i \in Nat,
         M[c][i] = NoBlk,
         \A v \in Tiers : K[v] = L[v] \ {n},
         \A d \in Threads, j \in Nat :
           N[d][j] = IF d = c /\ j = i THEN n.rep ELSE M[d][j]
  PROVE  Partition(a, K, N)
<1>1. ListedOnce(K)
  BY DEF Partition, ListedOnce
<1>2. MovingOnce(N)
  BY DEF Partition, MovingOnce, ListedOrMoving
<1>3. FreeOrListed(a, K)
  BY DEF Partition, FreeOrListed
<1>4. FreeOrMoving(a, N)
  BY DEF Partition, FreeOrMoving, FreeOrListed
<1>5. ListedOrMoving(K, N)
  BY DEF Partition, ListedOrMoving, ListedOnce
<1>6. Covered(a, K, N)
  BY NoBlkOutside DEF Partition, Covered
<1> QED BY <1>1, <1>2, <1>3, <1>4, <1>5, <1>6 DEF Partition

(* Its old block is given back when the copy is done.                      *)
LEMMA MovingToFree ==
  ASSUME NEW a, NEW L, NEW M, Partition(a, L, M), Within(a, L), NEW b, NEW N,
         NEW t \in Tiers, NEW c \in Threads, NEW i \in Nat, M[c][i] \in Block,
         \A v \in Tiers : b[v] = IF v = t THEN a[t] \union {M[c][i]} ELSE a[v],
         \A d \in Threads, j \in Nat :
           N[d][j] = IF d = c /\ j = i THEN NoBlk ELSE M[d][j]
  PROVE  Partition(b, L, N)
<1>1. FreeOnce(b)
  BY DEF Partition, FreeOnce, FreeOrMoving
<1>2. MovingOnce(N)
  BY NoBlkOutside DEF Partition, MovingOnce
<1>3. FreeOrListed(b, L)
  BY DEF Partition, FreeOrListed, ListedOrMoving
<1>4. FreeOrMoving(b, N)
  BY NoBlkOutside DEF Partition, FreeOrMoving, MovingOnce, Within
<1>5. ListedOrMoving(L, N)
  BY NoBlkOutside DEF Partition, ListedOrMoving, Within
<1>6. Covered(b, L, N)
  BY DEF Partition, Covered
<1> QED BY <1>1, <1>2, <1>3, <1>4, <1>5, <1>6 DEF Partition

(* An area is filed with another group.                                    *)
LEMMA Refile ==
  ASSUME NEW a, NEW L, NEW M, Partition(a, L, M), NEW K,
         NEW t \in Tiers, NEW u \in Tiers, NEW n \in L[t],
         \A v \in Tiers : K[v] = IF v = u THEN L[u] \union {n} ELSE L[v] \ {n}
  PROVE  Partition(a, K, M)
<1>1. /\ \A v \in Tiers : \A m \in K[v] : (m = n /\ v = u) \/ (m # n /\ m \in L[v])
      /\ \A v \in Tiers : \A m \in L[v] : m = n \/ m \in K[v]
      /\ n \in K[u]
  OBVIOUS
<1>2. ListedOnce(K)
  BY <1>1 DEF Partition, ListedOnce
<1>3. FreeOrListed(a, K)
  BY <1>1 DEF Partition, FreeOrListed
<1>4. ListedOrMoving(K, M)
  BY <1>1 DEF Partition, ListedOrMoving
<1>5. Covered(a, K, M)
  <2> SUFFICES ASSUME NEW p \in Block, NEW v \in Tiers, NEW m \in L[v], p = m.rep
               PROVE  \E w \in Tiers : \E k \in K[w] : p = k.rep
    BY DEF Partition, Covered
  <2> QED BY <1>1
<1> QED BY <1>2, <1>3, <1>4, <1>5 DEF Partition

-----------------------------------------------------------------------------
(* The families of a state.                                                *)
Filed(p) == [t \in Tiers |-> Range(p[t])]

Moving(e) ==
  [c \in Threads |-> [i \in Nat |-> IF i \in DOMAIN e[c] THEN e[c][i].area.rep ELSE NoBlk]]

PriIn == [Tiers -> Seq(AreaIn)]

EvIn == [Threads -> Seq(FrameIn)]

Sleeps == {"read", "readDone", "write", "writeDone"}

(* What a thread has, by what it does next.                                *)
Has(c) ==
  /\ pc[c] \in {"search", "alloc", "issue", "bio"} => bio[c].blk \in Block
  /\ pc[c] = "bio" => at[c] \in Block
  /\ pc[c] \in {"evict"} \union Sleeps => ev[c] # <<>>
  /\ pc[c] \in {"idle", "search", "alloc", "issue", "bio"} => ev[c] = <<>>
  /\ pc[c] \in Sleeps => Top(c).area # NoArea /\ Top(c).dst \in Block

Busy == \A c \in Threads : Has(c)

(* No area is twice on a list, and the tree has none that is on no list.   *)
Lined(p, R) ==
  /\ \A t \in Tiers : IsInjective(p[t])
  /\ \A n \in R : \E t \in Tiers : n \in Filed(p)[t]

Space == Partition(avail, Filed(pri), Moving(ev)) /\ Lined(pri, repTree)

LEMMA FamiliesWithin ==
  ASSUME avail \in [Tiers -> SUBSET Block], pri \in PriIn
  PROVE  /\ Within(avail, Filed(pri))
         /\ \A t \in Tiers : Filed(pri)[t] \subseteq AreaIn
<1>1. \A t \in Tiers : Range(pri[t]) \subseteq AreaIn
  BY RangeOfSeq DEF PriIn
<1> QED BY <1>1 DEF Within, Filed, AreaIn

(* priority_area_extract and priority_area_insert.                         *)
LEMMA ExtractLists ==
  ASSUME NEW p \in PriIn, \A t \in Tiers : IsInjective(p[t]), NEW n
  PROVE  /\ PriExtract(p, n) \in PriIn
         /\ \A t \in Tiers : /\ IsInjective(PriExtract(p, n)[t])
                             /\ Filed(PriExtract(p, n))[t] = Filed(p)[t] \ {n}
<1>1. ASSUME NEW t \in Tiers
      PROVE  /\ PriExtract(p, n)[t] \in Seq(AreaIn)
             /\ Range(PriExtract(p, n)[t]) = Range(p[t]) \ {n}
             /\ IsInjective(PriExtract(p, n)[t])
  <2>1. p[t] \in Seq(AreaIn)
    BY DEF PriIn
  <2> QED BY <2>1, UnlinkType, UnlinkRange DEF PriExtract
<1>2. PriExtract(p, n) \in PriIn
  BY <1>1 DEF PriExtract, PriIn
<1> QED BY <1>1, <1>2 DEF Filed

LEMMA InsertLists ==
  ASSUME NEW p \in PriIn, \A t \in Tiers : IsInjective(p[t]), NEW u \in Tiers,
         NEW n \in AreaIn, n \notin Filed(p)[u]
  PROVE  /\ PriInsert(p, u, n) \in PriIn
         /\ \A t \in Tiers :
              /\ IsInjective(PriInsert(p, u, n)[t])
              /\ Filed(PriInsert(p, u, n))[t]
                   = IF t = u THEN Filed(p)[u] \union {n} ELSE Filed(p)[t]
<1>1. p[u] \in Seq(AreaIn) /\ n \notin Range(p[u])
  BY DEF PriIn, Filed
<1>2. Range(Cons(n, p[u])) = Range(p[u]) \union {n} /\ IsInjective(Cons(n, p[u]))
  BY <1>1, AddRange
<1>3. Cons(n, p[u]) \in Seq(AreaIn)
  BY <1>1, ConcatProperties DEF Cons
<1>4. \A t \in Tiers : PriInsert(p, u, n)[t] = IF t = u THEN Cons(n, p[u]) ELSE p[t]
  BY DEF PriInsert, PriIn
<1>5. PriInsert(p, u, n) \in PriIn
  BY <1>3 DEF PriInsert, PriIn
<1> QED BY <1>2, <1>4, <1>5 DEF Filed

(* An area of the tree can be taken off the lists and out of the tree, one *)
(* that is on no list can be filed and offered to the tree.                *)
LEMMA TreeOf ==
  ASSUME NEW R, NEW n
  PROVE  RepInsert(R, n) \subseteq R \union {n}
BY DEF RepInsert

LEMMA AreaFreeType ==
  ASSUME NEW t \in Tiers, NEW n \in Int
  PROVE  AreaFree(t, n) \in Int
<1>1. Cardinality(bits \intersect TierBlocks(t)) \in Nat /\ AreaBlocks[t] \in Nat
  BY Sizes, Geometry, FS_Subset, FS_CardinalityType
<1> QED BY <1>1 DEF AreaFree

LEMMA FreeType ==
  ASSUME NEW t, NEW p \in Free(t)
  PROVE  p \in avail[t]
BY FitIsFree DEF Free

(* The stacks: a thread's first loop, its last loop changed, with another  *)
(* one on top of it, or ended.                                             *)
LEMMA FrameType ==
  ASSUME NEW t \in {0, 1}, NEW n \in Int
  PROVE  Frame(t, n) \in FrameIn /\ Frame(t, n).area = NoArea
BY DEF Frame, FrameIn

LEMMA FrameChanges ==
  ASSUME NEW f \in FrameIn, NEW a \in AreaIn, NEW p \in Block
  PROVE  /\ [f EXCEPT !.area = a, !.want = @ - 1] \in FrameIn
         /\ [f EXCEPT !.area = a, !.want = @ - 1].area = a
         /\ [f EXCEPT !.dst = p] \in FrameIn
         /\ [f EXCEPT !.dst = p].area = f.area /\ [f EXCEPT !.dst = p].dst = p
<1> DEFINE k == f.want - 1
<1>1. k \in Int
  BY DEF FrameIn
<1> HIDE DEF k
<1>2. [f EXCEPT !.area = a, !.want = k] \in FrameIn
  BY <1>1 DEF FrameIn
<1>3. [f EXCEPT !.area = a, !.want = k].area = a
  BY DEF FrameIn
<1>4. /\ [f EXCEPT !.dst = p] \in FrameIn
      /\ [f EXCEPT !.dst = p].area = f.area /\ [f EXCEPT !.dst = p].dst = p
  BY DEF FrameIn
<1> QED BY <1>2, <1>3, <1>4 DEF k

LEMMA NewStack ==
  ASSUME NEW e \in EvIn, NEW c \in Threads, e[c] = <<>>, NEW t \in {0, 1}, NEW n \in Int
  PROVE  LET f == [e EXCEPT ![c] = <<Frame(t, n)>>]
         IN  f \in EvIn /\ f[c] # <<>> /\ Moving(f) = Moving(e)
<1> DEFINE g == Frame(t, n)
           f == [e EXCEPT ![c] = <<g>>]
<1>1. g \in FrameIn /\ g.area.rep = NoBlk
  BY FrameType DEF NoArea, Area
<1> HIDE DEF g
<1>2. <<g>> \in Seq(FrameIn) /\ <<g>> # <<>> /\ DOMAIN <<g>> = {1} /\ <<g>>[1] = g
  BY <1>1
<1>3. f \in EvIn
  BY <1>2 DEF EvIn
<1>4. \A d \in Threads : f[d] = IF d = c THEN <<g>> ELSE e[d]
  BY DEF EvIn
<1> HIDE DEF f
<1>5. \A i \in Nat : i \notin DOMAIN e[c]
  OBVIOUS
<1>6. Moving(f) = Moving(e)
  BY <1>1, <1>2, <1>4, <1>5 DEF Moving
<1>7. f \in EvIn /\ f[c] # <<>> /\ Moving(f) = Moving(e)
  BY <1>2, <1>3, <1>4, <1>6
<1> QED BY <1>7 DEF f, g

LEMMA TopType ==
  ASSUME ev \in EvIn, NEW c \in Threads, ev[c] # <<>>
  PROVE  /\ Top(c) \in FrameIn /\ Under(c) \in Seq(FrameIn)
         /\ Len(ev[c]) \in Nat /\ Moving(ev)[c][Len(ev[c])] = Top(c).area.rep
<1> DEFINE s == ev[c]
<1>1. s \in Seq(FrameIn)
  BY DEF EvIn
<1>2. Len(s) \in Nat \ {0} /\ DOMAIN s = 1 .. Len(s)
  BY <1>1, EmptySeq, LenProperties
<1>3. \A i \in 1 .. Len(s) : s[i] \in FrameIn
  BY <1>1, ElementOfSeq
<1>4. Top(c) = s[Len(s)]
  BY DEF Top, Last
<1>5. Under(c) \in Seq(FrameIn)
  <2>1. \A i \in 1 .. (Len(s) - 1) : s[i] \in FrameIn
    BY <1>2, <1>3
  <2> QED BY <1>2, <2>1, SubSeqProperties DEF Under, Front
<1> QED BY <1>2, <1>3, <1>4, <1>5 DEF Moving

TopIs(e, c, f) ==
  /\ e \in EvIn /\ e[c] # <<>>
  /\ \A d \in Threads, i \in Nat :
       Moving(e)[d][i] = IF d = c /\ i = Len(ev[c]) THEN f.area.rep ELSE Moving(ev)[d][i]

LEMMA NewTop ==
  ASSUME ev \in EvIn, NEW c \in Threads, ev[c] # <<>>,
         NEW f \in FrameIn, NEW g \in FrameIn, g.area = NoArea,
         NEW s, s = Append(Under(c), f) \/ s = Under(c) \o <<f, g>>
  PROVE  /\ TopIs([ev EXCEPT ![c] = s], c, f)
         /\ s = Append(Under(c), f) => Last([ev EXCEPT ![c] = s][c]) = f
<1> DEFINE e == [ev EXCEPT ![c] = s]
<1>1. StackFacts(ev[c], f, g)
  BY StackTop DEF EvIn
<1>2. Under(c) \in Seq(FrameIn)
  BY TopType
<1>3. s \in Seq(FrameIn)
  <2>1. Append(Under(c), f) \in Seq(FrameIn)
    BY <1>2, AppendProperties
  <2>2. <<f, g>> \in Seq(FrameIn)
    OBVIOUS
  <2>3. Under(c) \o <<f, g>> \in Seq(FrameIn)
    BY <1>2, <2>2, ConcatProperties
  <2> QED BY <2>1, <2>3
<1>4. e \in EvIn /\ \A d \in Threads : e[d] = IF d = c THEN s ELSE ev[d]
  BY <1>3 DEF EvIn
<1> SUFFICES TopIs(e, c, f) /\ (s = Append(Under(c), f) => Last(e[c]) = f)
  BY DEF e
<1> HIDE DEF e
<1>5. NoArea.rep = NoBlk
  BY DEF NoArea, Area
<1> DEFINE n == Len(ev[c])
<1>6. n \in Nat /\ n >= 1 /\ DOMAIN ev[c] = 1 .. n
  BY <1>1 DEF StackFacts
<1>7. /\ \A i \in Nat :
           /\ Moving(ev)[c][i] = IF i \in DOMAIN ev[c] THEN ev[c][i].area.rep ELSE NoBlk
           /\ Moving(e)[c][i] = IF i \in DOMAIN e[c] THEN e[c][i].area.rep ELSE NoBlk
      /\ \A d \in Threads, i \in Nat : d # c => Moving(e)[d][i] = Moving(ev)[d][i]
  BY <1>4 DEF Moving
<1>8. e[c] = s
  BY <1>4
<1>9. CASE s = Append(Under(c), f)
  <2>1. /\ DOMAIN s = 1 .. n /\ s[n] = f
        /\ \A i \in 1 .. (n - 1) : s[i] = ev[c][i]
    BY <1>1, <1>9 DEF StackFacts, Under
  <2> HIDE DEF n
  <2>2. Len(s) = n
    BY <1>3, <1>6, <2>1, LenProperties
  <2>3. s # <<>> /\ Last(s) = f
    BY <1>3, <1>6, <2>1, <2>2, EmptySeq DEF Last
  <2>4. ASSUME NEW i \in Nat
        PROVE  Moving(e)[c][i] = IF i = n THEN f.area.rep ELSE Moving(ev)[c][i]
    <3>1. Moving(e)[c][i] = IF i \in 1 .. n THEN s[i].area.rep ELSE NoBlk
      BY <1>7, <1>8, <2>1
    <3>2. Moving(ev)[c][i] = IF i \in 1 .. n THEN ev[c][i].area.rep ELSE NoBlk
      BY <1>6, <1>7
    <3>3. i = n => i \in 1 .. n
      BY <1>6
    <3>4. i \in 1 .. n => i = n \/ i \in 1 .. (n - 1)
      BY <1>6
    <3> QED BY <2>1, <3>1, <3>2, <3>3, <3>4
  <2>5. \A d \in Threads, i \in Nat :
          Moving(e)[d][i] = IF d = c /\ i = n THEN f.area.rep ELSE Moving(ev)[d][i]
    BY <1>7, <2>4
  <2> QED BY <1>4, <2>3, <2>5 DEF TopIs, n
<1>10. CASE s # Append(Under(c), f) /\ s = Under(c) \o <<f, g>>
  <2>1. /\ DOMAIN s = 1 .. (n + 1) /\ s[n] = f /\ s[n + 1] = g
        /\ \A i \in 1 .. (n - 1) : s[i] = ev[c][i]
    BY <1>1, <1>10 DEF StackFacts, Under
  <2> HIDE DEF n
  <2>2. s # <<>>
    BY <1>6, <2>1
  <2>3. ASSUME NEW i \in Nat
        PROVE  Moving(e)[c][i] = IF i = n THEN f.area.rep ELSE Moving(ev)[c][i]
    <3>1. Moving(e)[c][i] = IF i \in 1 .. (n + 1) THEN s[i].area.rep ELSE NoBlk
      BY <1>7, <1>8, <2>1
    <3>2. Moving(ev)[c][i] = IF i \in 1 .. n THEN ev[c][i].area.rep ELSE NoBlk
      BY <1>6, <1>7
    <3>3. i = n => i \in 1 .. (n + 1)
      BY <1>6
    <3>4. i \in 1 .. (n + 1) => i = n \/ i = n + 1 \/ i \in 1 .. (n - 1)
      BY <1>6
    <3>5. (i \in 1 .. (n - 1) => i \in 1 .. n) /\ (i \in 1 .. n => i \in 1 .. (n + 1))
      BY <1>6
    <3>6. i = n + 1 => i \notin 1 .. n /\ i # n
      BY <1>6
    <3> QED BY <1>5, <2>1, <3>1, <3>2, <3>3, <3>4, <3>5, <3>6
  <2>4. \A d \in Threads, i \in Nat :
          Moving(e)[d][i] = IF d = c /\ i = n THEN f.area.rep ELSE Moving(ev)[d][i]
    BY <1>7, <2>3
  <2> QED BY <1>4, <1>10, <2>2, <2>4 DEF TopIs, n
<1> QED BY <1>9, <1>10

LEMMA EndTop ==
  ASSUME ev \in EvIn, NEW c \in Threads, ev[c] # <<>>, Top(c).area = NoArea,
         NEW e, e = [ev EXCEPT ![c] = Under(c)]
  PROVE  e \in EvIn /\ Moving(e) = Moving(ev)
<1>1. \A f \in FrameIn : StackFacts(ev[c], f, f)
  BY StackTop DEF EvIn
<1>2. Under(c) \in Seq(FrameIn) /\ Top(c) \in FrameIn
  BY TopType
<1>3. e \in EvIn /\ \A d \in Threads : e[d] = IF d = c THEN Under(c) ELSE ev[d]
  BY <1>2 DEF EvIn
<1> DEFINE n == Len(ev[c])
<1>4. /\ n \in Nat /\ n >= 1 /\ DOMAIN ev[c] = 1 .. n /\ Top(c) = ev[c][n]
      /\ DOMAIN Under(c) = 1 .. (n - 1)
      /\ \A i \in 1 .. (n - 1) : Under(c)[i] = ev[c][i]
  BY <1>1, <1>2 DEF StackFacts, Under, Top
<1> HIDE DEF n
<1>5. NoArea.rep = NoBlk
  BY DEF NoArea, Area
<1>6. \A i \in Nat : i \in DOMAIN ev[c] <=> i \in DOMAIN Under(c) \/ i = n
  BY <1>4
<1>7. n \notin DOMAIN Under(c)
  BY <1>4
<1>8. Moving(e) = Moving(ev)
  BY <1>3, <1>4, <1>5, <1>6, <1>7 DEF Moving
<1> QED BY <1>3, <1>8

-----------------------------------------------------------------------------
(* The types, by the parts of the state that the actions share.            *)
SpaceIn ==
  /\ avail \in [Tiers -> SUBSET Block] /\ pri \in PriIn
  /\ repTree \subseteq AreaIn /\ bits \subseteq Block

ThreadIn ==
  /\ pc \in [Threads -> Asleep \union {"search", "alloc", "issue", "evict"}]
  /\ bio \in [Threads -> [blk : Block, write : BOOLEAN] \union {NoBio}]
  /\ ev \in EvIn
  /\ at \in [Threads -> Block \union {NoBlk}]

DataIn ==
  /\ buf \in [Threads -> Block \union {NoData}]
  /\ disk \in [Block -> Block \union {NoData}]
  /\ written \subseteq Block /\ raced \subseteq Block

RestIn ==
  /\ fault \in {"none", "popEmpty", "unlinked", "noAvail", "rbRoot"}
  /\ deferred \in Deferrals /\ foreign \in BOOLEAN

IInv == SpaceIn /\ ThreadIn /\ DataIn /\ RestIn /\ Busy /\ Space

LEMMA InitIInv == Init => IInv
<1> SUFFICES ASSUME Init PROVE IInv
  OBVIOUS
<1>1. SpaceIn
  <2>1. <<>> \in Seq(AreaIn)
    OBVIOUS
  <2> QED BY <2>1, Geometry DEF Init, SpaceIn, PriIn
<1>2. ThreadIn
  <2>1. <<>> \in Seq(FrameIn)
    OBVIOUS
  <2> QED BY <2>1 DEF Init, ThreadIn, EvIn, Asleep
<1>3. DataIn /\ RestIn
  BY DEF Init, DataIn, RestIn
<1>4. Busy
  BY DEF Init, Busy, Has, Sleeps
<1>5. \A t \in Tiers : pri[t] = <<>> /\ Range(pri[t]) = {}
  BY DEF Init, Range
<1>6. Lined(pri, repTree)
  BY <1>5 DEF Lined, IsInjective, Init
<1>7. \A t \in Tiers : Filed(pri)[t] = {}
  BY <1>5 DEF Filed
<1>8. \A c \in Threads, i \in Nat : Moving(ev)[c][i] = NoBlk
  BY DEF Moving, Init
<1>9. FreeOnce(avail) /\ \A p \in Block : \E t \in Tiers : p \in avail[t]
  BY OneGroup DEF Init, FreeOnce
<1>10. FreeOrMoving(avail, Moving(ev)) /\ MovingOnce(Moving(ev))
  BY <1>8, NoBlkOutside, Geometry DEF FreeOrMoving, MovingOnce, Init
<1>11. Partition(avail, Filed(pri), Moving(ev))
  BY <1>7, <1>9, <1>10 DEF Partition, ListedOnce, FreeOrListed, ListedOrMoving, Covered
<1> QED BY <1>1, <1>2, <1>3, <1>4, <1>6, <1>11 DEF IInv, Space

-----------------------------------------------------------------------------
(* What a step of one thread leaves alone.                                 *)
LEMMA OthersKept ==
  ASSUME Busy, ThreadIn, ThreadIn', NEW c \in Threads, Has(c)',
         \A d \in Threads \ {c} :
           pc'[d] = pc[d] /\ bio'[d] = bio[d] /\ ev'[d] = ev[d] /\ at'[d] = at[d]
  PROVE  Busy'
<1> SUFFICES ASSUME NEW d \in Threads, d # c PROVE Has(d)'
  BY DEF Busy
<1> QED BY DEF Busy, Has, Top

LEMMA SameSpace ==
  ASSUME Space, UNCHANGED <<avail, pri, repTree>>, Moving(ev') = Moving(ev)
  PROVE  Space'
BY DEF Space, Lined

(* The steps that leave the lists, the tree and the free blocks alone.     *)
LEMMA SubmitStep ==
  ASSUME IInv, NEW c \in Threads, Submit(c), UNCHANGED deferred
  PROVE  IInv'
<1> USE DEF IInv
<1>1. PICK r \in Requests : bio' = [bio EXCEPT ![c] = r]
  BY DEF Submit
<1>2. SpaceIn' /\ DataIn' /\ RestIn'
  BY DEF Submit, space, ghost, SpaceIn, DataIn, RestIn
<1>3. ThreadIn'
  BY <1>1, DemotionAssumption DEF Submit, Goes, ThreadIn
<1>4. Has(c)'
  BY <1>1, DemotionAssumption DEF Submit, Now, Goes, ThreadIn, Busy, Has, Sleeps
<1>5. Busy'
  BY <1>1, <1>3, <1>4, OthersKept DEF Submit, Goes, ThreadIn
<1>6. Space'
  BY SameSpace DEF Submit, space
<1> QED BY <1>2, <1>3, <1>5, <1>6

LEMMA EvictStep ==
  ASSUME IInv, NEW c \in Threads, Evict(c), UNCHANGED deferred
  PROVE  IInv'
<1> USE DEF IInv
<1>1. PICK n \in Evictions : ev' = [ev EXCEPT ![c] = <<Frame(0, n)>>]
  BY DEF Evict
<1>2. SpaceIn' /\ DataIn' /\ RestIn'
  BY DEF Evict, space, ghost, SpaceIn, DataIn, RestIn
<1>3. ev' \in EvIn /\ ev'[c] # <<>> /\ Moving(ev') = Moving(ev)
  <2>1. ev[c] = <<>> /\ n \in Int
    BY DemotionAssumption DEF Evict, Now, Busy, Has
  <2> QED BY <1>1, <2>1, NewStack DEF ThreadIn
<1>4. ThreadIn'
  BY <1>3 DEF Evict, Goes, ThreadIn
<1>5. Has(c)'
  BY <1>3 DEF Evict, Goes, ThreadIn, Has, Sleeps
<1>6. Busy'
  BY <1>1, <1>4, <1>5, OthersKept DEF Evict, Goes, ThreadIn, EvIn
<1>7. Space'
  BY <1>3, SameSpace DEF Evict, space
<1> QED BY <1>2, <1>4, <1>6, <1>7

LEMMA MakeRoomStep ==
  ASSUME IInv, NEW c \in Threads, MakeRoom(c), UNCHANGED deferred
  PROVE  IInv'
<1> USE DEF IInv
<1> DEFINE n == -AreaFree(0, 1)
<1>1. SpaceIn' /\ DataIn' /\ RestIn'
  BY DEF MakeRoom, space, ghost, SpaceIn, DataIn, RestIn
<1>2. ev[c] = <<>> /\ bio[c].blk \in Block
  BY DEF MakeRoom, Now, Busy, Has
<1>3. n \in Int
  BY AreaFreeType DEF Tiers
<1> HIDE DEF n
<1>4. \/ ev' = [ev EXCEPT ![c] = <<Frame(0, n)>>] /\ pc' = [pc EXCEPT ![c] = "evict"]
      \/ ev' = ev /\ pc' = [pc EXCEPT ![c] = "alloc"]
  BY DEF MakeRoom, Goes, n
<1>5. /\ ev' \in EvIn /\ Moving(ev') = Moving(ev)
      /\ pc'[c] = "evict" => ev'[c] # <<>>
      /\ pc'[c] # "evict" => ev'[c] = <<>>
  <2>1. CASE ev' = [ev EXCEPT ![c] = <<Frame(0, n)>>] /\ pc' = [pc EXCEPT ![c] = "evict"]
    BY <1>2, <1>3, <2>1, NewStack DEF ThreadIn
  <2>2. CASE ev' = ev /\ pc' = [pc EXCEPT ![c] = "alloc"]
    BY <1>2, <2>2 DEF ThreadIn
  <2> QED BY <1>4, <2>1, <2>2
<1>6. ThreadIn'
  BY <1>4, <1>5 DEF MakeRoom, ThreadIn
<1>7. Has(c)'
  BY <1>2, <1>4, <1>5 DEF MakeRoom, ThreadIn, Has, Sleeps
<1>8. Busy'
  BY <1>4, <1>6, <1>7, OthersKept DEF MakeRoom, ThreadIn, EvIn
<1>9. Space'
  BY <1>5, SameSpace DEF MakeRoom, space
<1> QED BY <1>1, <1>6, <1>8, <1>9

LEMMA IssueStep ==
  ASSUME IInv, NEW c \in Threads, Issue(c), UNCHANGED deferred
  PROVE  IInv'
<1> USE DEF IInv
<1>1. PICK n \in At(bio[c].blk) : at' = [at EXCEPT ![c] = n.rep]
  BY DEF Issue
<1>2. n.rep \in Block
  BY DEF At, SpaceIn, AreaIn
<1>3. SpaceIn' /\ DataIn' /\ RestIn'
  BY DEF Issue, space, ghost, SpaceIn, DataIn, RestIn
<1>4. ThreadIn'
  BY <1>1, <1>2 DEF Issue, Goes, ThreadIn, Asleep
<1>5. Has(c)'
  BY <1>1, <1>2 DEF Issue, Now, Goes, ThreadIn, Busy, Has, Sleeps
<1>6. Busy'
  BY <1>1, <1>4, <1>5, OthersKept DEF Issue, Goes, ThreadIn
<1>7. Space'
  BY SameSpace DEF Issue, space
<1> QED BY <1>3, <1>4, <1>6, <1>7

LEMMA WriteOutStep ==
  ASSUME IInv, NEW c \in Threads, WriteOut(c), UNCHANGED deferred
  PROVE  IInv'
<1> USE DEF IInv
<1>1. SpaceIn' /\ DataIn' /\ RestIn'
  BY DEF WriteOut, space, ghost, SpaceIn, DataIn, RestIn
<1>2. ThreadIn'
  BY DEF WriteOut, Goes, ThreadIn, Asleep
<1>3. Has(c)'
  BY DEF WriteOut, Now, Goes, ThreadIn, Busy, Has, Sleeps, Top
<1>4. Busy'
  BY <1>2, <1>3, OthersKept DEF WriteOut, Goes, ThreadIn
<1>5. Space'
  BY SameSpace DEF WriteOut, space
<1> QED BY <1>1, <1>2, <1>4, <1>5

LEMMA EvictedStep ==
  ASSUME IInv, NEW c \in Threads, Evicted(c), UNCHANGED deferred
  PROVE  IInv'
<1> USE DEF IInv
<1>1. SpaceIn' /\ DataIn' /\ RestIn'
  BY DEF Evicted, space, ghost, SpaceIn, DataIn, RestIn
<1>2. ev[c] # <<>> /\ Top(c).area = NoArea /\ ev' = [ev EXCEPT ![c] = Under(c)]
  BY DEF Evicted, Now, Busy, Has
<1>3. ev' \in EvIn /\ Moving(ev') = Moving(ev) /\ ev'[c] = Under(c)
  BY <1>2, EndTop DEF ThreadIn, EvIn
<1>4. ThreadIn'
  BY <1>3 DEF Evicted, Goes, ThreadIn, Asleep
<1>5. Inside(c) => bio[c].blk \in Block
  BY DEF Inside, ThreadIn
<1>6. pc'[c] = IF ev'[c] # <<>> THEN "evict" ELSE IF Inside(c) THEN "alloc" ELSE "idle"
  BY <1>3 DEF Evicted, Goes, ThreadIn
<1>7. Has(c)'
  BY <1>5, <1>6 DEF Evicted, Has, Sleeps
<1>8. Busy'
  BY <1>2, <1>4, <1>7, OthersKept DEF Evicted, Goes, ThreadIn, EvIn
<1>9. Space'
  BY <1>3, SameSpace DEF Evicted, space
<1> QED BY <1>1, <1>4, <1>8, <1>9

(* A copy or a bio strikes blocks only.                                    *)
LEMMA StrikesBlocks ==
  ASSUME IInv, NEW p, NEW l
  PROVE  Strikes(p, l) \subseteq Block
<1> DEFINE read == { Top(c).area : c \in { c \in Threads : pc[c] = "read" } }
<1>1. AllListed \subseteq AreaIn
  BY RangeOfSeq DEF AllListed, Listed, IInv, SpaceIn, PriIn
<1>2. InTransit \subseteq AreaIn
  <2> SUFFICES ASSUME NEW c \in Threads, NEW f \in Range(ev[c]), f.area # NoArea
               PROVE  f.area \in AreaIn
    BY DEF InTransit
  <2>1. f \in FrameIn
    BY RangeOfSeq DEF IInv, ThreadIn, EvIn
  <2> QED BY <2>1 DEF FrameIn
<1>3. read \subseteq AreaIn
  <2> SUFFICES ASSUME NEW c \in Threads, pc[c] = "read"
               PROVE  Top(c).area \in AreaIn
    OBVIOUS
  <2>1. ev[c] # <<>> /\ Top(c).area # NoArea
    BY DEF IInv, Busy, Has, Sleeps
  <2>2. Top(c) \in FrameIn
    BY <2>1, TopType DEF IInv, ThreadIn
  <2> QED BY <2>1, <2>2 DEF FrameIn
<1> QED BY <1>1, <1>2, <1>3 DEF Strikes, AreaIn

LEMMA BioLandsStep ==
  ASSUME IInv, NEW c \in Threads, BioLands(c), UNCHANGED deferred
  PROVE  IInv'
<1> USE DEF IInv
<1>1. bio[c].blk \in Block /\ at[c] \in Block /\ ev[c] = <<>>
  BY DEF BioLands, Busy, Has
<1>2. SpaceIn' /\ RestIn'
  BY DEF BioLands, space, SpaceIn, RestIn
<1>3. DataIn'
  <2>1. CASE bio[c].write
    BY <1>1, <2>1, StrikesBlocks DEF BioLands, DataIn
  <2>2. CASE ~ bio[c].write
    BY <2>2 DEF BioLands, DataIn
  <2> QED BY <2>1, <2>2
<1>4. ThreadIn'
  BY DEF BioLands, Goes, ThreadIn, Asleep
<1>5. Has(c)'
  BY <1>1 DEF BioLands, Goes, ThreadIn, Has, Sleeps
<1>6. Busy'
  BY <1>4, <1>5, OthersKept DEF BioLands, Goes, ThreadIn
<1>7. Space'
  BY SameSpace DEF BioLands, space
<1> QED BY <1>2, <1>3, <1>4, <1>6, <1>7

LEMMA ReadLandsStep ==
  ASSUME IInv, NEW c \in Threads, ReadLands(c), UNCHANGED deferred
  PROVE  IInv'
<1> USE DEF IInv
<1>1. ev[c] # <<>> /\ Top(c).area # NoArea /\ Top(c).dst \in Block
  BY DEF ReadLands, Busy, Has, Sleeps
<1>2. Top(c).area.rep \in Block
  BY <1>1, TopType DEF ThreadIn, FrameIn, AreaIn
<1>3. SpaceIn' /\ DataIn' /\ RestIn'
  BY <1>2 DEF ReadLands, space, ghost, SpaceIn, DataIn, RestIn
<1>4. pc' = [pc EXCEPT ![c] = "readDone"]
  BY DEF ReadLands, Goes, Woken
<1>5. ThreadIn'
  BY <1>4 DEF ReadLands, ThreadIn, Asleep
<1>6. Has(c)'
  BY <1>1, <1>4 DEF ReadLands, ThreadIn, Has, Sleeps, Top
<1>7. Busy'
  BY <1>4, <1>5, <1>6, OthersKept DEF ReadLands, ThreadIn
<1>8. Space'
  BY SameSpace DEF ReadLands, space
<1> QED BY <1>3, <1>5, <1>7, <1>8

LEMMA WriteLandsStep ==
  ASSUME IInv, NEW c \in Threads, WriteLands(c), UNCHANGED deferred
  PROVE  IInv'
<1> USE DEF IInv
<1>1. ev[c] # <<>> /\ Top(c).area # NoArea /\ Top(c).dst \in Block
  BY DEF WriteLands, Busy, Has, Sleeps
<1>2. SpaceIn' /\ DataIn' /\ RestIn'
  BY <1>1, StrikesBlocks DEF WriteLands, space, SpaceIn, DataIn, RestIn
<1>3. pc' = [pc EXCEPT ![c] = "writeDone"]
  BY DEF WriteLands, Goes, Woken
<1>4. ThreadIn'
  BY <1>3 DEF WriteLands, ThreadIn, Asleep
<1>5. Has(c)'
  BY <1>1, <1>3 DEF WriteLands, ThreadIn, Has, Sleeps, Top
<1>6. Busy'
  BY <1>3, <1>4, <1>5, OthersKept DEF WriteLands, ThreadIn
<1>7. Space'
  BY SameSpace DEF WriteLands, space
<1> QED BY <1>2, <1>4, <1>6, <1>7

(* The machine stops, or has stopped.                                      *)
LEMMA StopStep ==
  ASSUME IInv, UNCHANGED deferred, NEW c \in Threads,
         PopEmpty(c) \/ PopUnlinked(c) \/ NoAvail(c) \/ EraseRoot(c) \/ DeleteRoot(c)
  PROVE  IInv'
<1> USE DEF IInv
<1>1. UNCHANGED <<space, thread, disk, written, raced>>
  BY DEF PopEmpty, PopUnlinked, NoAvail, EraseRoot, DeleteRoot, Stop, ghost
<1>2. RestIn'
  BY DEF PopEmpty, PopUnlinked, NoAvail, EraseRoot, DeleteRoot, Stop, ghost, RestIn
<1>3. SpaceIn' /\ ThreadIn' /\ DataIn'
  BY <1>1 DEF space, thread, SpaceIn, ThreadIn, DataIn
<1>4. Busy'
  BY <1>1 DEF thread, Busy, Has, Top
<1>5. Space'
  BY <1>1, SameSpace DEF space, thread
<1> QED BY <1>2, <1>3, <1>4, <1>5

LEMMA StutterStep ==
  ASSUME IInv, UNCHANGED vars
  PROVE  IInv'
<1>1. SpaceIn' /\ ThreadIn' /\ DataIn' /\ RestIn'
  BY DEF vars, space, thread, ghost, IInv, SpaceIn, ThreadIn, DataIn, RestIn
<1>2. Busy'
  BY DEF vars, thread, IInv, Busy, Has, Top
<1>3. Space'
  BY SameSpace DEF vars, space, thread, IInv
<1> QED BY <1>1, <1>2, <1>3 DEF IInv

-----------------------------------------------------------------------------
(* The steps that change them.                                             *)
LEMMA SpaceFacts ==
  ASSUME IInv
  PROVE  /\ Partition(avail, Filed(pri), Moving(ev)) /\ Within(avail, Filed(pri))
         /\ pri \in PriIn /\ \A t \in Tiers : IsInjective(pri[t])
         /\ \A n \in repTree : \E t \in Tiers : n \in Filed(pri)[t]
         /\ \A t \in Tiers : Filed(pri)[t] \subseteq AreaIn
BY FamiliesWithin DEF IInv, SpaceIn, Space, Lined

LEMMA TouchStep ==
  ASSUME IInv, NEW c \in Threads, Touch(c), UNCHANGED deferred
  PROVE  IInv'
<1> USE DEF IInv
<1>1. PICK n \in At(bio[c].blk) :
        /\ pri' = PriInsert(PriExtract(pri, n), 0, n)
        /\ foreign' = (foreign \/ Stray(n))
  BY DEF Touch
<1> DEFINE q == PriExtract(pri, n)
<1>2. n \in repTree /\ n \in AreaIn /\ 0 \in Tiers
  BY DEF At, SpaceIn, Tiers
<1>3. /\ q \in PriIn
      /\ \A t \in Tiers : IsInjective(q[t]) /\ Filed(q)[t] = Filed(pri)[t] \ {n}
  BY SpaceFacts, ExtractLists
<1> HIDE DEF q
<1>4. pri' = PriInsert(q, 0, n)
  BY <1>1 DEF q
<1>5. /\ pri' \in PriIn
      /\ \A t \in Tiers :
           /\ IsInjective(pri'[t])
           /\ Filed(pri')[t] = IF t = 0 THEN Filed(q)[0] \union {n} ELSE Filed(q)[t]
  <2>1. n \notin Filed(q)[0]
    BY <1>2, <1>3
  <2>2. q \in PriIn /\ \A t \in Tiers : IsInjective(q[t])
    BY <1>3
  <2>3. /\ PriInsert(q, 0, n) \in PriIn
        /\ \A t \in Tiers :
             /\ IsInjective(PriInsert(q, 0, n)[t])
             /\ Filed(PriInsert(q, 0, n))[t]
                  = IF t = 0 THEN Filed(q)[0] \union {n} ELSE Filed(q)[t]
    BY <1>2, <2>1, <2>2, InsertLists
  <2> QED BY <1>4, <2>3
<1>6. \A t \in Tiers :
        Filed(pri')[t] = IF t = 0 THEN Filed(pri)[0] \union {n} ELSE Filed(pri)[t] \ {n}
  BY <1>2, <1>3, <1>5
<1>7. PICK t \in Tiers : n \in Filed(pri)[t]
  BY <1>2, SpaceFacts
<1>8. Partition(avail, Filed(pri'), Moving(ev))
  BY ZenonT(60), <1>2, <1>6, <1>7, SpaceFacts, Refile
<1>9. Lined(pri', repTree)
  BY <1>2, <1>5, <1>6, SpaceFacts DEF Lined
<1>10. Space'
  BY <1>8, <1>9 DEF Touch, Space
<1>11. SpaceIn' /\ DataIn' /\ RestIn'
  BY <1>1, <1>5 DEF Touch, SpaceIn, DataIn, RestIn
<1>12. ThreadIn'
  BY DEF Touch, Goes, ThreadIn
<1>13. Has(c)'
  BY DEF Touch, Now, Goes, ThreadIn, Busy, Has, Sleeps
<1>14. Busy'
  BY <1>12, <1>13, OthersKept DEF Touch, Goes, ThreadIn
<1> QED BY <1>10, <1>11, <1>12, <1>14

LEMMA AllocStep ==
  ASSUME IInv, NEW c \in Threads, Alloc(c), UNCHANGED deferred
  PROVE  IInv'
<1> USE DEF IInv
<1> DEFINE N(p) == Area(bio[c].blk, p)
<1>1. PICK p \in Free(0) :
        /\ avail' = [avail EXCEPT ![0] = @ \ {p}]
        /\ bits' = bits \union {p}
        /\ pri' = PriInsert(pri, 0, N(p))
        /\ repTree' = RepInsert(repTree, N(p))
        /\ raced' = IF Loose(N(p).ori) THEN raced \union {N(p).ori} ELSE raced
  BY DEF Alloc
<1> DEFINE n == N(p)
<1>2. bio[c].blk \in Block /\ ev[c] = <<>>
  BY DEF Alloc, Now, Busy, Has
<1>3. 0 \in Tiers /\ p \in avail[0] /\ p \in Block
  BY FreeType DEF Tiers, SpaceIn
<1>4. n \in AreaIn /\ n.rep = p /\ n.ori = bio[c].blk
  BY <1>2, <1>3 DEF Area, AreaIn
<1> HIDE DEF N
<1>5. n \notin Filed(pri)[0]
  BY <1>3, <1>4, SpaceFacts DEF Partition, FreeOrListed
<1>6. /\ pri' \in PriIn
      /\ \A t \in Tiers :
           /\ IsInjective(pri'[t])
           /\ Filed(pri')[t] = IF t = 0 THEN Filed(pri)[0] \union {n} ELSE Filed(pri)[t]
  <2>1. /\ PriInsert(pri, 0, n) \in PriIn
        /\ \A t \in Tiers :
             /\ IsInjective(PriInsert(pri, 0, n)[t])
             /\ Filed(PriInsert(pri, 0, n))[t]
                  = IF t = 0 THEN Filed(pri)[0] \union {n} ELSE Filed(pri)[t]
    BY ZenonT(60), <1>3, <1>4, <1>5, SpaceFacts, InsertLists
  <2> QED BY <1>1, <2>1
<1>7. \A t \in Tiers : avail'[t] = IF t = 0 THEN avail[0] \ {n.rep} ELSE avail[t]
  BY <1>1, <1>4 DEF SpaceIn
<1>8. Partition(avail', Filed(pri'), Moving(ev))
  BY SMTT(60), <1>3, <1>4, <1>6, <1>7, SpaceFacts, FreeToListed
<1>9. Lined(pri', repTree')
  BY <1>1, <1>3, <1>6, SpaceFacts, TreeOf DEF Lined
<1>10. Space'
  BY <1>8, <1>9 DEF Alloc, Space
<1>11. SpaceIn'
  BY <1>1, <1>3, <1>4, <1>6, TreeOf DEF SpaceIn
<1>12. DataIn' /\ RestIn'
  BY <1>1, <1>2, <1>4 DEF Alloc, DataIn, RestIn
<1>13. ThreadIn'
  BY DEF Alloc, Goes, ThreadIn
<1>14. Has(c)'
  BY <1>2 DEF Alloc, Goes, ThreadIn, Has, Sleeps
<1>15. Busy'
  BY <1>13, <1>14, OthersKept DEF Alloc, Goes, ThreadIn
<1> QED BY <1>10, <1>11, <1>12, <1>13, <1>15

LEMMA DeleteStep ==
  ASSUME IInv, NEW c \in Threads, Delete(c), UNCHANGED deferred
  PROVE  IInv'
<1> USE DEF IInv
<1> DEFINE Erased(l, n) ==
        /\ pri' = PriExtract(pri, n)
        /\ repTree' = repTree \ {n}
        /\ bits' = bits \ {n.rep}
        /\ avail' = [avail EXCEPT ![0] = @ \union {n.rep}]
        /\ disk' = [p \in Block |-> IF disk[p] = l THEN NoData ELSE disk[p]]
        /\ buf' = [d \in Threads |-> IF buf[d] = l THEN NoData ELSE buf[d]]
        /\ written' = written \ {l}
        /\ foreign' = (foreign \/ Stray(n))
<1>0. PICK l \in Deletes : \E n \in At(l) : Erased(l, n)
  BY DEF Delete
<1>1. PICK n \in At(l) : Erased(l, n)
  BY <1>0
<1>2. n \in repTree /\ n \in AreaIn /\ n.rep \in Block /\ 0 \in Tiers
  BY DEF At, SpaceIn, AreaIn, Tiers
<1>3. /\ pri' \in PriIn
      /\ \A t \in Tiers : IsInjective(pri'[t]) /\ Filed(pri')[t] = Filed(pri)[t] \ {n}
  BY <1>1, SpaceFacts, ExtractLists
<1>4. PICK t \in Tiers : n \in Filed(pri)[t]
  BY <1>2, SpaceFacts
<1>5. \A u \in Tiers : avail'[u] = IF u = 0 THEN avail[0] \union {n.rep} ELSE avail[u]
  BY <1>1 DEF SpaceIn
<1>6. Partition(avail', Filed(pri'), Moving(ev))
  BY <1>2, <1>3, <1>4, <1>5, SpaceFacts, ListedToFree
<1>7. Lined(pri', repTree')
  BY <1>1, <1>3, SpaceFacts DEF Lined
<1>8. Space'
  BY <1>6, <1>7 DEF Delete, Space
<1>9. SpaceIn'
  BY <1>1, <1>2, <1>3 DEF SpaceIn
<1>10. DataIn' /\ RestIn'
  BY <1>1 DEF Delete, DataIn, RestIn
<1>11. ThreadIn' /\ Busy'
  BY DEF Delete, ThreadIn, Busy, Has, Top
<1> QED BY <1>8, <1>9, <1>10, <1>11

LEMMA PopStep ==
  ASSUME IInv, NEW c \in Threads, Pop(c), UNCHANGED deferred
  PROVE  IInv'
<1> USE DEF IInv
<1> DEFINE t == Top(c).src
           v == Victim(c)
           f == [Top(c) EXCEPT !.area = v, !.want = @ - 1]
           k == -AreaFree(1, 1)
           g == Frame(1, k)
           s == IF t = 0 /\ AreaFree(1, 1) < 0
                THEN Under(c) \o <<f, g>> ELSE Append(Under(c), f)
<1>1. /\ pri' = PriExtract(pri, v) /\ repTree' = repTree \ {v}
      /\ ev' = [ev EXCEPT ![c] = s] /\ pri[t] # <<>>
      /\ pc[c] = "evict" /\ Top(c).area = NoArea
  BY DEF Pop, Popping, Now
<1>2. ev[c] # <<>> /\ Top(c) \in FrameIn /\ Moving(ev)[c][Len(ev[c])] = NoBlk
      /\ Len(ev[c]) \in Nat
  BY <1>1, TopType DEF Busy, Has, ThreadIn, NoArea, Area
<1>3. t \in Tiers /\ v \in Filed(pri)[t]
  <2>1. t \in Tiers
    BY <1>2 DEF FrameIn, Tiers
  <2>2. pri[t] \in Seq(AreaIn)
    BY <2>1 DEF SpaceIn, PriIn
  <2>3. v = pri[t][Len(pri[t])] /\ Len(pri[t]) \in DOMAIN pri[t]
    BY <1>1, <2>2, EmptySeq, LenProperties DEF Victim, Last
  <2> QED BY <2>1, <2>3 DEF Filed, Range
<1>4. v \in AreaIn /\ v.rep \in Block
  BY <1>3, SpaceFacts DEF AreaIn
<1>5. f \in FrameIn /\ f.area = v
  BY <1>2, <1>4, FrameChanges
<1>6. g \in FrameIn /\ g.area = NoArea
  <2>1. k \in Int
    BY AreaFreeType DEF Tiers
  <2> QED BY <2>1, FrameType
<1>7. s = Append(Under(c), f) \/ s = Under(c) \o <<f, g>>
  OBVIOUS
<1> HIDE DEF f, g, s, t, v
<1>8. /\ ev' \in EvIn /\ ev'[c] # <<>>
      /\ \A d \in Threads, i \in Nat :
           Moving(ev')[d][i] = IF d = c /\ i = Len(ev[c]) THEN v.rep ELSE Moving(ev)[d][i]
  <2>1. ev \in EvIn /\ ev[c] # <<>> /\ ev' = [ev EXCEPT ![c] = s]
    BY <1>1, <1>2 DEF ThreadIn
  <2>2. TopIs([ev EXCEPT ![c] = s], c, f)
    BY <1>5, <1>6, <1>7, <2>1, NewTop
  <2> QED BY <1>5, <2>1, <2>2 DEF TopIs
<1>9. /\ pri' \in PriIn
      /\ \A u \in Tiers : IsInjective(pri'[u]) /\ Filed(pri')[u] = Filed(pri)[u] \ {v}
  BY <1>1, SpaceFacts, ExtractLists
<1>10. Partition(avail, Filed(pri'), Moving(ev'))
  BY <1>2, <1>3, <1>8, <1>9, SpaceFacts, ListedToMoving
<1>11. Lined(pri', repTree')
  BY <1>1, <1>9, SpaceFacts DEF Lined
<1>12. Space'
  BY <1>10, <1>11 DEF Pop, Space
<1>13. SpaceIn' /\ DataIn' /\ RestIn'
  BY <1>1, <1>9 DEF Pop, ghost, SpaceIn, DataIn, RestIn
<1>14. ThreadIn'
  BY <1>8 DEF Pop, ThreadIn
<1>15. Has(c)'
  BY <1>1, <1>8 DEF Pop, Has, Sleeps
<1>16. Busy'
  BY <1>1, <1>14, <1>15, OthersKept DEF Pop, ThreadIn, EvIn
<1> QED BY <1>12, <1>13, <1>14, <1>16

LEMMA PlaceStep ==
  ASSUME IInv, NEW c \in Threads, Place(c), UNCHANGED deferred
  PROVE  IInv'
<1> USE DEF IInv
<1> DEFINE t == Top(c).src
           s == Top(c).area
           N(p) == Area(s.ori, p)
           F(p) == [Top(c) EXCEPT !.dst = p]
<1>1. PICK p \in Free(t + 1) :
        /\ avail' = [avail EXCEPT ![t + 1] = @ \ {p}, ![t] = @ \union FreedAtPlace(s)]
        /\ bits' = (bits \union {p}) \ {s.rep}
        /\ pri' = PriInsert(pri, t + 1, N(p))
        /\ repTree' = RepInsert(repTree, N(p))
        /\ ev' = [ev EXCEPT ![c] = Append(Under(c), F(p))]
        /\ raced' = IF Filling(s.rep) \/ Filling(p) THEN raced \union {s.ori} ELSE raced
  BY DEF Place
<1> DEFINE n == N(p)
           f == F(p)
<1>2. ev[c] # <<>> /\ Top(c) \in FrameIn /\ s # NoArea
      /\ Moving(ev)[c][Len(ev[c])] = s.rep /\ Len(ev[c]) \in Nat
  BY TopType DEF Place, Placing, Now, Busy, Has, ThreadIn
<1>3. s \in AreaIn /\ s.ori \in Block /\ s.rep \in Block
  BY <1>2 DEF FrameIn, AreaIn
<1>4. t \in Tiers /\ t + 1 \in Tiers /\ t # t + 1
  BY <1>2 DEF FrameIn, Tiers
<1>5. p \in avail[t + 1] /\ p \in Block
  BY <1>4, FreeType DEF SpaceIn
<1>6. n \in AreaIn /\ n.rep = p
  BY <1>3, <1>5 DEF Area, AreaIn
<1>7. f \in FrameIn /\ f.area = s /\ f.dst = p
  BY <1>2, <1>3, <1>5, FrameChanges
<1>8. Frame(0, 0) \in FrameIn /\ Frame(0, 0).area = NoArea
  BY FrameType
<1> HIDE DEF N, F, s, t
<1>9. /\ ev' \in EvIn /\ ev'[c] # <<>> /\ Last(ev'[c]) = f
      /\ \A d \in Threads, i \in Nat :
           Moving(ev')[d][i] = IF d = c /\ i = Len(ev[c]) THEN s.rep ELSE Moving(ev)[d][i]
  <2> DEFINE r == Append(Under(c), f)
  <2>1. ev \in EvIn /\ ev[c] # <<>> /\ ev' = [ev EXCEPT ![c] = r]
    BY <1>1, <1>2 DEF ThreadIn
  <2>2. TopIs([ev EXCEPT ![c] = r], c, f) /\ Last([ev EXCEPT ![c] = r][c]) = f
    BY <1>7, <1>8, <2>1, NewTop
  <2> QED BY <1>7, <2>1, <2>2 DEF TopIs
<1>10. Moving(ev') = Moving(ev)
  <2>1. \A d \in Threads, i \in Nat : Moving(ev')[d][i] = Moving(ev)[d][i]
    BY <1>2, <1>9
  <2> QED BY <2>1 DEF Moving
<1>11. n \notin Filed(pri)[t + 1]
  BY <1>4, <1>5, <1>6, SpaceFacts DEF Partition, FreeOrListed
<1>12. /\ pri' \in PriIn
       /\ \A u \in Tiers :
            /\ IsInjective(pri'[u])
            /\ Filed(pri')[u]
                 = IF u = t + 1 THEN Filed(pri)[t + 1] \union {n} ELSE Filed(pri)[u]
  <2>1. /\ PriInsert(pri, t + 1, n) \in PriIn
        /\ \A u \in Tiers :
             /\ IsInjective(PriInsert(pri, t + 1, n)[u])
             /\ Filed(PriInsert(pri, t + 1, n))[u]
                  = IF u = t + 1 THEN Filed(pri)[t + 1] \union {n} ELSE Filed(pri)[u]
    BY <1>4, <1>6, <1>11, SpaceFacts, InsertLists
  <2> QED BY <1>1, <2>1
<1>13. \A u \in Tiers : avail'[u] = IF u = t + 1 THEN avail[t + 1] \ {n.rep} ELSE avail[u]
  BY <1>1, <1>4, <1>6 DEF SpaceIn, FreedAtPlace
<1>14. Partition(avail', Filed(pri'), Moving(ev))
  BY <1>4, <1>5, <1>6, <1>12, <1>13, SpaceFacts, FreeToListed
<1>15. Lined(pri', repTree')
  BY <1>1, <1>4, <1>12, SpaceFacts, TreeOf DEF Lined
<1>16. Space'
  BY <1>10, <1>14, <1>15 DEF Space
<1>17. SpaceIn'
  BY <1>1, <1>5, <1>6, <1>12, TreeOf DEF SpaceIn, FreedAtPlace
<1>18. DataIn' /\ RestIn'
  BY <1>1, <1>3 DEF Place, DataIn, RestIn
<1>19. ThreadIn'
  BY <1>9 DEF Place, Goes, ThreadIn, Asleep
<1>20. Has(c)'
  BY <1>2, <1>5, <1>7, <1>9 DEF Place, Goes, ThreadIn, Has, Sleeps, Top
<1>21. Busy'
  BY <1>1, <1>19, <1>20, OthersKept DEF Place, Goes, ThreadIn, EvIn
<1> QED BY <1>16, <1>17, <1>18, <1>19, <1>21

LEMMA GiveBackStep ==
  ASSUME IInv, NEW c \in Threads, GiveBack(c), UNCHANGED deferred
  PROVE  IInv'
<1> USE DEF IInv
<1> DEFINE t == Top(c).src
           s == Top(c).area
           f == Frame(t, Top(c).want)
<1>1. /\ avail' = [avail EXCEPT ![t] = @ \union {s.rep}]
      /\ ev' = [ev EXCEPT ![c] = Append(Under(c), f)]
  BY DEF GiveBack
<1>2. ev[c] # <<>> /\ Top(c) \in FrameIn /\ s # NoArea
      /\ Moving(ev)[c][Len(ev[c])] = s.rep /\ Len(ev[c]) \in Nat
  BY TopType DEF GiveBack, Now, Busy, Has, Sleeps, ThreadIn
<1>3. s.rep \in Block /\ t \in Tiers /\ t \in {0, 1} /\ Top(c).want \in Int
  BY <1>2 DEF FrameIn, AreaIn, Tiers
<1>4. f \in FrameIn /\ f.area = NoArea /\ f.area.rep = NoBlk
  BY <1>3, FrameType DEF NoArea, Area
<1> HIDE DEF f, s, t
<1>5. /\ ev' \in EvIn /\ ev'[c] # <<>>
      /\ \A d \in Threads, i \in Nat :
           Moving(ev')[d][i] = IF d = c /\ i = Len(ev[c]) THEN NoBlk ELSE Moving(ev)[d][i]
  <2> DEFINE r == Append(Under(c), f)
  <2>1. ev \in EvIn /\ ev[c] # <<>> /\ ev' = [ev EXCEPT ![c] = r]
    BY <1>1, <1>2 DEF ThreadIn
  <2>2. TopIs([ev EXCEPT ![c] = r], c, f)
    BY <1>4, <2>1, NewTop
  <2> QED BY <1>4, <2>1, <2>2 DEF TopIs
<1>6. \A u \in Tiers :
        avail'[u] = IF u = t THEN avail[t] \union {Moving(ev)[c][Len(ev[c])]} ELSE avail[u]
  BY <1>1, <1>2 DEF SpaceIn
<1>7. Partition(avail', Filed(pri), Moving(ev'))
  <2> DEFINE M == Moving(ev)
             i == Len(ev[c])
  <2>1. i \in Nat /\ M[c][i] \in Block /\ t \in Tiers
    BY <1>2, <1>3
  <2>2. \A u \in Tiers : avail'[u] = IF u = t THEN avail[t] \union {M[c][i]} ELSE avail[u]
    BY <1>6
  <2>3. \A d \in Threads, j \in Nat :
          Moving(ev')[d][j] = IF d = c /\ j = i THEN NoBlk ELSE M[d][j]
    BY <1>5
  <2>4. Partition(avail, Filed(pri), M) /\ Within(avail, Filed(pri))
    BY SpaceFacts
  <2> HIDE DEF M, i
  <2> QED BY <2>1, <2>2, <2>3, <2>4, MovingToFree
<1>8. Space'
  BY <1>7 DEF GiveBack, Space, Lined
<1>9. SpaceIn' /\ DataIn' /\ RestIn'
  <2>1. avail' \in [Tiers -> SUBSET Block]
    BY <1>1, <1>3 DEF SpaceIn
  <2> QED BY <2>1 DEF GiveBack, ghost, SpaceIn, DataIn, RestIn
<1>10. ThreadIn'
  BY <1>5 DEF GiveBack, Goes, ThreadIn
<1>11. Has(c)'
  BY <1>5 DEF GiveBack, Goes, ThreadIn, Has, Sleeps
<1>12. Busy'
  BY <1>1, <1>10, <1>11, OthersKept DEF GiveBack, Goes, ThreadIn, EvIn
<1> QED BY <1>8, <1>9, <1>10, <1>12

-----------------------------------------------------------------------------
LEMMA NextIInv == IInv /\ [Next]_vars => IInv'
<1> SUFFICES ASSUME IInv, [Next]_vars PROVE IInv'
  OBVIOUS
<1>1. CASE UNCHANGED vars
  BY <1>1, StutterStep
<1>2. CASE Next
  <2>1. UNCHANGED deferred
    BY <1>2 DEF Next
  <2>2. CASE Halted
    BY <2>2, StutterStep DEF Halted
  <2>3. ASSUME NEW c \in Threads,
               Submit(c) \/ Evict(c) \/ Delete(c) \/ DeleteRoot(c) \/ Run(c) \/ Land(c)
        PROVE  IInv'
    <3>1. CASE Submit(c) \/ Evict(c) \/ Delete(c) \/ DeleteRoot(c)
      BY <2>1, <3>1, SubmitStep, EvictStep, DeleteStep, StopStep
    <3>2. CASE Land(c)
      BY <2>1, <3>2, BioLandsStep, ReadLandsStep, WriteLandsStep DEF Land
    <3>3. CASE Run(c)
      BY <2>1, <3>3, TouchStep, MakeRoomStep, AllocStep, IssueStep, PopStep, PlaceStep,
         WriteOutStep, GiveBackStep, EvictedStep, StopStep DEF Run
    <3> QED BY <2>3, <3>1, <3>2, <3>3
  <2> QED BY <1>2, <2>2, <2>3 DEF Next
<1> QED BY <1>1, <1>2

(* Whatever the threads, their requests, deletes and evictions, and        *)
(* however block_area.c sleeps in them, every variable is of its type.     *)
THEOREM TypeCorrect == Spec => []TypeOK
<1>1. IInv => TypeOK
  BY DEF IInv, SpaceIn, ThreadIn, DataIn, RestIn, PriIn, EvIn, TypeOK
<1> QED BY InitIInv, NextIInv, <1>1, PTL DEF Spec

(* However many threads sleep in the middle of demotions, and whatever the *)
(* others do meanwhile, every block of the device is free in one group, or *)
(* held by one listed area, or in one loop's hands, and never in two.      *)
THEOREM SpaceIsPartitioned == Spec => []SpacePartition
<1>1. IInv => SpacePartition
  <2> SUFFICES ASSUME IInv, NEW p \in Block
               PROVE  \E u \in Users(p) : Users(p) = {u}
    BY DEF SpacePartition
  <2>1. Partition(avail, Filed(pri), Moving(ev))
    BY SpaceFacts
  <2>2. \A u : u \in Users(p) <=>
          \/ \E t \in Tiers : p \in avail[t] /\ u = <<"free", t>>
          \/ \E t \in Tiers : \E n \in Filed(pri)[t] : p = n.rep /\ u = <<"area", t, n>>
          \/ \E c \in Threads, i \in Nat : p = Moving(ev)[c][i] /\ u = <<"move", c, i>>
    <3> DEFINE U == { <<"free", t>> : t \in { t \in Tiers : p \in avail[t] } }
               V(t) == { <<"area", t, n>> : n \in { n \in Listed(t) : n.rep = p } }
               W(c) == { <<"move", c, i>> : i \in { i \in DOMAIN ev[c] : ev[c][i].area.rep = p } }
    <3>1. Users(p) = U \union (UNION { V(t) : t \in Tiers })
                       \union (UNION { W(c) : c \in Threads })
      BY Zenon DEF Users
    <3>2. \A t \in Tiers : Filed(pri)[t] = Listed(t)
      BY DEF Filed, Listed
    <3>3. \A c \in Threads, i \in Nat :
            p = Moving(ev)[c][i] <=> i \in DOMAIN ev[c] /\ ev[c][i].area.rep = p
      BY NoBlkOutside DEF Moving
    <3>4. \A c \in Threads : \A i \in DOMAIN ev[c] : i \in Nat
      <4> SUFFICES ASSUME NEW c \in Threads, NEW i \in DOMAIN ev[c] PROVE i \in Nat
        OBVIOUS
      <4>1. ev[c] \in Seq(FrameIn)
        BY DEF IInv, ThreadIn, EvIn
      <4> QED BY <4>1, LenProperties
    <3> SUFFICES ASSUME NEW u
                 PROVE  u \in Users(p) <=>
                        \/ u \in U
                        \/ \E t \in Tiers : u \in V(t)
                        \/ \E c \in Threads : u \in W(c)
      BY <3>2, <3>3, <3>4
    <3> HIDE DEF U, V, W
    <3> QED BY <3>1
  <2>3. \E u : u \in Users(p)
    BY <2>1, <2>2 DEF Partition, Covered
  <2>4. \A u, w : u \in Users(p) /\ w \in Users(p) => u = w
    BY <2>1, <2>2 DEF Partition, FreeOnce, ListedOnce, MovingOnce, FreeOrListed,
       FreeOrMoving, ListedOrMoving
  <2> QED BY <2>3, <2>4
<1> QED BY InitIInv, NextIInv, <1>1, PTL DEF Spec

-----------------------------------------------------------------------------
(* The bitmap, the groups and the loops of all threads.  A loop's area is  *)
(* marked until it has its new block; a loop that waits for its copy is    *)
(* its thread's last, so that Leaving counts each once.                    *)
Slot(e, c, i) == IF i \in DOMAIN e[c] THEN e[c][i] ELSE Frame(0, 0)

Marks(e, p) ==
  \E c \in Threads, i \in Nat : Slot(e, c, i).dst = NoBlk /\ Slot(e, c, i).area.rep = p

Marked ==
  \A p \in Block : p \in bits <=> \/ \E t \in Tiers : \E n \in Filed(pri)[t] : n.rep = p
                                  \/ Marks(ev, p)

OwnBlocks ==
  /\ \A t \in Tiers : avail[t] \subseteq TierBlocks(t)
  /\ \A t \in Tiers : \A n \in Filed(pri)[t] : n.rep \in TierBlocks(t)
  /\ \A c \in Threads, i \in Nat :
       Slot(ev, c, i).area # NoArea =>
         Slot(ev, c, i).area.rep \in TierBlocks(Slot(ev, c, i).src)

LastLeaves ==
  \A c \in Threads, i \in Nat :
    Slot(ev, c, i).dst # NoBlk => i = Len(ev[c]) /\ Slot(ev, c, i).area # NoArea

CountInv == IInv /\ Marked /\ (~ foreign => OwnBlocks) /\ LastLeaves

Idle(f) == f.area = NoArea /\ f.dst = NoBlk

LEMMA SlotFacts ==
  ASSUME ev \in EvIn
  PROVE  \A c \in Threads, i \in Nat :
           /\ Slot(ev, c, i) \in FrameIn
           /\ Moving(ev)[c][i] = Slot(ev, c, i).area.rep
           /\ ev[c] = <<>> => Idle(Slot(ev, c, i))
<1> SUFFICES ASSUME NEW c \in Threads, NEW i \in Nat
             PROVE  /\ Slot(ev, c, i) \in FrameIn
                    /\ Moving(ev)[c][i] = Slot(ev, c, i).area.rep
                    /\ ev[c] = <<>> => Idle(Slot(ev, c, i))
  OBVIOUS
<1>1. /\ Frame(0, 0) \in FrameIn /\ Frame(0, 0).area = NoArea /\ Frame(0, 0).dst = NoBlk
      /\ NoArea.rep = NoBlk
  BY FrameType DEF Frame, NoArea, Area
<1>2. /\ i \in DOMAIN ev[c] => ev[c][i] \in FrameIn
      /\ ev[c] = <<>> => i \notin DOMAIN ev[c]
  <2>1. ev[c] \in Seq(FrameIn) /\ DOMAIN ev[c] = 1 .. Len(ev[c])
    BY LenProperties DEF EvIn
  <2>2. ev[c] = <<>> => Len(ev[c]) = 0
    BY EmptySeq
  <2> QED BY <2>1, <2>2, ElementOfSeq
<1> QED BY <1>1, <1>2 DEF Slot, Moving, Idle

(* What a step does to the loops: one of them becomes f, and others begin  *)
(* or end that hold nothing.                                               *)
Changed(e, c, n, f) ==
  \A d \in Threads, i \in Nat :
    \/ d = c /\ i = n /\ Slot(e, d, i) = f
    \/ ~ (d = c /\ i = n) /\ Slot(e, d, i) = Slot(ev, d, i)
    \/ ~ (d = c /\ i = n) /\ Idle(Slot(e, d, i)) /\ Idle(Slot(ev, d, i))

Alike(e) ==
  \A d \in Threads, i \in Nat :
    \/ Slot(e, d, i) = Slot(ev, d, i)
    \/ Idle(Slot(e, d, i)) /\ Idle(Slot(ev, d, i))

TopBecomes(e, c, f) ==
  /\ Changed(e, c, Len(ev[c]), f)
  /\ Len(ev[c]) \in Nat /\ Top(c) = Slot(ev, c, Len(ev[c]))
  /\ \A d \in Threads \ {c} : e[d] = ev[d]

LEMMA TopChanged ==
  ASSUME ev \in EvIn, NEW c \in Threads, ev[c] # <<>>,
         NEW f \in FrameIn, NEW g \in FrameIn, Idle(g),
         NEW s, s = Append(Under(c), f) \/ s = Under(c) \o <<f, g>>
  PROVE  /\ TopBecomes([ev EXCEPT ![c] = s], c, f)
         /\ s = Append(Under(c), f) => Len([ev EXCEPT ![c] = s][c]) = Len(ev[c])
<1> DEFINE n == Len(ev[c])
           e == [ev EXCEPT ![c] = s]
<1> SUFFICES TopBecomes(e, c, f) /\ (s = Append(Under(c), f) => Len(e[c]) = Len(ev[c]))
  BY DEF e
<1>1. /\ n \in Nat /\ n >= 1 /\ DOMAIN ev[c] = 1 .. n /\ Top(c) = ev[c][n]
      /\ s = Append(Under(c), f) => DOMAIN s = 1 .. n
      /\ s # Append(Under(c), f) => DOMAIN s = 1 .. (n + 1) /\ s[n + 1] = g
      /\ s[n] = f /\ \A i \in 1 .. (n - 1) : s[i] = ev[c][i]
  <2>1. StackFacts(ev[c], f, g)
    BY StackTop DEF EvIn
  <2> QED BY <2>1 DEF StackFacts, Under, Top
<1>2. \A d \in Threads : e[d] = IF d = c THEN s ELSE ev[d]
  BY DEF EvIn
<1> HIDE DEF e
<1>3. s = Append(Under(c), f) => Len(s) = n
  <2> HAVE s = Append(Under(c), f)
  <2>1. s \in Seq(FrameIn)
    BY TopType, AppendProperties
  <2>2. DOMAIN s = 1 .. Len(s) /\ Len(s) \in Nat
    BY <2>1, LenProperties
  <2>3. 1 .. Len(s) = 1 .. n
    BY <1>1, <2>2
  <2>4. \A i, j \in Nat : 1 .. i = 1 .. j => i = j
    <3> SUFFICES ASSUME NEW i \in Nat, NEW j \in Nat, 1 .. i = 1 .. j PROVE i = j
      OBVIOUS
    <3>1. IF i = 0 THEN i \notin 1 .. i ELSE i \in 1 .. j
      OBVIOUS
    <3>2. IF j = 0 THEN j \notin 1 .. j ELSE j \in 1 .. i
      OBVIOUS
    <3> QED BY <3>1, <3>2
  <2> HIDE DEF n
  <2> QED BY <1>1, <2>2, <2>3, <2>4
<1>4. Idle(Frame(0, 0))
  BY DEF Idle, Frame
<1> HIDE DEF n
<1>5. ASSUME NEW d \in Threads, NEW i \in Nat
      PROVE  \/ d = c /\ i = n /\ Slot(e, d, i) = f
             \/ ~ (d = c /\ i = n) /\ Slot(e, d, i) = Slot(ev, d, i)
             \/ ~ (d = c /\ i = n) /\ Idle(Slot(e, d, i)) /\ Idle(Slot(ev, d, i))
  <2>1. CASE d # c
    BY <1>2, <2>1 DEF Slot
  <2>2. CASE d = c /\ i = n
    <3>1. n \in 1 .. n /\ n \in 1 .. (n + 1)
      BY <1>1
    <3>2. n \in DOMAIN s
      BY <1>1, <3>1
    <3> QED BY <1>1, <1>2, <2>2, <3>2 DEF Slot
  <2>3. CASE d = c /\ i \in 1 .. (n - 1)
    <3>1. i \in 1 .. n /\ i \in 1 .. (n + 1) /\ i # n
      BY <1>1, <2>3
    <3>2. i \in DOMAIN s /\ i \in DOMAIN ev[c]
      BY <1>1, <3>1
    <3> QED BY <1>1, <1>2, <2>3, <3>1, <3>2 DEF Slot
  <2>4. CASE d = c /\ i # n /\ i \notin 1 .. (n - 1)
    <3>1. i \notin 1 .. n /\ (i \in 1 .. (n + 1) => i = n + 1)
      BY <1>1, <2>4
    <3>2. Idle(Slot(ev, c, i))
      BY <1>1, <1>4, <3>1 DEF Slot
    <3>3. Idle(Slot(e, c, i))
      BY <1>1, <1>2, <1>4, <3>1 DEF Slot
    <3> QED BY <2>4, <3>2, <3>3
  <2> QED BY <2>1, <2>2, <2>3, <2>4
<1>6. Changed(e, c, n, f)
  BY <1>5 DEF Changed
<1>7. Top(c) = Slot(ev, c, n)
  BY <1>1 DEF Slot
<1> QED BY <1>1, <1>2, <1>3, <1>6, <1>7 DEF TopBecomes, n

Waiting(e, c, i) == Slot(e, c, i).dst # NoBlk

Held(L, e, p) == (\E t \in Tiers : \E n \in L[t] : n.rep = p) \/ Marks(e, p)

Own(a, L, e) ==
  /\ \A t \in Tiers : a[t] \subseteq TierBlocks(t)
  /\ \A t \in Tiers : \A n \in L[t] : n.rep \in TierBlocks(t)
  /\ \A c \in Threads, i \in Nat :
       Slot(e, c, i).area # NoArea => Slot(e, c, i).area.rep \in TierBlocks(Slot(e, c, i).src)

(* The invariant in these terms.                                           *)
LEMMA CountFacts ==
  CountInv <=>
    /\ IInv
    /\ \A p \in Block : p \in bits <=> Held(Filed(pri), ev, p)
    /\ ~ foreign => Own(avail, Filed(pri), ev)
    /\ \A c \in Threads, i \in Nat :
         Waiting(ev, c, i) => i = Len(ev[c]) /\ Slot(ev, c, i).area # NoArea
BY DEF CountInv, Marked, Held, OwnBlocks, Own, LastLeaves, Waiting

LEMMA CountNext ==
  ASSUME IInv',
         \A p \in Block : p \in bits' <=> Held(Filed(pri'), ev', p),
         ~ foreign' => Own(avail', Filed(pri'), ev'),
         \A c \in Threads, i \in Nat :
           Waiting(ev', c, i) => i = Len(ev'[c]) /\ Slot(ev', c, i).area # NoArea
  PROVE  CountInv'
BY DEF CountInv, Marked, Held, OwnBlocks, Own, LastLeaves, Waiting

LEMMA AlikeMarks ==
  ASSUME NEW e, Alike(e), NEW p \in Block
  PROVE  Marks(e, p) <=> Marks(ev, p)
<1>1. \A f : Idle(f) => f.area.rep # p
  BY NoBlkOutside DEF Idle, NoArea, Area
<1> QED BY <1>1 DEF Alike, Marks

LEMMA ChangedMarks ==
  ASSUME NEW c \in Threads, NEW n \in Nat, NEW f, NEW e, Changed(e, c, n, f), NEW p \in Block
  PROVE  Marks(e, p) <=>
           \/ f.dst = NoBlk /\ f.area.rep = p
           \/ \E d \in Threads, i \in Nat :
                ~ (d = c /\ i = n) /\ Slot(ev, d, i).dst = NoBlk /\ Slot(ev, d, i).area.rep = p
<1>1. \A g : Idle(g) => g.area.rep # p
  BY NoBlkOutside DEF Idle, NoArea, Area
<1>2. \A d \in Threads, i \in Nat :
        d = c /\ i = n => Slot(e, d, i) = f
  BY DEF Changed
<1>3. \A d \in Threads, i \in Nat :
        ~ (d = c /\ i = n) =>
          \/ Slot(e, d, i) = Slot(ev, d, i)
          \/ Idle(Slot(e, d, i)) /\ Idle(Slot(ev, d, i))
  BY DEF Changed
<1>4. ASSUME NEW d \in Threads, NEW i \in Nat, ~ (d = c /\ i = n)
      PROVE  Slot(e, d, i).dst = NoBlk /\ Slot(e, d, i).area.rep = p
               <=> Slot(ev, d, i).dst = NoBlk /\ Slot(ev, d, i).area.rep = p
  BY <1>1, <1>3, <1>4
<1>5. ASSUME NEW d \in Threads, NEW i \in Nat, d = c, i = n
      PROVE  Slot(e, d, i).dst = NoBlk /\ Slot(e, d, i).area.rep = p
               <=> f.dst = NoBlk /\ f.area.rep = p
  BY <1>2, <1>5
<1> QED BY <1>4, <1>5 DEF Marks

(* The steps that leave the lists, the bitmap and the free blocks alone,   *)
(* and of the loops at most begin or end some that hold nothing.           *)
LEMMA AlikeKeeps ==
  ASSUME CountInv, IInv', UNCHANGED <<avail, pri, bits>>, foreign => foreign',
         foreign \in BOOLEAN, foreign' \in BOOLEAN,
         NEW c \in Threads, Alike(ev'),
         \A d \in Threads \ {c} : ev'[d] = ev[d],
         \A i \in Nat : ~ Waiting(ev, c, i)
  PROVE  CountInv'
<1>1. \A p \in Block : p \in bits' <=> Held(Filed(pri'), ev', p)
  BY AlikeMarks, CountFacts DEF Held
<1>2. ~ foreign' => Own(avail', Filed(pri'), ev')
  <2> HAVE ~ foreign'
  <2>1. Own(avail, Filed(pri), ev)
    BY CountFacts
  <2> QED BY <2>1 DEF Own, Alike, Idle
<1>3. ASSUME NEW d \in Threads, NEW i \in Nat, Waiting(ev', d, i)
      PROVE  i = Len(ev'[d]) /\ Slot(ev', d, i).area # NoArea
  <2>1. Slot(ev', d, i) = Slot(ev, d, i) /\ Waiting(ev, d, i)
    BY <1>3 DEF Alike, Idle, Waiting
  <2>2. d # c
    BY <2>1
  <2> QED BY <2>1, <2>2, CountFacts
<1> QED BY <1>1, <1>2, <1>3, CountNext

(* When a loop changes, the others wait as before.                         *)
LEMMA ChangedWaits ==
  ASSUME CountInv, NEW c \in Threads, NEW f, NEW e,
         Changed(e, c, Len(ev[c]), f),
         f.dst # NoBlk => f.area # NoArea /\ Len(e[c]) = Len(ev[c]),
         \A d \in Threads \ {c} : e[d] = ev[d]
  PROVE  \A d \in Threads, i \in Nat :
           Waiting(e, d, i) => i = Len(e[d]) /\ Slot(e, d, i).area # NoArea
<1> DEFINE n == Len(ev[c])
<1> SUFFICES ASSUME NEW d \in Threads, NEW i \in Nat, Waiting(e, d, i)
             PROVE  i = Len(e[d]) /\ Slot(e, d, i).area # NoArea
  OBVIOUS
<1>1. CASE d = c /\ i = n
  <2>1. Slot(e, d, i) = f
    BY <1>1 DEF Changed
  <2> QED BY <1>1, <2>1 DEF Waiting
<1>2. CASE ~ (d = c /\ i = n)
  <2>1. Slot(e, d, i) = Slot(ev, d, i) /\ Waiting(ev, d, i)
    BY <1>2 DEF Changed, Idle, Waiting
  <2>2. i = Len(ev[d]) /\ Slot(ev, d, i).area # NoArea
    BY <2>1, CountFacts
  <2>3. d # c
    BY <1>2, <2>2
  <2> QED BY <2>1, <2>2, <2>3
<1> QED BY <1>1, <1>2

LEMMA PopCount ==
  ASSUME CountInv, IInv', NEW c \in Threads, Pop(c)
  PROVE  CountInv'
<1> USE DEF IInv
<1> DEFINE t == Top(c).src
           v == Victim(c)
           f == [Top(c) EXCEPT !.area = v, !.want = @ - 1]
           g == Frame(1, -AreaFree(1, 1))
           s == IF t = 0 /\ AreaFree(1, 1) < 0
                THEN Under(c) \o <<f, g>> ELSE Append(Under(c), f)
           n == Len(ev[c])
<1>1. /\ pri' = PriExtract(pri, v) /\ ev' = [ev EXCEPT ![c] = s] /\ pri[t] # <<>>
      /\ pc[c] = "evict" /\ Top(c).area = NoArea
      /\ UNCHANGED <<avail, bits, foreign>>
  BY DEF Pop, Popping, Now, ghost
<1>2. IInv /\ ev \in EvIn /\ ev[c] # <<>> /\ Top(c) \in FrameIn
  BY <1>1, CountFacts, TopType DEF Busy, Has, ThreadIn
<1>3. t \in {0, 1} /\ t \in Tiers /\ v \in Filed(pri)[t]
  <2>1. t \in {0, 1} /\ t \in Tiers
    BY <1>2 DEF FrameIn, Tiers
  <2>2. pri[t] \in Seq(AreaIn)
    BY <1>2, <2>1 DEF SpaceIn, PriIn
  <2>3. v = pri[t][Len(pri[t])] /\ Len(pri[t]) \in DOMAIN pri[t]
    BY <1>1, <2>2, EmptySeq, LenProperties DEF Victim, Last
  <2> QED BY <2>1, <2>3 DEF Filed, Range
<1>4. v \in AreaIn /\ v.rep \in Block
  BY <1>2, <1>3, SpaceFacts DEF AreaIn
<1>5. f \in FrameIn /\ f.area = v /\ f.dst = Top(c).dst /\ f.src = t
  BY <1>2, <1>4, FrameChanges DEF FrameIn
<1>6. g \in FrameIn /\ Idle(g)
  <2>1. -AreaFree(1, 1) \in Int
    BY AreaFreeType DEF Tiers
  <2> QED BY <2>1, FrameType DEF Idle, Frame
<1>7. s = Append(Under(c), f) \/ s = Under(c) \o <<f, g>>
  OBVIOUS
<1> HIDE DEF f, g, s, t, v
<1>8. /\ Changed(ev', c, n, f) /\ n \in Nat /\ Top(c) = Slot(ev, c, n)
      /\ \A d \in Threads \ {c} : ev'[d] = ev[d]
  <2>1. ev \in EvIn /\ ev[c] # <<>> /\ ev' = [ev EXCEPT ![c] = s]
    BY <1>1, <1>2
  <2>2. TopBecomes([ev EXCEPT ![c] = s], c, f)
    BY <1>5, <1>6, <1>7, <2>1, TopChanged
  <2> QED BY <2>1, <2>2 DEF TopBecomes
<1>9. f.dst = NoBlk
  BY <1>1, <1>5, <1>8, CountFacts DEF Waiting
<1>10. \A u \in Tiers : Filed(pri')[u] = Filed(pri)[u] \ {v}
  BY <1>1, <1>2, SpaceFacts, ExtractLists
<1>11. ASSUME NEW p \in Block PROVE p \in bits' <=> Held(Filed(pri'), ev', p)
  <2>1. Top(c).area.rep # p
    BY <1>1, NoBlkOutside DEF NoArea, Area
  <2>2. Marks(ev', p) <=> v.rep = p \/ Marks(ev, p)
    <3>1. Marks(ev', p) <=>
            \/ f.dst = NoBlk /\ f.area.rep = p
            \/ \E d \in Threads, i \in Nat :
                 ~ (d = c /\ i = n) /\ Slot(ev, d, i).dst = NoBlk
                 /\ Slot(ev, d, i).area.rep = p
      BY <1>8, ChangedMarks
    <3> QED BY <1>5, <1>8, <1>9, <2>1, <3>1 DEF Marks
  <2>3. Held(Filed(pri'), ev', p) <=> Held(Filed(pri), ev, p)
    BY <1>3, <1>10, <2>2 DEF Held
  <2> QED BY <1>1, <2>3, CountFacts
<1>12. ASSUME ~ foreign' PROVE Own(avail', Filed(pri'), ev')
  <2>1. Own(avail, Filed(pri), ev)
    BY <1>1, <1>12, CountFacts
  <2>2. \A d \in Threads, i \in Nat :
          Slot(ev', d, i).area # NoArea =>
            Slot(ev', d, i).area.rep \in TierBlocks(Slot(ev', d, i).src)
    BY <1>3, <1>5, <1>8, <2>1 DEF Own, Changed, Idle
  <2> QED BY <1>1, <1>10, <2>1, <2>2 DEF Own
<1> QED BY <1>8, <1>9, <1>11, <1>12, ChangedWaits, CountNext

LEMMA PlaceCount ==
  ASSUME CountInv, IInv', NEW c \in Threads, Place(c)
  PROVE  CountInv'
<1> USE DEF IInv
<1> DEFINE t == Top(c).src
           s == Top(c).area
           N(p) == Area(s.ori, p)
           F(p) == [Top(c) EXCEPT !.dst = p]
           n == Len(ev[c])
<1>1. PICK p \in Free(t + 1) :
        /\ avail' = [avail EXCEPT ![t + 1] = @ \ {p}, ![t] = @ \union FreedAtPlace(s)]
        /\ bits' = (bits \union {p}) \ {s.rep}
        /\ pri' = PriInsert(pri, t + 1, N(p))
        /\ ev' = [ev EXCEPT ![c] = Append(Under(c), F(p))]
  BY DEF Place
<1> DEFINE m == N(p)
           f == F(p)
<1>2. IInv /\ ev \in EvIn /\ ev[c] # <<>> /\ Top(c) \in FrameIn /\ s # NoArea
      /\ foreign' = foreign
  BY CountFacts, TopType DEF Place, Placing, Now, Busy, Has, ThreadIn
<1>3. s \in AreaIn /\ s.ori \in Block /\ s.rep \in Block
  BY <1>2 DEF FrameIn, AreaIn
<1>4. t \in Tiers /\ t + 1 \in Tiers /\ t # t + 1
  BY <1>2 DEF FrameIn, Tiers
<1>5. p \in avail[t + 1] /\ p \in Block /\ p # NoBlk
  BY <1>2, <1>4, FreeType, NoBlkOutside DEF SpaceIn
<1>6. m \in AreaIn /\ m.rep = p
  BY <1>3, <1>5 DEF Area, AreaIn
<1>7. f \in FrameIn /\ f.area = s /\ f.dst = p /\ f.src = t
  BY <1>2, <1>3, <1>5, FrameChanges DEF FrameIn
<1>8. Frame(0, 0) \in FrameIn /\ Idle(Frame(0, 0))
  BY FrameType DEF Idle, Frame
<1> HIDE DEF N, F, s, t
<1>9. /\ Changed(ev', c, n, f) /\ n \in Nat /\ Top(c) = Slot(ev, c, n)
      /\ Len(ev'[c]) = n /\ \A d \in Threads \ {c} : ev'[d] = ev[d]
  <2> DEFINE r == Append(Under(c), f)
  <2>1. ev \in EvIn /\ ev[c] # <<>> /\ ev' = [ev EXCEPT ![c] = r]
    BY <1>1, <1>2
  <2>2. /\ TopBecomes([ev EXCEPT ![c] = r], c, f)
        /\ Len([ev EXCEPT ![c] = r][c]) = Len(ev[c])
    BY <1>7, <1>8, <2>1, TopChanged
  <2> QED BY <2>1, <2>2 DEF TopBecomes
<1>10. /\ Partition(avail, Filed(pri), Moving(ev))
       /\ \A d \in Threads, i \in Nat : Moving(ev)[d][i] = Slot(ev, d, i).area.rep
  BY <1>2, SpaceFacts, SlotFacts
<1>11. \A u \in Tiers :
         Filed(pri')[u] = IF u = t + 1 THEN Filed(pri)[t + 1] \union {m} ELSE Filed(pri)[u]
  <2>1. m \notin Filed(pri)[t + 1]
    BY <1>4, <1>5, <1>6, <1>10 DEF Partition, FreeOrListed
  <2>2. pri \in PriIn /\ \A u \in Tiers : IsInjective(pri[u])
    BY <1>2, SpaceFacts
  <2>3. /\ PriInsert(pri, t + 1, m) \in PriIn
        /\ \A u \in Tiers :
             /\ IsInjective(PriInsert(pri, t + 1, m)[u])
             /\ Filed(PriInsert(pri, t + 1, m))[u]
                  = IF u = t + 1 THEN Filed(pri)[t + 1] \union {m} ELSE Filed(pri)[u]
    BY ZenonT(60), <1>4, <1>6, <2>1, <2>2, InsertLists
  <2> QED BY <1>1, <2>3
<1>12. ASSUME NEW b \in Block PROVE b \in bits' <=> Held(Filed(pri'), ev', b)
  <2>1. Marks(ev', b) <=>
          \E d \in Threads, i \in Nat :
            ~ (d = c /\ i = n) /\ Slot(ev, d, i).dst = NoBlk /\ Slot(ev, d, i).area.rep = b
    BY <1>5, <1>7, <1>9, ChangedMarks
  <2>2. \A d \in Threads, i \in Nat :
          Slot(ev, d, i).area.rep = s.rep => d = c /\ i = n
    BY <1>3, <1>9, <1>10 DEF Partition, MovingOnce, s
  <2>3. CASE b = s.rep
    <3>1. b # p
      BY <1>4, <1>5, <1>9, <1>10, <2>3 DEF Partition, FreeOrMoving, s
    <3>2. \A u \in Tiers : \A k \in Filed(pri)[u] : k.rep # b
      BY <1>9, <1>10, <2>3 DEF Partition, ListedOrMoving, s
    <3> QED BY <1>1, <1>6, <1>11, <2>1, <2>2, <2>3, <3>1, <3>2 DEF Held
  <2>4. CASE b # s.rep
    <3>1. Marks(ev', b) <=> Marks(ev, b)
      BY <1>9, <2>1, <2>4 DEF Marks, s
    <3>2. Held(Filed(pri'), ev', b) <=> b = p \/ Held(Filed(pri), ev, b)
      BY <1>4, <1>6, <1>11, <3>1 DEF Held
    <3> QED BY <1>1, <2>4, <3>2, CountFacts
  <2> QED BY <2>3, <2>4
<1>13. ASSUME ~ foreign' PROVE Own(avail', Filed(pri'), ev')
  <2>1. Own(avail, Filed(pri), ev)
    BY <1>2, <1>13, CountFacts
  <2>2. \A u \in Tiers : avail'[u] \subseteq avail[u]
    BY <1>1, <1>2, <1>4 DEF SpaceIn, FreedAtPlace
  <2>3. \A u \in Tiers : \A k \in Filed(pri')[u] : k.rep \in TierBlocks(u)
    BY <1>4, <1>5, <1>6, <1>11, <2>1 DEF Own
  <2>4. \A d \in Threads, i \in Nat :
          Slot(ev', d, i).area # NoArea =>
            Slot(ev', d, i).area.rep \in TierBlocks(Slot(ev', d, i).src)
    <3>1. s.rep \in TierBlocks(t)
      BY <1>2, <1>9, <2>1 DEF Own, s, t
    <3> QED BY <1>7, <1>9, <2>1, <3>1 DEF Own, Changed, Idle
  <2> QED BY <2>1, <2>2, <2>3, <2>4 DEF Own
<1> QED BY <1>2, <1>7, <1>9, <1>12, <1>13, ChangedWaits, CountNext

LEMMA GiveBackCount ==
  ASSUME CountInv, IInv', NEW c \in Threads, GiveBack(c)
  PROVE  CountInv'
<1> USE DEF IInv
<1> DEFINE t == Top(c).src
           s == Top(c).area
           f == Frame(t, Top(c).want)
           n == Len(ev[c])
<1>1. /\ avail' = [avail EXCEPT ![t] = @ \union {s.rep}]
      /\ ev' = [ev EXCEPT ![c] = Append(Under(c), f)]
      /\ UNCHANGED <<pri, bits, foreign>>
  BY DEF GiveBack, ghost
<1>2. IInv /\ ev \in EvIn /\ ev[c] # <<>> /\ Top(c) \in FrameIn /\ s # NoArea
      /\ Top(c).dst \in Block
  BY CountFacts, TopType DEF GiveBack, Now, Busy, Has, Sleeps, ThreadIn
<1>3. t \in Tiers /\ t \in {0, 1} /\ Top(c).want \in Int
  BY <1>2 DEF FrameIn, Tiers
<1>4. f \in FrameIn /\ Idle(f) /\ f.dst = NoBlk /\ f.area = NoArea
  BY <1>3, FrameType DEF Idle, Frame
<1> HIDE DEF f, s, t
<1>5. /\ Changed(ev', c, n, f) /\ n \in Nat /\ Top(c) = Slot(ev, c, n)
      /\ \A d \in Threads \ {c} : ev'[d] = ev[d]
  <2> DEFINE r == Append(Under(c), f)
  <2>1. ev \in EvIn /\ ev[c] # <<>> /\ ev' = [ev EXCEPT ![c] = r]
    BY <1>1, <1>2
  <2>2. TopBecomes([ev EXCEPT ![c] = r], c, f)
    BY <1>4, <2>1, TopChanged
  <2> QED BY <2>1, <2>2 DEF TopBecomes
<1>6. ASSUME NEW p \in Block PROVE p \in bits' <=> Held(Filed(pri'), ev', p)
  <2>1. Marks(ev', p) <=> Marks(ev, p)
    <3>1. Marks(ev', p) <=>
            \/ f.dst = NoBlk /\ f.area.rep = p
            \/ \E d \in Threads, i \in Nat :
                 ~ (d = c /\ i = n) /\ Slot(ev, d, i).dst = NoBlk
                 /\ Slot(ev, d, i).area.rep = p
      BY <1>5, ChangedMarks
    <3>2. f.area.rep # p /\ Slot(ev, c, n).dst # NoBlk
      BY <1>2, <1>4, <1>5, NoBlkOutside DEF NoArea, Area
    <3> QED BY <3>1, <3>2 DEF Marks
  <2> QED BY <1>1, <2>1, CountFacts DEF Held
<1>7. ASSUME ~ foreign' PROVE Own(avail', Filed(pri'), ev')
  <2>1. Own(avail, Filed(pri), ev)
    BY <1>1, <1>7, CountFacts
  <2>2. s.rep \in TierBlocks(t)
    BY <1>2, <1>5, <2>1 DEF Own, s, t
  <2>3. \A u \in Tiers : avail'[u] \subseteq TierBlocks(u)
    BY <1>1, <1>2, <1>3, <2>1, <2>2 DEF Own, SpaceIn
  <2>4. \A d \in Threads, i \in Nat :
          Slot(ev', d, i).area # NoArea =>
            Slot(ev', d, i).area.rep \in TierBlocks(Slot(ev', d, i).src)
    BY <1>4, <1>5, <2>1 DEF Own, Changed, Idle
  <2> QED BY <1>1, <2>1, <2>3, <2>4 DEF Own
<1> QED BY <1>4, <1>5, <1>6, <1>7, ChangedWaits, CountNext

LEMMA SameKeeps ==
  ASSUME CountInv, IInv', UNCHANGED <<avail, pri, bits, ev>>, foreign => foreign'
  PROVE  CountInv'
<1>1. \A p \in Block : p \in bits' <=> Held(Filed(pri'), ev', p)
  BY CountFacts
<1>2. ~ foreign' => Own(avail', Filed(pri'), ev')
  BY CountFacts
<1>3. \A c \in Threads, i \in Nat :
        Waiting(ev', c, i) => i = Len(ev'[c]) /\ Slot(ev', c, i).area # NoArea
  BY CountFacts
<1> QED BY <1>1, <1>2, <1>3, CountNext

LEMMA BeginAlike ==
  ASSUME ev \in EvIn, NEW c \in Threads, ev[c] = <<>>, NEW t \in {0, 1}, NEW n \in Int,
         ev' = [ev EXCEPT ![c] = <<Frame(t, n)>>]
  PROVE  /\ Alike(ev') /\ \A d \in Threads \ {c} : ev'[d] = ev[d]
         /\ \A i \in Nat : ~ Waiting(ev, c, i)
<1>1. ev \in EvIn
  OBVIOUS
<1>2. \A d \in Threads : ev'[d] = IF d = c THEN <<Frame(t, n)>> ELSE ev[d]
  BY <1>1 DEF EvIn
<1>3. \A i \in Nat : Idle(Slot(ev, c, i))
  BY <1>1, SlotFacts
<1>4. \A i \in Nat : Idle(Slot(ev', c, i))
  <2> TAKE i \in Nat
  <2> DEFINE g == Frame(t, n)
  <2>1. Idle(g) /\ Idle(Frame(0, 0))
    BY DEF Idle, Frame
  <2> HIDE DEF g
  <2>2. DOMAIN <<g>> = {1} /\ <<g>>[1] = g
    OBVIOUS
  <2>3. ev'[c] = <<g>>
    BY <1>2 DEF g
  <2> QED BY <2>1, <2>2, <2>3 DEF Slot
<1>5. Alike(ev')
  <2> SUFFICES ASSUME NEW d \in Threads, NEW i \in Nat
               PROVE  \/ Slot(ev', d, i) = Slot(ev, d, i)
                      \/ Idle(Slot(ev', d, i)) /\ Idle(Slot(ev, d, i))
    BY DEF Alike
  <2>1. d # c => Slot(ev', d, i) = Slot(ev, d, i)
    BY <1>2 DEF Slot
  <2> QED BY <1>3, <1>4, <2>1
<1>6. \A d \in Threads \ {c} : ev'[d] = ev[d]
  BY <1>2
<1>7. \A i \in Nat : ~ Waiting(ev, c, i)
  BY <1>3 DEF Idle, Waiting
<1> QED BY <1>5, <1>6, <1>7

LEMMA EvictedAlike ==
  ASSUME CountInv, NEW c \in Threads, Evicted(c)
  PROVE  /\ Alike(ev') /\ \A d \in Threads \ {c} : ev'[d] = ev[d]
         /\ \A i \in Nat : ~ Waiting(ev, c, i)
<1> USE DEF IInv
<1>1. ev[c] # <<>> /\ Top(c).area = NoArea /\ ev' = [ev EXCEPT ![c] = Under(c)]
  BY CountFacts DEF Evicted, Now, Busy, Has
<1>2. ev \in EvIn
  BY CountFacts DEF ThreadIn
<1>3. \A d \in Threads : ev'[d] = IF d = c THEN Under(c) ELSE ev[d]
  BY <1>1, <1>2 DEF EvIn
<1> DEFINE n == Len(ev[c])
<1>4. /\ n \in Nat /\ n >= 1 /\ DOMAIN ev[c] = 1 .. n /\ Top(c) = ev[c][n]
      /\ DOMAIN Under(c) = 1 .. (n - 1)
      /\ \A i \in 1 .. (n - 1) : Under(c)[i] = ev[c][i]
  <2>1. \A f \in FrameIn : StackFacts(ev[c], f, f)
    BY <1>1, <1>2, StackTop DEF EvIn
  <2>2. Top(c) \in FrameIn
    BY <1>1, <1>2, TopType
  <2> QED BY <2>1, <2>2 DEF StackFacts, Under, Top
<1> HIDE DEF n
<1>5. Idle(Frame(0, 0))
  BY DEF Idle, Frame
<1>6. Top(c) = Slot(ev, c, n)
  BY <1>4 DEF Slot
<1>7. \A i \in Nat : ~ Waiting(ev, c, i)
  <2> SUFFICES ASSUME NEW i \in Nat, Waiting(ev, c, i) PROVE FALSE
    OBVIOUS
  <2>1. i = n /\ Slot(ev, c, i).area # NoArea
    BY CountFacts DEF n
  <2> QED BY <1>1, <1>6, <2>1
<1>8. Idle(Slot(ev, c, n))
  BY <1>1, <1>4, <1>6, <1>7 DEF Idle, Waiting
<1>9. Alike(ev')
  <2> SUFFICES ASSUME NEW d \in Threads, NEW i \in Nat
               PROVE  \/ Slot(ev', d, i) = Slot(ev, d, i)
                      \/ Idle(Slot(ev', d, i)) /\ Idle(Slot(ev, d, i))
    BY DEF Alike
  <2>1. CASE d # c
    BY <1>3, <2>1 DEF Slot
  <2>2. CASE d = c /\ i = n
    <3>1. i \notin 1 .. (n - 1)
      BY <1>4, <2>2
    <3> QED BY <1>3, <1>4, <1>5, <1>8, <2>2, <3>1 DEF Slot
  <2>3. CASE d = c /\ i # n
    <3>1. i \in 1 .. n <=> i \in 1 .. (n - 1)
      BY <1>4, <2>3
    <3> QED BY <1>3, <1>4, <2>3, <3>1 DEF Slot
  <2> QED BY <2>1, <2>2, <2>3
<1>10. \A d \in Threads \ {c} : ev'[d] = ev[d]
  BY <1>3
<1> QED BY <1>7, <1>9, <1>10

LEMMA BeginCount ==
  ASSUME CountInv, IInv', NEW c \in Threads, ev[c] = <<>>, NEW t \in {0, 1}, NEW n \in Int,
         ev' = [ev EXCEPT ![c] = <<Frame(t, n)>>], UNCHANGED <<avail, pri, bits, foreign>>
  PROVE  CountInv'
<1>1. ev \in EvIn /\ foreign \in BOOLEAN /\ foreign' \in BOOLEAN
  BY CountFacts DEF IInv, ThreadIn, RestIn
<1> QED BY <1>1, BeginAlike, AlikeKeeps

LEMMA EvictedCount ==
  ASSUME CountInv, IInv', NEW c \in Threads, Evicted(c)
  PROVE  CountInv'
<1>1. UNCHANGED <<avail, pri, bits, foreign>> /\ foreign \in BOOLEAN /\ foreign' \in BOOLEAN
  BY CountFacts DEF Evicted, IInv, RestIn, space, ghost
<1> QED BY <1>1, EvictedAlike, AlikeKeeps

LEMMA AllocCount ==
  ASSUME CountInv, IInv', NEW c \in Threads, Alloc(c)
  PROVE  CountInv'
<1> USE DEF IInv
<1> DEFINE N(p) == Area(bio[c].blk, p)
<1>1. PICK p \in Free(0) :
        /\ avail' = [avail EXCEPT ![0] = @ \ {p}]
        /\ bits' = bits \union {p}
        /\ pri' = PriInsert(pri, 0, N(p))
  BY DEF Alloc
<1> DEFINE m == N(p)
<1>2. IInv /\ ev' = ev /\ foreign' = foreign /\ bio[c].blk \in Block
  BY CountFacts DEF Alloc, Now, Busy, Has
<1>3. 0 \in Tiers /\ p \in avail[0] /\ p \in Block
  BY <1>2, FreeType DEF Tiers, SpaceIn
<1>4. m \in AreaIn /\ m.rep = p
  BY <1>2, <1>3 DEF Area, AreaIn
<1> HIDE DEF N
<1>5. \A u \in Tiers :
        Filed(pri')[u] = IF u = 0 THEN Filed(pri)[0] \union {m} ELSE Filed(pri)[u]
  <2>1. m \notin Filed(pri)[0]
    BY <1>2, <1>3, <1>4, SpaceFacts DEF Partition, FreeOrListed
  <2>2. pri \in PriIn /\ \A u \in Tiers : IsInjective(pri[u])
    BY <1>2, SpaceFacts
  <2>3. /\ PriInsert(pri, 0, m) \in PriIn
        /\ \A u \in Tiers :
             /\ IsInjective(PriInsert(pri, 0, m)[u])
             /\ Filed(PriInsert(pri, 0, m))[u]
                  = IF u = 0 THEN Filed(pri)[0] \union {m} ELSE Filed(pri)[u]
    BY <1>3, <1>4, <2>1, <2>2, InsertLists
  <2> QED BY <1>1, <2>3
<1>6. ASSUME NEW b \in Block PROVE b \in bits' <=> Held(Filed(pri'), ev', b)
  <2>1. Held(Filed(pri'), ev', b) <=> b = p \/ Held(Filed(pri), ev, b)
    BY <1>2, <1>3, <1>4, <1>5 DEF Held
  <2> QED BY <1>1, <2>1, CountFacts
<1>7. ASSUME ~ foreign' PROVE Own(avail', Filed(pri'), ev')
  <2>1. Own(avail, Filed(pri), ev)
    BY <1>2, <1>7, CountFacts
  <2>2. \A u \in Tiers : avail'[u] \subseteq avail[u]
    BY <1>1, <1>2 DEF SpaceIn
  <2> QED BY <1>2, <1>3, <1>4, <1>5, <2>1, <2>2 DEF Own
<1>8. \A d \in Threads, i \in Nat :
        Waiting(ev', d, i) => i = Len(ev'[d]) /\ Slot(ev', d, i).area # NoArea
  BY <1>2, CountFacts
<1> QED BY <1>6, <1>7, <1>8, CountNext

LEMMA TouchCount ==
  ASSUME CountInv, IInv', NEW c \in Threads, Touch(c)
  PROVE  CountInv'
<1> USE DEF IInv
<1>1. PICK n \in At(bio[c].blk) :
        /\ pri' = PriInsert(PriExtract(pri, n), 0, n)
        /\ foreign' = (foreign \/ Stray(n))
  BY DEF Touch
<1> DEFINE q == PriExtract(pri, n)
<1>2. IInv /\ UNCHANGED <<avail, bits, ev>>
  BY CountFacts DEF Touch
<1>3. n \in repTree /\ n \in AreaIn /\ 0 \in Tiers
  BY <1>2 DEF At, SpaceIn, Tiers
<1>4. /\ q \in PriIn
      /\ \A t \in Tiers : IsInjective(q[t]) /\ Filed(q)[t] = Filed(pri)[t] \ {n}
  BY <1>2, SpaceFacts, ExtractLists
<1> HIDE DEF q
<1>5. pri' = PriInsert(q, 0, n)
  BY <1>1 DEF q
<1>6. \A t \in Tiers :
        Filed(pri')[t] = IF t = 0 THEN Filed(pri)[0] \union {n} ELSE Filed(pri)[t] \ {n}
  <2>1. n \notin Filed(q)[0]
    BY <1>3, <1>4
  <2>2. q \in PriIn /\ \A t \in Tiers : IsInjective(q[t])
    BY <1>4
  <2>3. /\ PriInsert(q, 0, n) \in PriIn
        /\ \A t \in Tiers :
             /\ IsInjective(PriInsert(q, 0, n)[t])
             /\ Filed(PriInsert(q, 0, n))[t]
                  = IF t = 0 THEN Filed(q)[0] \union {n} ELSE Filed(q)[t]
    BY <1>3, <2>1, <2>2, InsertLists
  <2> QED BY <1>3, <1>4, <1>5, <2>3
<1>7. ASSUME NEW b \in Block PROVE b \in bits' <=> Held(Filed(pri'), ev', b)
  <2>1. \E t \in Tiers : n \in Filed(pri)[t]
    BY <1>2, <1>3, SpaceFacts
  <2>2. (\E t \in Tiers : \E m \in Filed(pri')[t] : m.rep = b)
          <=> \E t \in Tiers : \E m \in Filed(pri)[t] : m.rep = b
    <3>1. \A m : (\E t \in Tiers : m \in Filed(pri')[t])
                   <=> \E t \in Tiers : m \in Filed(pri)[t]
      BY <1>3, <1>6, <2>1
    <3> QED BY <3>1
  <2> QED BY <1>2, <2>2, CountFacts DEF Held
<1>8. ASSUME ~ foreign' PROVE Own(avail', Filed(pri'), ev')
  <2>1. Own(avail, Filed(pri), ev) /\ ~ Stray(n)
    BY <1>1, <1>8, CountFacts
  <2>2. n \in Filed(pri)[0]
    BY <1>3, <2>1 DEF Stray, Home, Listed, Filed
  <2> QED BY <1>2, <1>6, <2>1, <2>2 DEF Own
<1>9. \A d \in Threads, i \in Nat :
        Waiting(ev', d, i) => i = Len(ev'[d]) /\ Slot(ev', d, i).area # NoArea
  BY <1>2, CountFacts
<1> QED BY <1>7, <1>8, <1>9, CountNext

LEMMA DeleteCount ==
  ASSUME CountInv, IInv', NEW c \in Threads, Delete(c)
  PROVE  CountInv'
<1> USE DEF IInv
<1>1. PICK n \in repTree :
        /\ pri' = PriExtract(pri, n)
        /\ bits' = bits \ {n.rep}
        /\ avail' = [avail EXCEPT ![0] = @ \union {n.rep}]
        /\ foreign' = (foreign \/ Stray(n))
  BY DEF Delete, At
<1>2. IInv /\ ev' = ev
  BY CountFacts DEF Delete
<1>3. n \in repTree /\ n \in AreaIn /\ n.rep \in Block /\ 0 \in Tiers
  BY <1>2 DEF SpaceIn, AreaIn, Tiers
<1>4. \A t \in Tiers : Filed(pri')[t] = Filed(pri)[t] \ {n}
  BY <1>1, <1>2, SpaceFacts, ExtractLists
<1>5. /\ Partition(avail, Filed(pri), Moving(ev))
      /\ \A d \in Threads, i \in Nat : Moving(ev)[d][i] = Slot(ev, d, i).area.rep
      /\ \E t \in Tiers : n \in Filed(pri)[t]
  BY <1>2, <1>3, SpaceFacts, SlotFacts DEF ThreadIn
<1>6. ASSUME NEW b \in Block PROVE b \in bits' <=> Held(Filed(pri'), ev', b)
  <2>1. CASE b = n.rep
    <3>1. \A t \in Tiers : \A m \in Filed(pri)[t] : m.rep = b => m = n
      BY <1>5, <2>1 DEF Partition, ListedOnce
    <3>2. ~ Marks(ev, b)
      BY <1>5, <2>1 DEF Partition, ListedOrMoving, Marks
    <3> QED BY <1>1, <1>2, <1>4, <2>1, <3>1, <3>2 DEF Held
  <2>2. CASE b # n.rep
    <3>1. Held(Filed(pri'), ev', b) <=> Held(Filed(pri), ev, b)
      BY <1>2, <1>4, <2>2 DEF Held
    <3> QED BY <1>1, <2>2, <3>1, CountFacts
  <2> QED BY <2>1, <2>2
<1>7. ASSUME ~ foreign' PROVE Own(avail', Filed(pri'), ev')
  <2>1. Own(avail, Filed(pri), ev) /\ ~ Stray(n)
    BY <1>1, <1>7, CountFacts
  <2>2. n.rep \in TierBlocks(0)
    BY <1>3, <2>1 DEF Stray, Home, Listed, Filed, Own
  <2>3. \A u \in Tiers : avail'[u] \subseteq TierBlocks(u)
    BY <1>1, <1>2, <2>1, <2>2 DEF Own, SpaceIn
  <2> QED BY <1>2, <1>4, <2>1, <2>3 DEF Own
<1>8. \A d \in Threads, i \in Nat :
        Waiting(ev', d, i) => i = Len(ev'[d]) /\ Slot(ev', d, i).area # NoArea
  BY <1>2, CountFacts
<1> QED BY <1>6, <1>7, <1>8, CountNext

LEMMA InitCountInv == Init => CountInv
<1> SUFFICES ASSUME Init PROVE CountInv
  OBVIOUS
<1>1. IInv
  BY InitIInv
<1>2. \A t \in Tiers : Filed(pri)[t] = {} /\ avail[t] = TierBlocks(t)
  BY DEF Init, Filed, Range
<1>3. \A c \in Threads, i \in Nat : Idle(Slot(ev, c, i))
  BY <1>1, SlotFacts DEF Init, IInv, ThreadIn
<1>4. \A p \in Block : ~ Marks(ev, p)
  BY <1>3, NoBlkOutside DEF Marks, Idle, NoArea, Area
<1>5. Marked
  BY <1>2, <1>4 DEF Marked, Init
<1>6. OwnBlocks /\ LastLeaves
  BY <1>2, <1>3 DEF OwnBlocks, LastLeaves, Idle
<1> QED BY <1>1, <1>5, <1>6 DEF CountInv

LEMMA NextCountInv == CountInv /\ [Next]_vars => CountInv'
<1> SUFFICES ASSUME CountInv, [Next]_vars PROVE CountInv'
  OBVIOUS
<1>1. IInv /\ IInv'
  BY NextIInv, CountFacts
<1>2. CASE UNCHANGED vars
  BY <1>1, <1>2, SameKeeps DEF vars, space, thread, ghost
<1>3. CASE Next
  <2>1. CASE Halted
    BY <1>1, <2>1, SameKeeps DEF Halted, vars, space, thread, ghost
  <2>2. ASSUME NEW c \in Threads,
               Submit(c) \/ Evict(c) \/ Delete(c) \/ DeleteRoot(c) \/ Run(c) \/ Land(c)
        PROVE  CountInv'
    <3>1. CASE Submit(c) \/ Issue(c) \/ WriteOut(c) \/ Land(c)
      <4>1. UNCHANGED <<avail, pri, bits, ev, foreign>>
        BY <3>1 DEF Submit, Issue, WriteOut, Land, BioLands, ReadLands, WriteLands, space, ghost
      <4> QED BY <1>1, <4>1, SameKeeps
    <3>2. CASE PopEmpty(c) \/ PopUnlinked(c) \/ NoAvail(c) \/ EraseRoot(c) \/ DeleteRoot(c)
      <4>1. UNCHANGED <<avail, pri, bits, ev>> /\ (foreign => foreign')
        BY <3>2 DEF PopEmpty, PopUnlinked, NoAvail, EraseRoot, DeleteRoot, Stop, space,
           thread, ghost
      <4> QED BY <1>1, <4>1, SameKeeps
    <3>3. CASE Evict(c)
      <4>1. PICK n \in Evictions : ev' = [ev EXCEPT ![c] = <<Frame(0, n)>>]
        BY <3>3 DEF Evict
      <4>2. ev[c] = <<>> /\ n \in Int /\ UNCHANGED <<avail, pri, bits, foreign>>
        BY <1>1, <3>3, DemotionAssumption DEF Evict, Now, IInv, Busy, Has, space, ghost
      <4> QED BY <1>1, <4>1, <4>2, BeginCount
    <3>4. CASE MakeRoom(c)
      <4> DEFINE n == -AreaFree(0, 1)
      <4>1. n \in Int
        BY AreaFreeType DEF Tiers
      <4> HIDE DEF n
      <4>2. /\ ev[c] = <<>> /\ UNCHANGED <<avail, pri, bits, foreign>>
            /\ ev' = [ev EXCEPT ![c] = <<Frame(0, n)>>] \/ ev' = ev
        BY <1>1, <3>4 DEF MakeRoom, Now, IInv, Busy, Has, space, ghost, n
      <4> QED BY <1>1, <4>1, <4>2, BeginCount, SameKeeps
    <3>5. CASE Run(c)
      BY <1>1, <3>1, <3>2, <3>4, <3>5, TouchCount, AllocCount, PopCount, PlaceCount,
         GiveBackCount, EvictedCount DEF Run
    <3> QED BY <1>1, <2>2, <3>1, <3>2, <3>3, <3>5, DeleteCount
  <2> QED BY <1>3, <2>1, <2>2 DEF Next
<1> QED BY <1>2, <1>3

(* A victim's bit is cleared before its block is given back.               *)
LEMMA CountsAhead ==
  ASSUME CountInv, ~ foreign, NEW t \in Tiers
  PROVE  /\ AreaFree(t, 0) = Cardinality(avail[t]) + Cardinality(Leaving(t))
         /\ IsFiniteSet(avail[t])
         /\ Cardinality(avail[t]) \in Nat /\ Cardinality(Leaving(t)) \in Nat
<1>1. /\ IInv /\ Own(avail, Filed(pri), ev)
      /\ Partition(avail, Filed(pri), Moving(ev))
      /\ \A c \in Threads, i \in Nat : Moving(ev)[c][i] = Slot(ev, c, i).area.rep
      /\ \A p \in Block : p \in bits <=> Held(Filed(pri), ev, p)
      /\ \A c \in Threads, i \in Nat :
           Waiting(ev, c, i) => i = Len(ev[c]) /\ Slot(ev, c, i).area # NoArea
      /\ bits \subseteq Block /\ TierBlocks(t) \subseteq Block
  BY CountFacts, SpaceFacts, SlotFacts, Geometry DEF IInv, ThreadIn, SpaceIn
<1> DEFINE last(c) == Slot(ev, c, Len(ev[c]))
<1>2. \A c \in Threads : /\ Len(ev[c]) \in Nat
                         /\ c \in Leaving(t) <=> last(c).dst # NoBlk /\ last(c).src = t
  <2> SUFFICES ASSUME NEW c \in Threads
               PROVE  /\ Len(ev[c]) \in Nat
                      /\ c \in Leaving(t) <=> last(c).dst # NoBlk /\ last(c).src = t
    OBVIOUS
  <2>1. ev[c] \in Seq(FrameIn) /\ DOMAIN ev[c] = 1 .. Len(ev[c]) /\ Len(ev[c]) \in Nat
    BY <1>1, LenProperties DEF IInv, ThreadIn, EvIn
  <2>2. \A i \in DOMAIN ev[c] : i \in Nat /\ Slot(ev, c, i) = ev[c][i]
    BY <2>1 DEF Slot
  <2>3. last(c).dst # NoBlk => Len(ev[c]) \in DOMAIN ev[c]
    BY DEF Slot, Frame
  <2>4. c \in Leaving(t) <=> \E i \in DOMAIN ev[c] : ev[c][i].src = t /\ ev[c][i].dst # NoBlk
    BY DEF Leaving, Range
  <2> QED BY <1>1, <2>1, <2>2, <2>3, <2>4 DEF Waiting
<1> HIDE DEF last
<1>3. \A c \in Leaving(t) : c \in Threads
  BY DEF Leaving
<1> DEFINE F == [c \in Leaving(t) |-> last(c).area.rep]
           P == { F[c] : c \in Leaving(t) }
           B == bits \intersect TierBlocks(t)
           U == TierBlocks(t) \ bits
<1>4. \A c \in Leaving(t) : F[c] = last(c).area.rep /\ F[c] \in U
  <2> SUFFICES ASSUME NEW c \in Leaving(t) PROVE last(c).area.rep \in U
    OBVIOUS
  <2>1. c \in Threads /\ Len(ev[c]) \in Nat /\ last(c).dst # NoBlk /\ last(c).src = t
    BY <1>2, <1>3
  <2>2. last(c).area.rep \in TierBlocks(t) /\ last(c).area.rep \in Block
    BY <1>1, <2>1 DEF Own, Waiting, last
  <2>3. ~ Held(Filed(pri), ev, last(c).area.rep)
    <3>1. \A u \in Tiers : \A n \in Filed(pri)[u] : n.rep # last(c).area.rep
      BY <1>1, <2>1 DEF Partition, ListedOrMoving, last
    <3>2. ~ Marks(ev, last(c).area.rep)
      BY <1>1, <2>1, <2>2 DEF Partition, MovingOnce, Marks, last
    <3> QED BY <3>1, <3>2 DEF Held
  <2> QED BY <1>1, <2>2, <2>3
<1>5. U = avail[t] \union P
  <2>1. P \subseteq U
    BY <1>4
  <2>2. ASSUME NEW p \in avail[t] PROVE p \in U
    <3>1. p \in TierBlocks(t) /\ p \in Block
      BY <1>1 DEF Own
    <3>2. ~ Held(Filed(pri), ev, p)
      BY <1>1 DEF Held, Marks, Partition, FreeOrListed, FreeOrMoving
    <3> QED BY <1>1, <3>1, <3>2
  <2>3. ASSUME NEW p \in U, p \notin avail[t] PROVE p \in P
    <3>1. p \in Block /\ ~ Held(Filed(pri), ev, p)
      BY <1>1
    <3>2. \A u \in Tiers : p \in TierBlocks(u) => u = t
      BY <3>1, OneGroup
    <3>3. PICK c \in Threads, i \in Nat : p = Slot(ev, c, i).area.rep
      <4>1. \A u \in Tiers : p \notin avail[u]
        BY <1>1, <2>3, <3>2 DEF Own
      <4>2. \A u \in Tiers : \A n \in Filed(pri)[u] : p # n.rep
        BY <3>1 DEF Held
      <4> QED BY <1>1, <3>1, <4>1, <4>2 DEF Partition, Covered
    <3>4. Waiting(ev, c, i)
      BY <3>1, <3>3 DEF Held, Marks, Waiting
    <3>5. i = Len(ev[c]) /\ Slot(ev, c, i) = last(c) /\ last(c).area # NoArea
      BY <1>1, <3>4 DEF last
    <3>6. last(c).src \in Tiers /\ p \in TierBlocks(last(c).src)
      <4>1. Slot(ev, c, i) \in FrameIn
        BY <1>1, SlotFacts DEF IInv, ThreadIn
      <4> QED BY <1>1, <3>3, <3>5, <4>1 DEF FrameIn, Own, Tiers
    <3>7. c \in Leaving(t)
      BY <1>2, <3>2, <3>4, <3>5, <3>6 DEF Waiting
    <3> QED BY <1>4, <3>3, <3>5, <3>7
  <2> QED BY <2>1, <2>2, <2>3
<1>6. avail[t] \intersect P = {}
  <2> SUFFICES ASSUME NEW c \in Leaving(t), F[c] \in avail[t] PROVE FALSE
    OBVIOUS
  <2> QED BY <1>1, <1>2, <1>3, <1>4 DEF Partition, FreeOrMoving, last
<1>7. F \in Injection(Leaving(t), P) /\ F \in Surjection(Leaving(t), P)
  <2>1. ASSUME NEW c \in Leaving(t), NEW d \in Leaving(t), F[c] = F[d] PROVE c = d
    <3>1. /\ F[c] = Moving(ev)[c][Len(ev[c])] /\ F[d] = Moving(ev)[d][Len(ev[d])]
          /\ F[c] \in Block /\ c \in Threads /\ d \in Threads
          /\ Len(ev[c]) \in Nat /\ Len(ev[d]) \in Nat
      BY <1>1, <1>2, <1>3, <1>4 DEF last
    <3> HIDE DEF F
    <3>2. Moving(ev)[c][Len(ev[c])] = Moving(ev)[d][Len(ev[d])]
      BY <2>1, <3>1
    <3>3. MovingOnce(Moving(ev)) /\ Moving(ev)[c][Len(ev[c])] \in Block
      BY <1>1, <3>1 DEF Partition
    <3> QED BY <3>1, <3>2, <3>3 DEF MovingOnce
  <2>2. F \in [Leaving(t) -> P] /\ DOMAIN F = Leaving(t)
    OBVIOUS
  <2> HIDE DEF F
  <2> QED BY <2>1, <2>2 DEF Injection, Surjection, IsInjective
<1> HIDE DEF F, P, U
<1>8. /\ IsFiniteSet(TierBlocks(t)) /\ Cardinality(TierBlocks(t)) = AreaBlocks[t]
      /\ IsFiniteSet(U) /\ IsFiniteSet(B)
      /\ Cardinality(B) \in Nat /\ AreaBlocks[t] \in Nat
  BY Sizes, Geometry, FS_Subset, FS_CardinalityType DEF U
<1>9. Cardinality(U) = AreaBlocks[t] - Cardinality(B)
  <2>1. U = TierBlocks(t) \ B /\ TierBlocks(t) \intersect B = B
    BY DEF U
  <2> HIDE DEF B
  <2>2. Cardinality(TierBlocks(t) \ B)
          = Cardinality(TierBlocks(t)) - Cardinality(TierBlocks(t) \intersect B)
    BY <1>8, FS_Difference
  <2> QED BY <1>8, <2>1, <2>2
<1>10. /\ IsFiniteSet(avail[t]) /\ IsFiniteSet(P)
       /\ Cardinality(avail[t]) \in Nat /\ Cardinality(P) \in Nat
  <2>1. IsFiniteSet(avail[t]) /\ IsFiniteSet(P)
    BY <1>5, <1>8, FS_Subset
  <2> QED BY <2>1, FS_CardinalityType
<1>11. Cardinality(U) = Cardinality(avail[t]) + Cardinality(P)
  <2>1. Cardinality({}) = 0
    BY FS_EmptySet
  <2>2. Cardinality(avail[t] \union P)
          = Cardinality(avail[t]) + Cardinality(P) - Cardinality(avail[t] \intersect P)
    BY <1>10, FS_Union
  <2> QED BY <1>5, <1>6, <1>10, <2>1, <2>2
<1>12. Cardinality(Leaving(t)) = Cardinality(P)
  BY <1>7, <1>10, FS_Injection
<1>13. AreaFree(t, 0) = AreaBlocks[t] - Cardinality(B)
  BY <1>8 DEF AreaFree
<1> QED BY <1>9, <1>10, <1>11, <1>12, <1>13

(* However many threads sleep on copies, the count of free blocks that     *)
(* hypraid_is_area_bitmap_free takes from the bitmap exceeds the blocks in *)
(* the group's free extents by exactly one for each of the threads whose   *)
(* copy leaves the group: a victim's bit is cleared before its block is    *)
(* given back.                                                             *)
THEOREM CountersCountAhead == Spec => []CountersRunAhead
<1>1. CountInv => CountersRunAhead
  BY CountsAhead DEF CountersRunAhead
<1> QED BY InitCountInv, NextCountInv, <1>1, PTL DEF Spec

-----------------------------------------------------------------------------
(* The contents.  R is the tree, X the areas in transit, G the blocks whose *)
(* contents are to be kept: those written, not deleted since, and not met  *)
(* by a race.  Each has one area only, whose contents are current: on its  *)
(* block, or with every copy that is under way there.                      *)
Transit(e) ==
  { n \in AreaIn : \E c \in Threads, i \in Nat :
                     Slot(e, c, i).area = n /\ Slot(e, c, i).dst = NoBlk }

Copies == {"read", "readDone", "write"}

Fills(p, e, c, b) == p[c] \in Copies /\ Last(e[c]).dst = b

Current(n, p, e, b, d) ==
  /\ \A c \in Threads :
       Fills(p, e, c, n.rep) =>
         /\ Last(e[c]).area.ori = n.ori
         /\ IF p[c] = "read" THEN d[Last(e[c]).area.rep] = n.ori ELSE b[c] = n.ori
  /\ (\A c \in Threads : ~ Fills(p, e, c, n.rep)) => d[n.rep] = n.ori

MappedOnce(R) == \A m, n \in R : m.ori = n.ori => m = n

Kept(R, X, G, p, e, b, d) ==
  \A l \in G :
    /\ \E n \in R \union X : n.ori = l /\ Current(n, p, e, b, d)
    /\ \A m, n \in R \union X : m.ori = l /\ n.ori = l => m = n

(* A listed area that the tree refused has a twin.                         *)
Twinned(L, R, X) ==
  \A t \in Tiers : \A n \in L[t] \ R :
    n.ori \notin Deletes => \E m \in R \union X : m.ori = n.ori

(* A loop's area has a new block only while its thread sleeps.             *)
Awaits == \A c \in Threads, i \in Nat : Waiting(ev, c, i) => pc[c] \in Sleeps

DataInv ==
  /\ CountInv
  /\ Awaits
  /\ MappedOnce(repTree)
  /\ Kept(repTree, Transit(ev), written \ raced, pc, ev, buf, disk)
  /\ Twinned(Filed(pri), repTree, Transit(ev))

LEMMA InTransitIs ==
  ASSUME ev \in EvIn
  PROVE  InTransit = Transit(ev)
<1>1. ASSUME NEW c \in Threads
      PROVE  /\ ev[c] \in Seq(FrameIn) /\ DOMAIN ev[c] \subseteq Nat
             /\ \A i \in DOMAIN ev[c] : ev[c][i] \in FrameIn
  <2>1. ev[c] \in Seq(FrameIn)
    BY DEF EvIn
  <2> QED BY <2>1, LenProperties, ElementOfSeq
<1>2. NoArea \notin AreaIn /\ Frame(0, 0).area = NoArea
  BY NoBlkOutside DEF NoArea, Area, AreaIn, Frame
<1>3. \A n : n \in InTransit <=>
        n # NoArea /\ \E c \in Threads : \E i \in DOMAIN ev[c] :
                        ev[c][i].area = n /\ ev[c][i].dst = NoBlk
  BY DEF InTransit, Range
<1>4. ASSUME NEW n, n \in InTransit PROVE n \in Transit(ev)
  <2>1. PICK c \in Threads : \E i \in DOMAIN ev[c] :
          n # NoArea /\ ev[c][i].area = n /\ ev[c][i].dst = NoBlk
    BY <1>3, <1>4
  <2>2. PICK i \in DOMAIN ev[c] : n # NoArea /\ ev[c][i].area = n /\ ev[c][i].dst = NoBlk
    BY <2>1
  <2>3. i \in Nat /\ n \in AreaIn /\ Slot(ev, c, i) = ev[c][i]
    BY <1>1, <2>2 DEF FrameIn, Slot
  <2> QED BY <2>2, <2>3 DEF Transit
<1>5. ASSUME NEW n, n \in Transit(ev) PROVE n \in InTransit
  <2>1. PICK c \in Threads, i \in Nat : Slot(ev, c, i).area = n /\ Slot(ev, c, i).dst = NoBlk
    BY <1>5 DEF Transit
  <2>2. n \in AreaIn /\ n # NoArea
    BY <1>2, <1>5 DEF Transit
  <2>3. i \in DOMAIN ev[c] /\ Slot(ev, c, i) = ev[c][i]
    BY <1>2, <2>1, <2>2 DEF Slot
  <2> QED BY <1>3, <2>1, <2>2, <2>3
<1> QED BY <1>4, <1>5

(* What the partition says of the tree, of areas in transit and of copies. *)
LEMMA DataFacts ==
  ASSUME DataInv
  PROVE  /\ InTransit = Transit(ev) /\ repTree \subseteq AreaIn /\ Transit(ev) \subseteq AreaIn
         /\ \A n \in repTree : \E t \in Tiers : n \in Filed(pri)[t]
         /\ repTree \subseteq AllListed
         /\ \A m, n \in repTree \union Transit(ev) : m.rep = n.rep => m = n
         /\ \A t \in Tiers : \A m \in Filed(pri)[t], n \in Transit(ev) : m.rep # n.rep
         /\ \A t \in Tiers : \A n \in repTree \union Transit(ev) : n.rep \notin avail[t]
         /\ \A c \in Threads : pc[c] \in Copies =>
              /\ Last(ev[c]) \in FrameIn /\ Last(ev[c]).area \in AreaIn
              /\ Last(ev[c]).dst \in Block
              /\ \A n \in repTree \union Transit(ev) : n.rep # Last(ev[c]).area.rep
<1>1. /\ IInv /\ ev \in EvIn
      /\ Partition(avail, Filed(pri), Moving(ev))
      /\ \A n \in repTree : \E t \in Tiers : n \in Filed(pri)[t]
      /\ repTree \subseteq AreaIn /\ Transit(ev) \subseteq AreaIn
      /\ \A t \in Tiers : Filed(pri)[t] = Listed(t)
  BY CountFacts, SpaceFacts DEF DataInv, IInv, ThreadIn, SpaceIn, Transit, Filed, Listed
<1>2. InTransit = Transit(ev)
  BY <1>1, InTransitIs
<1>3. repTree \subseteq AllListed
  BY <1>1 DEF AllListed
<1>4. \A c \in Threads, i \in Nat : Moving(ev)[c][i] = Slot(ev, c, i).area.rep
  BY <1>1, SlotFacts
<1>5. \A n \in Transit(ev) : \E c \in Threads, i \in Nat :
        Slot(ev, c, i).area = n /\ Slot(ev, c, i).dst = NoBlk /\ n.rep = Moving(ev)[c][i]
        /\ n.rep \in Block
  BY <1>4 DEF Transit, AreaIn
<1>6. \A t \in Tiers : \A m \in Filed(pri)[t], n \in Transit(ev) : m.rep # n.rep
  BY <1>1, <1>5 DEF Partition, ListedOrMoving
<1>7. \A m, n \in Transit(ev) : m.rep = n.rep => m = n
  <2> SUFFICES ASSUME NEW m \in Transit(ev), NEW n \in Transit(ev), m.rep = n.rep
               PROVE  m = n
    OBVIOUS
  <2>1. PICK c \in Threads, i \in Nat :
          Slot(ev, c, i).area = m /\ m.rep = Moving(ev)[c][i] /\ m.rep \in Block
    BY <1>5
  <2>2. PICK d \in Threads, j \in Nat :
          Slot(ev, d, j).area = n /\ n.rep = Moving(ev)[d][j]
    BY <1>5
  <2>3. c = d /\ i = j
    <3> DEFINE M == Moving(ev)
    <3>1. MovingOnce(M) /\ M[c][i] \in Block /\ M[c][i] = M[d][j]
      BY <1>1, <2>1, <2>2 DEF Partition
    <3> HIDE DEF M
    <3> QED BY <3>1 DEF MovingOnce
  <2> QED BY <2>1, <2>2, <2>3
<1>8. \A m, n \in repTree \union Transit(ev) : m.rep = n.rep => m = n
  BY <1>1, <1>6, <1>7 DEF Partition, ListedOnce
<1>9. \A t \in Tiers : \A n \in repTree \union Transit(ev) : n.rep \notin avail[t]
  BY <1>1, <1>5 DEF Partition, FreeOrListed, FreeOrMoving
<1>10. ASSUME NEW c \in Threads, pc[c] \in Copies
       PROVE  /\ Last(ev[c]) \in FrameIn /\ Last(ev[c]).area \in AreaIn
              /\ Last(ev[c]).dst \in Block
              /\ \A n \in repTree \union Transit(ev) : n.rep # Last(ev[c]).area.rep
  <2>1. ev[c] # <<>> /\ Top(c).area # NoArea /\ Top(c).dst \in Block /\ Top(c) = Last(ev[c])
    BY <1>1, <1>10 DEF IInv, Busy, Has, Sleeps, Copies, Top
  <2>2. /\ Top(c) \in FrameIn /\ Len(ev[c]) \in Nat
        /\ Moving(ev)[c][Len(ev[c])] = Top(c).area.rep
    BY <1>1, <2>1, TopType
  <2>3. Top(c).area \in AreaIn /\ Top(c).area.rep \in Block
    BY <2>1, <2>2 DEF FrameIn, AreaIn
  <2>4. Slot(ev, c, Len(ev[c])) = Top(c)
    <3>1. Len(ev[c]) \in DOMAIN ev[c]
      <4>1. ev[c] \in Seq(FrameIn)
        BY <1>1 DEF EvIn
      <4> QED BY <2>1, <4>1, EmptySeq, LenProperties
    <3> QED BY <2>1, <3>1 DEF Slot, Last
  <2>5. Top(c).dst # NoBlk
    BY <2>1, NoBlkOutside
  <2>6. ASSUME NEW n \in Transit(ev) PROVE n.rep # Top(c).area.rep
    <3>1. PICK d \in Threads, j \in Nat :
            Slot(ev, d, j).dst = NoBlk /\ n.rep = Moving(ev)[d][j]
      BY <1>5
    <3>2. ~ (d = c /\ j = Len(ev[c]))
      BY <2>4, <2>5, <3>1
    <3> QED BY <1>1, <2>2, <2>3, <3>1, <3>2 DEF Partition, MovingOnce
  <2>7. ASSUME NEW n \in repTree PROVE n.rep # Top(c).area.rep
    BY <1>1, <2>2 DEF Partition, ListedOrMoving
  <2> QED BY <2>1, <2>2, <2>3, <2>6, <2>7
<1> QED BY <1>1, <1>2, <1>3, <1>6, <1>8, <1>9, <1>10

LEMMA DataNext ==
  ASSUME CountInv', Awaits', MappedOnce(repTree'),
         Kept(repTree', Transit(ev'), written' \ raced', pc', ev', buf', disk'),
         Twinned(Filed(pri'), repTree', Transit(ev'))
  PROVE  DataInv'
BY DEF DataInv

LEMMA AlikeAwaits ==
  ASSUME Awaits, Alike(ev'), \A c \in Threads : pc[c] \in Sleeps => pc'[c] \in Sleeps
  PROVE  Awaits'
<1>1. \A c \in Threads, i \in Nat : Waiting(ev', c, i) => Waiting(ev, c, i)
  BY DEF Alike, Idle, Waiting
<1> QED BY <1>1 DEF Awaits

LEMMA ChangedAwaits ==
  ASSUME Awaits, CountInv, NEW c \in Threads, NEW f, Changed(ev', c, Len(ev[c]), f),
         f.dst # NoBlk => pc'[c] \in Sleeps, \A d \in Threads \ {c} : pc'[d] = pc[d]
  PROVE  Awaits'
<1>1. ASSUME NEW d \in Threads, NEW i \in Nat, Waiting(ev', d, i)
      PROVE  pc'[d] \in Sleeps
  <2>1. CASE d = c /\ i = Len(ev[c])
    BY <1>1, <2>1 DEF Changed, Waiting
  <2>2. CASE ~ (d = c /\ i = Len(ev[c]))
    <3>1. Waiting(ev, d, i)
      BY <1>1, <2>2 DEF Changed, Idle, Waiting
    <3>2. d # c
      BY <2>2, <3>1, CountFacts
    <3> QED BY <3>1, <3>2 DEF Awaits
  <2> QED BY <2>1, <2>2
<1> QED BY <1>1 DEF Awaits

LEMMA AlikeTransit ==
  ASSUME NEW e, Alike(e)
  PROVE  Transit(e) = Transit(ev)
<1>1. \A f : Idle(f) => f.area \notin AreaIn
  BY NoBlkOutside DEF Idle, NoArea, Area, AreaIn
<1>2. ASSUME NEW n \in AreaIn, NEW d \in Threads, NEW i \in Nat
      PROVE  Slot(e, d, i).area = n /\ Slot(e, d, i).dst = NoBlk
               <=> Slot(ev, d, i).area = n /\ Slot(ev, d, i).dst = NoBlk
  BY <1>1 DEF Alike
<1> QED BY <1>2 DEF Transit

LEMMA ChangedTransit ==
  ASSUME NEW c \in Threads, NEW n \in Nat, NEW f, NEW e, Changed(e, c, n, f), NEW m \in AreaIn
  PROVE  m \in Transit(e) <=>
           \/ f.dst = NoBlk /\ f.area = m
           \/ \E d \in Threads, i \in Nat :
                ~ (d = c /\ i = n) /\ Slot(ev, d, i).dst = NoBlk /\ Slot(ev, d, i).area = m
<1>1. \A g : Idle(g) => g.area # m
  BY NoBlkOutside DEF Idle, NoArea, Area, AreaIn
<1>2. ASSUME NEW d \in Threads, NEW i \in Nat, ~ (d = c /\ i = n)
      PROVE  Slot(e, d, i).dst = NoBlk /\ Slot(e, d, i).area = m
               <=> Slot(ev, d, i).dst = NoBlk /\ Slot(ev, d, i).area = m
  BY <1>1, <1>2 DEF Changed
<1>3. Slot(e, c, n) = f
  BY DEF Changed
<1>4. ASSUME NEW d \in Threads, NEW i \in Nat, d = c, i = n
      PROVE  Slot(e, d, i).dst = NoBlk /\ Slot(e, d, i).area = m
               <=> f.dst = NoBlk /\ f.area = m
  BY <1>3, <1>4
<1> QED BY <1>2, <1>3, <1>4 DEF Transit

(* A step may leave all copies as they are.                                *)
CopiesSame ==
  \A c \in Threads :
    /\ pc'[c] \in Copies <=> pc[c] \in Copies
    /\ pc[c] \in Copies => /\ Last(ev'[c]) = Last(ev[c])
                           /\ pc'[c] = "read" <=> pc[c] = "read"

LEMMA CurrentSame ==
  ASSUME CopiesSame, UNCHANGED <<buf, disk>>, NEW n
  PROVE  Current(n, pc', ev', buf', disk') <=> Current(n, pc, ev, buf, disk)
<1>1. ASSUME NEW c \in Threads
      PROVE  /\ Fills(pc', ev', c, n.rep) <=> Fills(pc, ev, c, n.rep)
             /\ Fills(pc, ev, c, n.rep) => /\ Last(ev'[c]) = Last(ev[c])
                                           /\ pc'[c] = "read" <=> pc[c] = "read"
  BY DEF CopiesSame, Fills
<1> QED BY <1>1 DEF Current

LEMMA KeptSame ==
  ASSUME CopiesSame, UNCHANGED <<buf, disk>>, NEW R, NEW X, NEW G,
         Kept(R, X, G, pc, ev, buf, disk), NEW S, NEW Y, NEW H, H \subseteq G,
         \A l \in H : \A k : k \in S \union Y /\ k.ori = l <=> k \in R \union X /\ k.ori = l
  PROVE  Kept(S, Y, H, pc', ev', buf', disk')
<1> SUFFICES ASSUME NEW l \in H
             PROVE  /\ \E n \in S \union Y : n.ori = l /\ Current(n, pc', ev', buf', disk')
                    /\ \A m, n \in S \union Y : m.ori = l /\ n.ori = l => m = n
  BY DEF Kept
<1>1. PICK n \in R \union X : n.ori = l /\ Current(n, pc, ev, buf, disk)
  BY DEF Kept
<1>2. n \in S \union Y /\ Current(n, pc', ev', buf', disk')
  BY <1>1, CurrentSame
<1>3. \A m, k \in R \union X : m.ori = l /\ k.ori = l => m = k
  BY DEF Kept
<1> QED BY <1>1, <1>2, <1>3

LEMMA QuietData ==
  ASSUME DataInv, CountInv', Awaits', CopiesSame, UNCHANGED <<repTree, buf, disk, written, raced>>,
         Transit(ev') = Transit(ev),
         \A t \in Tiers : \A n \in Filed(pri')[t] : \E u \in Tiers : n \in Filed(pri)[u]
  PROVE  DataInv'
<1>1. Kept(repTree', Transit(ev'), written' \ raced', pc', ev', buf', disk')
  BY KeptSame DEF DataInv
<1>2. Twinned(Filed(pri'), repTree', Transit(ev'))
  BY DEF DataInv, Twinned
<1> QED BY <1>1, <1>2, DataNext DEF DataInv

LEMMA PopData ==
  ASSUME DataInv, CountInv', NEW c \in Threads, Pop(c)
  PROVE  DataInv'
<1> USE DEF IInv
<1> DEFINE t == Top(c).src
           v == Victim(c)
           f == [Top(c) EXCEPT !.area = v, !.want = @ - 1]
           g == Frame(1, -AreaFree(1, 1))
           s == IF t = 0 /\ AreaFree(1, 1) < 0
                THEN Under(c) \o <<f, g>> ELSE Append(Under(c), f)
           n == Len(ev[c])
<1>1. /\ pri' = PriExtract(pri, v) /\ repTree' = repTree \ {v} /\ v \in repTree
      /\ ev' = [ev EXCEPT ![c] = s]
      /\ pc[c] = "evict" /\ Top(c).area = NoArea
      /\ UNCHANGED <<pc, buf, disk, written, raced>>
  BY DEF Pop, Popping, Now, ghost
<1>2. CountInv /\ IInv /\ ev \in EvIn /\ ev[c] # <<>> /\ Top(c) \in FrameIn
  BY <1>1, CountFacts, TopType DEF DataInv, Busy, Has, ThreadIn
<1>3. v \in AreaIn /\ v.rep \in Block
  BY <1>1, <1>2 DEF SpaceIn, AreaIn
<1>4. f \in FrameIn /\ f.area = v /\ f.dst = Top(c).dst
  BY <1>2, <1>3, FrameChanges DEF FrameIn
<1>5. g \in FrameIn /\ Idle(g)
  <2>1. -AreaFree(1, 1) \in Int
    BY <1>2, AreaFreeType DEF Tiers
  <2> QED BY <2>1, FrameType DEF Idle, Frame
<1>6. s = Append(Under(c), f) \/ s = Under(c) \o <<f, g>>
  OBVIOUS
<1> HIDE DEF f, g, s, t, v
<1>7. /\ Changed(ev', c, n, f) /\ n \in Nat /\ Top(c) = Slot(ev, c, n)
      /\ \A d \in Threads \ {c} : ev'[d] = ev[d]
  <2>1. ev \in EvIn /\ ev[c] # <<>> /\ ev' = [ev EXCEPT ![c] = s]
    BY <1>1, <1>2
  <2>2. TopBecomes([ev EXCEPT ![c] = s], c, f)
    BY <1>4, <1>5, <1>6, <2>1, TopChanged
  <2> QED BY <2>1, <2>2 DEF TopBecomes
<1>8. f.dst = NoBlk
  BY <1>1, <1>2, <1>4, <1>7, CountFacts DEF Waiting
<1>9. Transit(ev') = Transit(ev) \union {v}
  <2>1. ASSUME NEW m \in AreaIn PROVE m \in Transit(ev') <=> m = v \/ m \in Transit(ev)
    <3>1. m \in Transit(ev') <=>
            \/ f.dst = NoBlk /\ f.area = m
            \/ \E d \in Threads, i \in Nat :
                 ~ (d = c /\ i = n) /\ Slot(ev, d, i).dst = NoBlk /\ Slot(ev, d, i).area = m
      BY <1>7, ChangedTransit
    <3>2. Top(c).area # m
      BY <1>1, NoBlkOutside DEF NoArea, Area, AreaIn
    <3> QED BY <1>4, <1>7, <1>8, <3>1, <3>2 DEF Transit
  <2>2. \A e : Transit(e) \subseteq AreaIn
    BY DEF Transit
  <2> QED BY <1>3, <2>1, <2>2
<1>10. repTree' \union Transit(ev') = repTree \union Transit(ev)
  BY <1>1, <1>9
<1>11. CopiesSame
  BY <1>1, <1>7 DEF CopiesSame, Copies
<1>12. Kept(repTree', Transit(ev'), written' \ raced', pc', ev', buf', disk')
  BY <1>1, <1>10, <1>11, KeptSame DEF DataInv
<1>13. Twinned(Filed(pri'), repTree', Transit(ev'))
  <2>1. \A u \in Tiers : Filed(pri')[u] = Filed(pri)[u] \ {v}
    BY <1>1, <1>2, SpaceFacts, ExtractLists
  <2> QED BY <1>1, <1>10, <2>1 DEF DataInv, Twinned
<1>14. MappedOnce(repTree')
  BY <1>1 DEF DataInv, MappedOnce
<1>15. Awaits'
  BY <1>1, <1>2, <1>7, <1>8, ChangedAwaits DEF DataInv
<1> QED BY <1>12, <1>13, <1>14, <1>15, DataNext

LEMMA GiveBackData ==
  ASSUME DataInv, CountInv', NEW c \in Threads, GiveBack(c)
  PROVE  DataInv'
<1> USE DEF IInv
<1> DEFINE f == Frame(Top(c).src, Top(c).want)
           n == Len(ev[c])
<1>1. /\ ev' = [ev EXCEPT ![c] = Append(Under(c), f)] /\ pc[c] = "writeDone"
      /\ pc' = [pc EXCEPT ![c] = "evict"]
      /\ UNCHANGED <<pri, repTree, buf, disk, written, raced>>
  BY DEF GiveBack, Goes, Now, ghost
<1>2. CountInv /\ IInv /\ ev \in EvIn /\ ev[c] # <<>> /\ Top(c) \in FrameIn
      /\ Top(c).dst # NoBlk /\ pc'[c] = "evict" /\ \A d \in Threads \ {c} : pc'[d] = pc[d]
  BY <1>1, CountFacts, TopType, NoBlkOutside DEF DataInv, Busy, Has, Sleeps, ThreadIn
<1>3. f \in FrameIn /\ Idle(f) /\ f.area = NoArea
  <2>1. Top(c).src \in {0, 1} /\ Top(c).want \in Int
    BY <1>2 DEF FrameIn
  <2> QED BY <2>1, FrameType DEF Idle, Frame
<1> HIDE DEF f
<1>4. /\ Changed(ev', c, n, f) /\ n \in Nat /\ Top(c) = Slot(ev, c, n)
      /\ \A d \in Threads \ {c} : ev'[d] = ev[d]
  <2> DEFINE r == Append(Under(c), f)
  <2>1. ev \in EvIn /\ ev[c] # <<>> /\ ev' = [ev EXCEPT ![c] = r]
    BY <1>1, <1>2
  <2>2. TopBecomes([ev EXCEPT ![c] = r], c, f)
    BY <1>3, <2>1, TopChanged
  <2> QED BY <2>1, <2>2 DEF TopBecomes
<1>5. Transit(ev') = Transit(ev)
  <2>1. ASSUME NEW m \in AreaIn PROVE m \in Transit(ev') <=> m \in Transit(ev)
    <3>1. m \in Transit(ev') <=>
            \/ f.dst = NoBlk /\ f.area = m
            \/ \E d \in Threads, i \in Nat :
                 ~ (d = c /\ i = n) /\ Slot(ev, d, i).dst = NoBlk /\ Slot(ev, d, i).area = m
      BY <1>4, ChangedTransit
    <3>2. f.area # m
      BY <1>3, NoBlkOutside DEF NoArea, Area, AreaIn
    <3> QED BY <1>2, <1>4, <3>1, <3>2 DEF Transit
  <2>2. \A e : Transit(e) \subseteq AreaIn
    BY DEF Transit
  <2> QED BY <2>1, <2>2
<1>6. CopiesSame
  BY <1>1, <1>2, <1>4 DEF CopiesSame, Copies
<1>7. Filed(pri') = Filed(pri)
  BY <1>1
<1>8. Awaits'
  BY <1>2, <1>3, <1>4, ChangedAwaits DEF DataInv, Idle
<1> QED BY <1>1, <1>5, <1>6, <1>7, <1>8, QuietData

LEMMA AllocData ==
  ASSUME DataInv, CountInv', NEW c \in Threads, Alloc(c)
  PROVE  DataInv'
<1> USE DEF IInv
<1> DEFINE N(p) == Area(bio[c].blk, p)
<1>1. PICK p \in Free(0) :
        /\ pri' = PriInsert(pri, 0, N(p))
        /\ repTree' = RepInsert(repTree, N(p))
        /\ raced' = IF Loose(N(p).ori) THEN raced \union {N(p).ori} ELSE raced
  BY DEF Alloc
<1> DEFINE m == N(p)
<1>2. CountInv /\ IInv /\ UNCHANGED <<ev, buf, disk, written>> /\ bio[c].blk \in Block
      /\ pc[c] = "alloc" /\ pc' = [pc EXCEPT ![c] = "issue"]
  BY CountFacts DEF DataInv, Alloc, Now, Goes, Busy, Has
<1>3. 0 \in Tiers /\ p \in avail[0] /\ p \in Block
  BY <1>2, FreeType DEF Tiers, SpaceIn
<1>4. m \in AreaIn /\ m.rep = p
  BY <1>2, <1>3 DEF Area, AreaIn
<1> HIDE DEF N
<1>5. CopiesSame
  BY <1>2 DEF CopiesSame, Copies, ThreadIn
<1>6. InTransit = Transit(ev)
  BY DataFacts
<1>7. \A l \in written' \ raced' :
        l \in written \ raced /\ (l = m.ori => \A k \in Transit(ev) : k.ori # l)
  BY <1>1, <1>2, <1>6 DEF Loose
<1>8. \A l \in written' \ raced' : \A k : k \in repTree' /\ k.ori = l <=> k \in repTree /\ k.ori = l
  <2> SUFFICES ASSUME NEW l \in written' \ raced', l = m.ori
               PROVE  \E k \in repTree : k.ori = m.ori
    BY <1>1 DEF RepInsert
  <2> QED BY <1>7 DEF DataInv, Kept
<1>9. Kept(repTree', Transit(ev'), written' \ raced', pc', ev', buf', disk')
  BY ZenonT(60), <1>2, <1>5, <1>7, <1>8, KeptSame DEF DataInv
<1>10. MappedOnce(repTree')
  BY <1>1 DEF DataInv, MappedOnce, RepInsert
<1>11. Twinned(Filed(pri'), repTree', Transit(ev'))
  <2>1. m \notin Filed(pri)[0]
    BY <1>2, <1>3, <1>4, SpaceFacts DEF Partition, FreeOrListed
  <2>2. pri \in PriIn /\ \A u \in Tiers : IsInjective(pri[u])
    BY <1>2, SpaceFacts
  <2>3. /\ PriInsert(pri, 0, m) \in PriIn
        /\ \A u \in Tiers :
             /\ IsInjective(PriInsert(pri, 0, m)[u])
             /\ Filed(PriInsert(pri, 0, m))[u]
                  = IF u = 0 THEN Filed(pri)[0] \union {m} ELSE Filed(pri)[u]
    BY <1>3, <1>4, <2>1, <2>2, InsertLists
  <2>4. \A u \in Tiers : \A k \in Filed(pri')[u] : k = m \/ k \in Filed(pri)[u]
    BY <1>1, <2>3
  <2>5. repTree \subseteq repTree' /\ \E k \in repTree' : k.ori = m.ori
    BY <1>1 DEF RepInsert
  <2> QED BY <1>2, <2>4, <2>5 DEF DataInv, Twinned
<1>12. Awaits'
  BY <1>2 DEF DataInv, Awaits, Sleeps, ThreadIn
<1> QED BY <1>9, <1>10, <1>11, <1>12, DataNext

LEMMA TouchData ==
  ASSUME DataInv, CountInv', NEW c \in Threads, Touch(c)
  PROVE  DataInv'
<1> USE DEF IInv
<1>1. PICK n \in At(bio[c].blk) : pri' = PriInsert(PriExtract(pri, n), 0, n)
  BY DEF Touch
<1> DEFINE q == PriExtract(pri, n)
<1>2. IInv /\ UNCHANGED <<repTree, ev, buf, disk, written, raced>>
      /\ pc[c] = "search" /\ pc' = [pc EXCEPT ![c] = "issue"]
  BY CountFacts DEF DataInv, Touch, Now, Goes
<1>3. n \in repTree /\ n \in AreaIn /\ 0 \in Tiers
  BY <1>2 DEF At, SpaceIn, Tiers
<1>4. /\ q \in PriIn
      /\ \A t \in Tiers : IsInjective(q[t]) /\ Filed(q)[t] = Filed(pri)[t] \ {n}
  BY <1>2, SpaceFacts, ExtractLists
<1> HIDE DEF q
<1>5. pri' = PriInsert(q, 0, n)
  BY <1>1 DEF q
<1>6. \A t \in Tiers : \A m \in Filed(pri')[t] : m = n \/ m \in Filed(pri)[t]
  <2>1. n \notin Filed(q)[0]
    BY <1>3, <1>4
  <2>2. q \in PriIn /\ \A t \in Tiers : IsInjective(q[t])
    BY <1>4
  <2>3. /\ PriInsert(q, 0, n) \in PriIn
        /\ \A t \in Tiers :
             /\ IsInjective(PriInsert(q, 0, n)[t])
             /\ Filed(PriInsert(q, 0, n))[t]
                  = IF t = 0 THEN Filed(q)[0] \union {n} ELSE Filed(q)[t]
    BY <1>3, <2>1, <2>2, InsertLists
  <2> QED BY <1>3, <1>4, <1>5, <2>3
<1>7. \A t \in Tiers : \A m \in Filed(pri')[t] : \E u \in Tiers : m \in Filed(pri)[u]
  BY <1>2, <1>3, <1>6, SpaceFacts
<1>8. CopiesSame
  BY <1>2 DEF CopiesSame, Copies, ThreadIn
<1>9. Transit(ev') = Transit(ev)
  BY <1>2
<1>10. Awaits'
  BY <1>2 DEF DataInv, Awaits, Sleeps, ThreadIn
<1> QED BY <1>2, <1>7, <1>8, <1>9, <1>10, QuietData

LEMMA PlaceData ==
  ASSUME DataInv, CountInv', NEW c \in Threads, Place(c)
  PROVE  DataInv'
<1> USE DEF IInv
<1> DEFINE t == Top(c).src
           s == Top(c).area
           N(p) == Area(s.ori, p)
           F(p) == [Top(c) EXCEPT !.dst = p]
           n == Len(ev[c])
<1>1. PICK p \in Free(t + 1) :
        /\ pri' = PriInsert(pri, t + 1, N(p))
        /\ repTree' = RepInsert(repTree, N(p))
        /\ ev' = [ev EXCEPT ![c] = Append(Under(c), F(p))]
        /\ raced' = IF Filling(s.rep) \/ Filling(p) THEN raced \union {s.ori} ELSE raced
  BY DEF Place
<1> DEFINE m == N(p)
           f == F(p)
<1>2. CountInv /\ IInv /\ ev \in EvIn /\ ev[c] # <<>> /\ Top(c) \in FrameIn /\ s # NoArea
      /\ UNCHANGED <<buf, disk, written>> /\ pc[c] = "evict"
      /\ pc'[c] = "read" /\ \A d \in Threads \ {c} : pc'[d] = pc[d]
  BY CountFacts, TopType DEF DataInv, Place, Placing, Now, Goes, Busy, Has, ThreadIn
<1>3. s \in AreaIn /\ s.ori \in Block /\ s.rep \in Block
  BY <1>2 DEF FrameIn, AreaIn
<1>4. t \in Tiers /\ t + 1 \in Tiers
  BY <1>2 DEF FrameIn, Tiers
<1>5. p \in avail[t + 1] /\ p \in Block /\ p # NoBlk
  BY <1>2, <1>4, FreeType, NoBlkOutside DEF SpaceIn
<1>6. m \in AreaIn /\ m.rep = p /\ m.ori = s.ori
  BY <1>3, <1>5 DEF Area, AreaIn
<1>7. f \in FrameIn /\ f.area = s /\ f.dst = p
  <2>1. Top(c) \in FrameIn /\ s \in AreaIn /\ p \in Block
    BY <1>2, <1>3, <1>5
  <2> QED BY <2>1, FrameChanges
<1>8. Frame(0, 0) \in FrameIn /\ Idle(Frame(0, 0))
  BY FrameType DEF Idle, Frame
<1> HIDE DEF N, F, s, t
<1>9. /\ Changed(ev', c, n, f) /\ n \in Nat /\ Top(c) = Slot(ev, c, n)
      /\ \A d \in Threads \ {c} : ev'[d] = ev[d]
      /\ Last(ev'[c]) = f
  <2> DEFINE r == Append(Under(c), f)
  <2>1. ev \in EvIn /\ ev[c] # <<>> /\ ev' = [ev EXCEPT ![c] = r]
    BY <1>1, <1>2
  <2>2. TopBecomes([ev EXCEPT ![c] = r], c, f)
    BY <1>7, <1>8, <2>1, TopChanged
  <2>3. Last([ev EXCEPT ![c] = r][c]) = f
    BY <1>7, <1>8, <2>1, NewTop DEF Idle
  <2> QED BY <2>1, <2>2, <2>3 DEF TopBecomes
<1>10. s \in Transit(ev)
  BY <1>2, <1>3, <1>9 DEF DataInv, Awaits, Sleeps, Transit, Waiting, s
<1>11. Transit(ev') = Transit(ev) \ {s}
  <2>1. ASSUME NEW k \in AreaIn PROVE k \in Transit(ev') <=> k # s /\ k \in Transit(ev)
    <3>1. k \in Transit(ev') <=>
            \E d \in Threads, i \in Nat :
              ~ (d = c /\ i = n) /\ Slot(ev, d, i).dst = NoBlk /\ Slot(ev, d, i).area = k
      BY <1>5, <1>7, <1>9, ChangedTransit
    <3>2. CASE k # s
      BY <1>9, <3>1, <3>2 DEF Transit, s
    <3>3. CASE k = s
      <4> SUFFICES ASSUME NEW d \in Threads, NEW i \in Nat, Slot(ev, d, i).area = s
                   PROVE  d = c /\ i = n
        BY <3>1, <3>3
      <4> DEFINE M == Moving(ev)
      <4>1. MovingOnce(M) /\ M[d][i] = M[c][n] /\ M[c][n] \in Block
        BY <1>2, <1>3, <1>9, SpaceFacts, SlotFacts DEF Partition, s
      <4> HIDE DEF M
      <4> QED BY <1>9, <4>1 DEF MovingOnce
    <3> QED BY <3>2, <3>3
  <2>2. \A e : Transit(e) \subseteq AreaIn
    BY DEF Transit
  <2> QED BY <2>1, <2>2
<1>12. /\ InTransit = Transit(ev) /\ \A b : Filling(b) <=> \E d \in Threads : Fills(pc, ev, d, b)
  BY DataFacts DEF Filling, Fills, Copying, Copies, Top
<1>13. \A k \in Transit(ev) : k.rep # p
  BY <1>4, <1>5, DataFacts
<1>14. \A k \in repTree : k.rep # p
  BY <1>4, <1>5, DataFacts
<1>15. ASSUME NEW k, k.rep # p, Current(k, pc, ev, buf, disk)
       PROVE  Current(k, pc', ev', buf', disk')
  <2>1. ASSUME NEW d \in Threads
        PROVE  /\ Fills(pc', ev', d, k.rep) <=> Fills(pc, ev, d, k.rep)
               /\ Fills(pc, ev, d, k.rep) => Last(ev'[d]) = Last(ev[d]) /\ pc'[d] = pc[d]
    <3>1. CASE d = c
      BY <1>2, <1>7, <1>9, <1>15, <3>1 DEF Fills, Copies
    <3>2. CASE d # c
      BY <1>2, <1>9, <3>2 DEF Fills
    <3> QED BY <3>1, <3>2
  <2> QED BY <1>2, <1>15, <2>1 DEF Current
<1>16. ASSUME NEW l \in written' \ raced'
       PROVE  /\ \E k \in repTree' \union Transit(ev') :
                   k.ori = l /\ Current(k, pc', ev', buf', disk')
              /\ \A j, k \in repTree' \union Transit(ev') : j.ori = l /\ k.ori = l => j = k
  <2>1. l \in written \ raced
    BY <1>1, <1>2, <1>16
  <2>2. /\ \E k \in repTree \union Transit(ev) : k.ori = l /\ Current(k, pc, ev, buf, disk)
        /\ \A j, k \in repTree \union Transit(ev) : j.ori = l /\ k.ori = l => j = k
    BY <2>1 DEF DataInv, Kept
  <2>3. CASE l # s.ori
    <3>1. \A k : k.ori = l => (k \in repTree' \union Transit(ev')
                                 <=> k \in repTree \union Transit(ev))
      BY <1>1, <1>6, <1>11, <2>3 DEF RepInsert
    <3>2. PICK k \in repTree \union Transit(ev) : k.ori = l /\ Current(k, pc, ev, buf, disk)
      BY <2>2
    <3>3. Current(k, pc', ev', buf', disk')
      BY <1>13, <1>14, <1>15, <3>2
    <3> QED BY <2>2, <3>1, <3>2, <3>3
  <2>4. CASE l = s.ori
    <3>1. /\ \A d \in Threads : ~ Fills(pc, ev, d, s.rep)
          /\ \A d \in Threads : ~ Fills(pc, ev, d, p)
      BY <1>1, <1>12, <1>16, <2>4
    <3>2. \A k \in repTree \union Transit(ev) : k.ori = l => k = s
      BY <1>10, <2>2, <2>4
    <3>3. disk[s.rep] = l
      BY <2>2, <3>1, <3>2 DEF Current
    <3>4. s \notin repTree
      <4>1. s.rep # s.rep \/ s \notin repTree
        BY <1>2, <1>10, DataFacts, SpaceFacts
      <4> QED BY <4>1
    <3>5. repTree' = repTree \union {m}
      BY <1>1, <1>6, <2>4, <3>2, <3>4 DEF RepInsert
    <3>6. \A k \in repTree' \union Transit(ev') : k.ori = l => k = m
      BY <1>11, <3>2, <3>4, <3>5
    <3>7. Current(m, pc', ev', buf', disk')
      <4>1. ASSUME NEW d \in Threads, Fills(pc', ev', d, p) PROVE d = c
        BY <1>2, <1>9, <3>1, <4>1 DEF Fills
      <4>2. Fills(pc', ev', c, p)
        BY <1>2, <1>7, <1>9 DEF Fills, Copies
      <4> QED BY <1>2, <1>6, <1>7, <1>9, <2>4, <3>3, <4>1, <4>2 DEF Current
    <3> QED BY <1>6, <2>4, <3>5, <3>6, <3>7
  <2> QED BY <2>3, <2>4
<1>17. Kept(repTree', Transit(ev'), written' \ raced', pc', ev', buf', disk')
  BY <1>16 DEF Kept
<1>18. MappedOnce(repTree')
  BY <1>1 DEF DataInv, MappedOnce, RepInsert
<1>19. Twinned(Filed(pri'), repTree', Transit(ev'))
  <2>1. m \notin Filed(pri)[t + 1]
    BY <1>2, <1>4, <1>5, <1>6, SpaceFacts DEF Partition, FreeOrListed
  <2>2. pri \in PriIn /\ \A u \in Tiers : IsInjective(pri[u])
    BY <1>2, SpaceFacts
  <2>3. /\ PriInsert(pri, t + 1, m) \in PriIn
        /\ \A u \in Tiers :
             /\ IsInjective(PriInsert(pri, t + 1, m)[u])
             /\ Filed(PriInsert(pri, t + 1, m))[u]
                  = IF u = t + 1 THEN Filed(pri)[t + 1] \union {m} ELSE Filed(pri)[u]
    BY ZenonT(60), <1>4, <1>6, <2>1, <2>2, InsertLists
  <2>4. \A u \in Tiers : \A k \in Filed(pri')[u] : k = m \/ k \in Filed(pri)[u]
    BY <1>1, <1>4, <2>3
  <2>5. repTree \subseteq repTree' /\ \E k \in repTree' : k.ori = s.ori
    BY <1>1, <1>6 DEF RepInsert
  <2>6. \A k \in repTree \union Transit(ev) : \E j \in repTree' \union Transit(ev') : j.ori = k.ori
    BY <1>11, <2>5
  <2> QED BY <1>6, <2>4, <2>5, <2>6 DEF DataInv, Twinned
<1>20. Awaits'
  BY <1>2, <1>9, ChangedAwaits DEF DataInv, Sleeps
<1> QED BY <1>17, <1>18, <1>19, <1>20, DataNext

LEMMA DeleteData ==
  ASSUME DataInv, CountInv', NEW c \in Threads, Delete(c)
  PROVE  DataInv'
<1> USE DEF IInv
<1> DEFINE Erased(l, n) ==
        /\ pri' = PriExtract(pri, n)
        /\ repTree' = repTree \ {n}
        /\ disk' = [p \in Block |-> IF disk[p] = l THEN NoData ELSE disk[p]]
        /\ buf' = [d \in Threads |-> IF buf[d] = l THEN NoData ELSE buf[d]]
        /\ written' = written \ {l}
<1>0. PICK l \in Deletes : \E n \in At(l) : Erased(l, n)
  BY DEF Delete
<1>1. PICK n \in At(l) : Erased(l, n)
  BY <1>0
<1>2. IInv /\ UNCHANGED <<pc, ev, raced>> /\ n \in repTree /\ n.ori = l
  BY CountFacts DEF DataInv, Delete, At
<1>3. \A t \in Tiers : Filed(pri')[t] = Filed(pri)[t] \ {n}
  BY <1>1, <1>2, SpaceFacts, ExtractLists
<1>4. ASSUME NEW k \in repTree \union Transit(ev), k.ori # l, Current(k, pc, ev, buf, disk)
      PROVE  Current(k, pc', ev', buf', disk')
  <2>1. k.rep \in Block
    BY DataFacts DEF AreaIn
  <2>2. ASSUME NEW d \in Threads, Fills(pc, ev, d, k.rep), pc[d] = "read"
        PROVE  disk'[Last(ev[d]).area.rep] = k.ori
    <3>1. Last(ev[d]).area.rep \in Block
      BY <2>2, DataFacts DEF Copies, AreaIn
    <3> QED BY <1>1, <1>4, <2>2, <3>1 DEF Current
  <2>3. ASSUME NEW d \in Threads, Fills(pc, ev, d, k.rep), pc[d] # "read"
        PROVE  buf'[d] = k.ori
    BY <1>1, <1>4, <2>3 DEF Current
  <2>4. (\A d \in Threads : ~ Fills(pc, ev, d, k.rep)) => disk'[k.rep] = k.ori
    BY <1>1, <1>4, <2>1 DEF Current
  <2> QED BY <1>2, <1>4, <2>2, <2>3, <2>4 DEF Current
<1>5. Kept(repTree', Transit(ev'), written' \ raced', pc', ev', buf', disk')
  <2> SUFFICES ASSUME NEW j \in written' \ raced'
               PROVE  /\ \E k \in repTree' \union Transit(ev') :
                           k.ori = j /\ Current(k, pc', ev', buf', disk')
                      /\ \A i, k \in repTree' \union Transit(ev') :
                           i.ori = j /\ k.ori = j => i = k
    BY DEF Kept
  <2>1. j \in written \ raced /\ j # l
    BY <1>1, <1>2
  <2>2. /\ \E k \in repTree \union Transit(ev) : k.ori = j /\ Current(k, pc, ev, buf, disk)
        /\ \A i, k \in repTree \union Transit(ev) : i.ori = j /\ k.ori = j => i = k
    BY <2>1 DEF DataInv, Kept
  <2>3. \A k : k.ori = j => (k \in repTree' \union Transit(ev')
                               <=> k \in repTree \union Transit(ev))
    BY <1>1, <1>2, <2>1
  <2> QED BY <1>4, <2>1, <2>2, <2>3
<1>6. MappedOnce(repTree')
  BY <1>1 DEF DataInv, MappedOnce
<1>7. Twinned(Filed(pri'), repTree', Transit(ev'))
  BY <1>1, <1>2, <1>3 DEF DataInv, Twinned
<1>8. Awaits'
  BY <1>2 DEF DataInv, Awaits
<1> QED BY <1>5, <1>6, <1>7, <1>8, DataNext

LEMMA ReadLandsData ==
  ASSUME DataInv, CountInv', NEW c \in Threads, ReadLands(c)
  PROVE  DataInv'
<1> USE DEF IInv
<1>1. /\ buf' = [buf EXCEPT ![c] = disk[Top(c).area.rep]] /\ pc[c] = "read"
      /\ UNCHANGED <<pri, repTree, ev, disk, written, raced>>
  BY DEF ReadLands, space, ghost
<1>2. /\ pc'[c] = "readDone" /\ \A d \in Threads \ {c} : pc'[d] = pc[d]
      /\ buf'[c] = disk[Top(c).area.rep] /\ \A d \in Threads \ {c} : buf'[d] = buf[d]
  BY <1>1, CountFacts DEF DataInv, ReadLands, Goes, Woken, ThreadIn, DataIn
<1>3. ASSUME NEW k, Current(k, pc, ev, buf, disk)
      PROVE  Current(k, pc', ev', buf', disk')
  <2>1. \A d \in Threads : Fills(pc', ev', d, k.rep) <=> Fills(pc, ev, d, k.rep)
    BY <1>1, <1>2 DEF Fills, Copies
  <2>2. ASSUME NEW d \in Threads, Fills(pc', ev', d, k.rep)
        PROVE  /\ Last(ev'[d]).area.ori = k.ori
               /\ IF pc'[d] = "read" THEN disk'[Last(ev'[d]).area.rep] = k.ori
                                     ELSE buf'[d] = k.ori
    <3>1. /\ Last(ev[d]).area.ori = k.ori
          /\ IF pc[d] = "read" THEN disk[Last(ev[d]).area.rep] = k.ori ELSE buf[d] = k.ori
      BY <1>3, <2>1, <2>2 DEF Current
    <3>2. CASE d = c
      BY <1>1, <1>2, <3>1, <3>2 DEF Top
    <3>3. CASE d # c
      BY <1>1, <1>2, <3>1, <3>3
    <3> QED BY <3>2, <3>3
  <2> QED BY <1>1, <1>3, <2>1, <2>2 DEF Current
<1>4. Kept(repTree', Transit(ev'), written' \ raced', pc', ev', buf', disk')
  BY <1>1, <1>3 DEF DataInv, Kept
<1>5. Awaits'
  BY <1>1, <1>2 DEF DataInv, Awaits, Sleeps
<1> QED BY <1>1, <1>4, <1>5, DataNext DEF DataInv

LEMMA WriteLandsData ==
  ASSUME DataInv, CountInv', NEW c \in Threads, WriteLands(c)
  PROVE  DataInv'
<1> USE DEF IInv
<1> DEFINE q == Top(c).dst
           o == Top(c).area.ori
<1>1. /\ disk' = [disk EXCEPT ![q] = buf[c]] /\ buf' = [buf EXCEPT ![c] = NoData]
      /\ raced' = raced \union Strikes(q, o) /\ pc[c] = "write"
      /\ UNCHANGED <<pri, repTree, ev, written>>
  BY DEF WriteLands, space
<1>2. /\ pc'[c] = "writeDone" /\ \A d \in Threads \ {c} : pc'[d] = pc[d]
      /\ \A d \in Threads \ {c} : buf'[d] = buf[d]
      /\ \A p \in Block : disk'[p] = IF p = q THEN buf[c] ELSE disk[p]
  BY <1>1, CountFacts DEF DataInv, WriteLands, Goes, Woken, ThreadIn, DataIn
<1>3. Last(ev[c]) = Top(c) /\ Fills(pc, ev, c, q)
  BY <1>1 DEF Fills, Copies, Top
<1> HIDE DEF q, o
<1>4. ASSUME NEW k \in repTree \union Transit(ev), k.ori \notin raced',
             Current(k, pc, ev, buf, disk)
      PROVE  Current(k, pc', ev', buf', disk')
  <2>1. k.rep \in Block
    BY DataFacts DEF AreaIn
  <2>2. ASSUME NEW d \in Threads, Fills(pc', ev', d, k.rep)
        PROVE  /\ Last(ev'[d]).area.ori = k.ori
               /\ IF pc'[d] = "read" THEN disk'[Last(ev'[d]).area.rep] = k.ori
                                     ELSE buf'[d] = k.ori
    <3>1. d # c /\ Fills(pc, ev, d, k.rep)
      BY <1>1, <1>2, <2>2 DEF Fills, Copies
    <3>2. /\ Last(ev[d]).area.ori = k.ori
          /\ IF pc[d] = "read" THEN disk[Last(ev[d]).area.rep] = k.ori ELSE buf[d] = k.ori
      BY <1>4, <3>1 DEF Current
    <3>3. ASSUME pc[d] = "read" PROVE Last(ev[d]).area.rep # q
      <4> SUFFICES ASSUME Last(ev[d]).area.rep = q PROVE FALSE
        OBVIOUS
      <4>1. Last(ev[d]) = Top(d)
        BY DEF Top
      <4>2. Area(o, q) \notin repTree
        <5>1. Area(o, q).rep = q
          BY DEF Area
        <5> QED BY <3>3, <5>1, DataFacts DEF Copies
      <4>3. k.ori \in Strikes(q, o)
        BY <3>2, <3>3, <4>1, <4>2 DEF Strikes
      <4> QED BY <1>1, <1>4, <4>3
    <3>4. Last(ev[d]).area.rep \in Block
      BY <3>1, DataFacts DEF Fills, AreaIn
    <3> QED BY <1>1, <1>2, <3>1, <3>2, <3>3, <3>4
  <2>3. ASSUME \A d \in Threads : ~ Fills(pc', ev', d, k.rep)
        PROVE  disk'[k.rep] = k.ori
    <3>1. CASE k.rep = q
      BY <1>1, <1>2, <1>3, <1>4, <2>1, <3>1 DEF Current
    <3>2. CASE k.rep # q
      <4>1. ASSUME NEW d \in Threads PROVE ~ Fills(pc, ev, d, k.rep)
        BY <1>1, <1>2, <1>3, <2>3, <3>2 DEF Fills, q
      <4> QED BY <1>2, <1>4, <2>1, <3>2, <4>1 DEF Current
    <3> QED BY <3>1, <3>2
  <2> QED BY <2>2, <2>3 DEF Current
<1>5. Kept(repTree', Transit(ev'), written' \ raced', pc', ev', buf', disk')
  <2> SUFFICES ASSUME NEW l \in written' \ raced'
               PROVE  /\ \E k \in repTree' \union Transit(ev') :
                           k.ori = l /\ Current(k, pc', ev', buf', disk')
                      /\ \A j, k \in repTree' \union Transit(ev') :
                           j.ori = l /\ k.ori = l => j = k
    BY DEF Kept
  <2>1. l \in written \ raced
    BY <1>1
  <2>2. PICK k \in repTree \union Transit(ev) : k.ori = l /\ Current(k, pc, ev, buf, disk)
    BY <2>1 DEF DataInv, Kept
  <2>3. Current(k, pc', ev', buf', disk')
    BY <1>4, <2>2
  <2>4. \A i, j \in repTree \union Transit(ev) : i.ori = l /\ j.ori = l => i = j
    BY <2>1 DEF DataInv, Kept
  <2> QED BY <1>1, <2>2, <2>3, <2>4
<1>6. Awaits'
  BY <1>1, <1>2 DEF DataInv, Awaits, Sleeps
<1> QED BY <1>1, <1>5, <1>6, DataNext DEF DataInv

LEMMA BioLandsData ==
  ASSUME DataInv, CountInv', NEW c \in Threads, BioLands(c)
  PROVE  DataInv'
<1> USE DEF IInv
<1> DEFINE l == bio[c].blk
           p == at[c]
<1>1. /\ pc[c] = "bio" /\ pc'[c] = "idle" /\ \A d \in Threads \ {c} : pc'[d] = pc[d]
      /\ UNCHANGED <<pri, repTree, ev>> /\ l \in Block /\ p \in Block
  BY CountFacts DEF DataInv, BioLands, Goes, ThreadIn, Busy, Has, space
<1>2. Awaits'
  BY <1>1 DEF DataInv, Awaits, Sleeps
<1>3. CopiesSame
  BY <1>1 DEF CopiesSame, Copies
<1>4. CASE ~ bio[c].write
  <2>1. UNCHANGED <<disk, buf, written, raced>>
    BY <1>4 DEF BioLands
  <2> QED BY <1>1, <1>2, <1>3, <2>1, QuietData
<1>5. CASE bio[c].write
  <2>1. /\ \A q \in Block : disk'[q] = IF q = p THEN l ELSE IF disk[q] = l THEN NoData ELSE disk[q]
        /\ \A d \in Threads : buf'[d] = IF buf[d] = l THEN NoData ELSE buf[d]
        /\ written' = written \union {l}
        /\ raced' = IF Area(l, p) \notin repTree THEN raced \union Strikes(p, l) \union {l}
                    ELSE IF Filling(p) \/ Loose(l) THEN raced \union {l}
                    ELSE raced \ {l}
    BY <1>5 DEF BioLands
  <2> HIDE DEF l, p
  <2>2. /\ Area(l, p).rep = p /\ Area(l, p).ori = l
        /\ InTransit = Transit(ev) /\ repTree \subseteq AllListed
        /\ \A b : Filling(b) <=> \E d \in Threads : Fills(pc, ev, d, b)
    BY DataFacts DEF Area, Filling, Fills, Copying, Copies, Top
  <2>3. ASSUME NEW k \in repTree \union Transit(ev), k.ori # l, k.ori \notin raced',
               Current(k, pc, ev, buf, disk)
        PROVE  Current(k, pc', ev', buf', disk')
    <3>1. k.rep # p
      <4> SUFFICES ASSUME k.rep = p PROVE FALSE
        OBVIOUS
      <4>1. Area(l, p) \notin repTree
        BY <2>2, <2>3, DataFacts
      <4>2. k \in AllListed \union InTransit
        BY <2>2
      <4>3. k.ori \in Strikes(p, l)
        BY <4>1, <4>2 DEF Strikes
      <4> QED BY <2>1, <2>3, <4>1, <4>3
    <3>2. k.rep \in Block
      BY DataFacts DEF AreaIn
    <3>3. \A d \in Threads : Fills(pc', ev', d, k.rep) <=> Fills(pc, ev, d, k.rep)
      BY <1>1 DEF Fills, Copies
    <3>4. ASSUME NEW d \in Threads, Fills(pc, ev, d, k.rep)
          PROVE  /\ Last(ev'[d]).area.ori = k.ori
                 /\ IF pc'[d] = "read" THEN disk'[Last(ev'[d]).area.rep] = k.ori
                                       ELSE buf'[d] = k.ori
      <4>1. /\ Last(ev[d]).area.ori = k.ori /\ pc'[d] = pc[d]
            /\ IF pc[d] = "read" THEN disk[Last(ev[d]).area.rep] = k.ori ELSE buf[d] = k.ori
        BY <1>1, <2>3, <3>4 DEF Current, Fills, Copies
      <4>2. Last(ev[d]).area.rep \in Block
        BY <3>4, DataFacts DEF Fills, AreaIn
      <4>3. ASSUME pc[d] = "read" PROVE Last(ev[d]).area.rep # p
        <5> SUFFICES ASSUME Last(ev[d]).area.rep = p PROVE FALSE
          OBVIOUS
        <5>1. Last(ev[d]) = Top(d)
          BY DEF Top
        <5>2. Area(l, p) \notin repTree
          BY <2>2, <4>3, DataFacts DEF Copies
        <5>3. k.ori \in Strikes(p, l)
          BY <4>1, <4>3, <5>1, <5>2 DEF Strikes
        <5> QED BY <2>1, <2>3, <5>2, <5>3
      <4> QED BY <1>1, <2>1, <2>3, <4>1, <4>2, <4>3
    <3>5. ASSUME \A d \in Threads : ~ Fills(pc, ev, d, k.rep)
          PROVE  disk'[k.rep] = k.ori
      BY <2>1, <2>3, <3>1, <3>2, <3>5 DEF Current
    <3> QED BY <3>3, <3>4, <3>5 DEF Current
  <2>4. ASSUME NEW j \in written' \ raced'
        PROVE  /\ \E k \in repTree' \union Transit(ev') :
                    k.ori = j /\ Current(k, pc', ev', buf', disk')
               /\ \A i, k \in repTree' \union Transit(ev') : i.ori = j /\ k.ori = j => i = k
    <3>1. CASE j # l
      <4>1. j \in written \ raced
        BY <2>1, <2>4, <3>1
      <4>2. /\ \E k \in repTree \union Transit(ev) :
                 k.ori = j /\ Current(k, pc, ev, buf, disk)
            /\ \A i, k \in repTree \union Transit(ev) : i.ori = j /\ k.ori = j => i = k
        BY <4>1 DEF DataInv, Kept
      <4> QED BY <1>1, <2>3, <2>4, <3>1, <4>2
    <3>2. CASE j = l
      <4>1. Area(l, p) \in repTree /\ ~ Filling(p) /\ ~ Loose(l)
        BY <2>1, <2>4, <3>2
      <4>2. \A k \in repTree \union Transit(ev) : k.ori = l => k = Area(l, p)
        BY <2>2, <4>1 DEF Loose, DataInv, MappedOnce
      <4>3. \A d \in Threads : ~ Fills(pc', ev', d, p)
        BY <1>1, <2>2, <4>1 DEF Fills, Copies
      <4>4. disk'[p] = l
        BY <1>1, <2>1 DEF p
      <4>5. Current(Area(l, p), pc', ev', buf', disk')
        BY <2>2, <4>3, <4>4 DEF Current
      <4> QED BY <1>1, <2>2, <3>2, <4>1, <4>2, <4>5
    <3> QED BY <3>1, <3>2
  <2>5. Kept(repTree', Transit(ev'), written' \ raced', pc', ev', buf', disk')
    BY <2>4 DEF Kept
  <2> QED BY <1>1, <1>2, <2>5, DataNext DEF DataInv
<1> QED BY <1>4, <1>5

LEMMA InitDataInv == Init => DataInv
<1> SUFFICES ASSUME Init PROVE DataInv
  OBVIOUS
<1>1. CountInv /\ ev \in EvIn
  BY InitCountInv, CountFacts DEF IInv, ThreadIn
<1>2. \A c \in Threads, i \in Nat : ~ Waiting(ev, c, i)
  BY <1>1, SlotFacts DEF Init, Idle, Waiting
<1>3. written = {} /\ repTree = {} /\ \A t \in Tiers : Filed(pri)[t] = {}
  BY DEF Init, Filed, Range
<1> QED BY <1>1, <1>2, <1>3 DEF DataInv, Awaits, MappedOnce, Kept, Twinned

LEMMA NextDataInv == DataInv /\ [Next]_vars => DataInv'
<1> SUFFICES ASSUME DataInv, [Next]_vars PROVE DataInv'
  OBVIOUS
<1>1. CountInv /\ CountInv' /\ IInv /\ ThreadIn
  BY NextCountInv, CountFacts DEF DataInv, IInv
<1>2. ASSUME UNCHANGED <<pri, repTree, pc, ev, buf, disk, written, raced>>
      PROVE  DataInv'
  BY <1>1, <1>2, QuietData DEF DataInv, Awaits, CopiesSame
<1>3. CASE UNCHANGED vars
  BY <1>2, <1>3 DEF vars, space, thread, ghost
<1>4. CASE Next
  <2>1. CASE Halted
    BY <1>2, <2>1 DEF Halted, vars, space, thread, ghost
  <2>2. ASSUME NEW c \in Threads,
               Submit(c) \/ Evict(c) \/ Delete(c) \/ DeleteRoot(c) \/ Run(c) \/ Land(c)
        PROVE  DataInv'
    <3>1. ASSUME UNCHANGED <<pri, repTree, buf, disk, written, raced>>, Alike(ev'),
                 \A d \in Threads \ {c} : ev'[d] = ev[d] /\ pc'[d] = pc[d],
                 \/ pc[c] \notin Copies
                 \/ ev'[c] = ev[c] /\ pc[c] = "readDone" /\ pc'[c] = "write",
                 pc'[c] \notin Copies \/ pc[c] \in Copies,
                 pc[c] \notin Sleeps \/ pc'[c] \in Sleeps
          PROVE  DataInv'
      <4>1. Awaits'
        BY <3>1, AlikeAwaits DEF DataInv
      <4>2. CopiesSame
        BY <3>1 DEF CopiesSame, Copies
      <4>3. Transit(ev') = Transit(ev)
        BY <3>1, AlikeTransit
      <4>4. Filed(pri') = Filed(pri)
        BY <3>1
      <4> QED BY <1>1, <3>1, <4>1, <4>2, <4>3, <4>4, QuietData
    <3>2. ev' = ev => Alike(ev')
      BY DEF Alike
    <3>3. CASE Submit(c) \/ Issue(c) \/ WriteOut(c)
      BY <1>1, <3>1, <3>2, <3>3 DEF Submit, Issue, WriteOut, Now, Goes, Copies, Sleeps,
         ThreadIn, space, ghost
    <3>4. CASE PopEmpty(c) \/ PopUnlinked(c) \/ NoAvail(c) \/ EraseRoot(c) \/ DeleteRoot(c)
      BY <1>2, <3>4 DEF PopEmpty, PopUnlinked, NoAvail, EraseRoot, DeleteRoot, Stop, space,
         thread, ghost
    <3>5. CASE Evict(c)
      <4>1. PICK n \in Evictions : ev' = [ev EXCEPT ![c] = <<Frame(0, n)>>]
        BY <3>5 DEF Evict
      <4>2. ev[c] = <<>> /\ n \in Int /\ ev \in EvIn
        BY <1>1, <3>5, DemotionAssumption DEF Evict, Now, IInv, Busy, Has, ThreadIn
      <4>3. Alike(ev') /\ \A d \in Threads \ {c} : ev'[d] = ev[d]
        BY <4>1, <4>2, BeginAlike
      <4>4. /\ pc[c] = "idle" /\ pc'[c] = "evict"
            /\ \A d \in Threads \ {c} : pc'[d] = pc[d]
            /\ UNCHANGED <<pri, repTree, buf, disk, written, raced>>
        BY <1>1, <3>5 DEF Evict, Now, Goes, ThreadIn, space, ghost
      <4>5. pc[c] \notin Copies /\ pc'[c] \notin Copies /\ pc[c] \notin Sleeps
        BY <4>4 DEF Copies, Sleeps
      <4>6. \A d \in Threads \ {c} : ev'[d] = ev[d] /\ pc'[d] = pc[d]
        BY <4>3, <4>4
      <4> QED BY <3>1, <4>3, <4>4, <4>5, <4>6
    <3>6. CASE MakeRoom(c)
      <4> DEFINE n == -AreaFree(0, 1)
      <4>1. n \in Int
        BY <1>1, AreaFreeType DEF Tiers
      <4> HIDE DEF n
      <4>2. /\ ev[c] = <<>> /\ ev \in EvIn
            /\ ev' = [ev EXCEPT ![c] = <<Frame(0, n)>>] \/ ev' = ev
        BY <1>1, <3>6 DEF MakeRoom, Now, IInv, Busy, Has, ThreadIn, n
      <4>3. Alike(ev') /\ \A d \in Threads \ {c} : ev'[d] = ev[d]
        BY <3>2, <4>1, <4>2, BeginAlike
      <4>4. /\ pc[c] = "search" /\ pc'[c] \in {"evict", "alloc"}
            /\ \A d \in Threads \ {c} : pc'[d] = pc[d]
            /\ UNCHANGED <<pri, repTree, buf, disk, written, raced>>
        BY <1>1, <3>6 DEF MakeRoom, Now, Goes, ThreadIn, space, ghost
      <4>5. pc[c] \notin Copies /\ pc'[c] \notin Copies /\ pc[c] \notin Sleeps
        BY <4>4 DEF Copies, Sleeps
      <4>6. \A d \in Threads \ {c} : ev'[d] = ev[d] /\ pc'[d] = pc[d]
        BY <4>3, <4>4
      <4> QED BY <3>1, <4>3, <4>4, <4>5, <4>6
    <3>7. CASE Evicted(c)
      <4>1. Alike(ev') /\ \A d \in Threads \ {c} : ev'[d] = ev[d]
        BY <1>1, <3>7, EvictedAlike
      <4>2. /\ pc[c] = "evict" /\ pc'[c] \in {"evict", "alloc", "idle"}
            /\ \A d \in Threads \ {c} : pc'[d] = pc[d]
            /\ UNCHANGED <<pri, repTree, buf, disk, written, raced>>
        BY <1>1, <3>7 DEF Evicted, Now, Goes, ThreadIn, space, ghost
      <4>3. pc[c] \notin Copies /\ pc'[c] \notin Copies /\ pc[c] \notin Sleeps
        BY <4>2 DEF Copies, Sleeps
      <4>4. \A d \in Threads \ {c} : ev'[d] = ev[d] /\ pc'[d] = pc[d]
        BY <4>1, <4>2
      <4> QED BY <3>1, <4>1, <4>2, <4>3, <4>4
    <3>8. CASE Run(c)
      BY <1>1, <3>3, <3>4, <3>6, <3>7, <3>8, TouchData, AllocData, PopData, PlaceData,
         GiveBackData DEF Run
    <3>9. CASE Land(c)
      BY <1>1, <3>9, BioLandsData, ReadLandsData, WriteLandsData DEF Land
    <3> QED BY <1>1, <2>2, <3>3, <3>4, <3>5, <3>8, <3>9, DeleteData
  <2> QED BY <1>4, <2>1, <2>2 DEF Next
<1> QED BY <1>3, <1>4

(* However many threads sleep in demotions, and in whatever order the      *)
(* device does their bios, the contents of a block that was written and    *)
(* not deleted since are lost in the races only that add to raced.         *)
THEOREM OnlyRacesLose == Spec => []LostOnlyInRaces
<1>1. DataInv => LostOnlyInRaces
  <2> SUFFICES ASSUME DataInv, NEW l \in written \ raced
               PROVE  \E n \in repTree \union InTransit : n.ori = l /\ Holds(n)
    BY DEF LostOnlyInRaces
  <2>1. PICK n \in repTree \union Transit(ev) : n.ori = l /\ Current(n, pc, ev, buf, disk)
    BY DEF DataInv, Kept
  <2>2. Holds(n)
    BY <2>1 DEF Current, Fills, Holds, Copying, Copies, Top
  <2> QED BY <2>1, <2>2, DataFacts
<1> QED BY InitDataInv, NextDataInv, <1>1, PTL DEF Spec

(* And what a read finds on the block that is mapped is current, unless a  *)
(* copy is still to fill it: no stale contents are returned but in races.  *)
THEOREM ReadsAreCurrent == Spec => []MappedIsCurrent
<1>1. DataInv => MappedIsCurrent
  <2> SUFFICES ASSUME DataInv, NEW n \in repTree, n.ori \in written \ raced, ~ Filling(n.rep)
               PROVE  disk[n.rep] = n.ori
    BY DEF MappedIsCurrent
  <2>1. Current(n, pc, ev, buf, disk)
    BY DEF DataInv, Kept
  <2> QED BY <2>1 DEF Current, Fills, Filling, Copying, Copies, Top
<1> QED BY InitDataInv, NextDataInv, <1>1, PTL DEF Spec

(* An area that the tree refused because another thread had mapped its     *)
(* block in the meantime leaves no block unmapped: its twin stays in the   *)
(* tree, or on its way down, until it is deleted.                          *)
THEOREM TwinsRemain == Spec => []RefusedHasTwin
<1>1. DataInv => RefusedHasTwin
  <2> SUFFICES ASSUME DataInv, NEW n \in AllListed \ repTree, n.ori \notin Deletes
               PROVE  \E m \in repTree \union InTransit : m # n /\ m.ori = n.ori
    BY DEF RefusedHasTwin
  <2>1. PICK t \in Tiers : n \in Filed(pri)[t]
    BY DEF AllListed, Listed, Filed
  <2>2. PICK m \in repTree \union Transit(ev) : m.ori = n.ori
    BY <2>1 DEF DataInv, Twinned
  <2>3. m # n
    BY <2>1, DataFacts
  <2> QED BY <2>2, <2>3, DataFacts
<1> QED BY InitDataInv, NextDataInv, <1>1, PTL DEF Spec

-----------------------------------------------------------------------------
(* Room.  The counter of a group is short by one block at most, so that    *)
(* every loop a bio begins wants one area, and one is what it gets         *)
(* (Modest): it begins when the group has no free block, and ends when its *)
(* copy has just given one back.  So if a bio comes as far as the last     *)
(* group it has not slept since it began, no group above has a free block, *)
(* and its block and those of its loops' areas are still mapped by none    *)
(* else (Straight).                                                        *)
Modest(f) == f.want <= IF f.area = NoArea THEN 1 ELSE 0

Upper(f) == f \in FrameIn /\ f.src = 0 /\ Modest(f)

Lower(f) == f \in FrameIn /\ f.src = 1 /\ Modest(f)

Stacked(s) ==
  \/ \E f : Upper(f) /\ s = <<f>>
  \/ \E f, g : Upper(f) /\ f.area # NoArea /\ Lower(g) /\ s = <<f, g>>

Carried(s) == { n \in AreaIn : \E f \in Range(s) : f.area = n }

Fresh(R, s, l) ==
  /\ l \in Block /\ MappedOnce(R \union Carried(s))
  /\ \A n \in R \union Carried(s) : n.ori # l

Straight(c) ==
  /\ avail[0] = {} /\ (Top(c).src = 1 => avail[1] = {})
  /\ Fresh(repTree, ev[c], bio[c].blk)

(* There is a free block, or a thread sleeps and will give one back.       *)
Promised(t) == avail[t] # {} \/ Leaving(t) # {}

Room(c) ==
  /\ Top(c).area = NoArea /\ Top(c).want > 0 => Straight(c)
  /\ Top(c).area = NoArea /\ Top(c).want <= 0 => avail[Top(c).src] # {}
  /\ Top(c).area # NoArea /\ Top(c).src = 0 => Promised(1)
  /\ Top(c).area # NoArea /\ Top(c).src = 1 => Straight(c)

Ready(c) ==
  /\ pc[c] \in {"evict"} \union Sleeps => Stacked(ev[c])
  /\ pc[c] = "alloc" => Promised(0)
  /\ pc[c] = "evict" => Room(c)

RoomInv ==
  /\ DataInv
  /\ ~ foreign => \A c \in Clients : Ready(c)
  /\ RunsShortOnlyBesideOthers

LEMMA OneOrTwo ==
  ASSUME NEW f \in FrameIn, NEW g \in FrameIn
  PROVE  /\ Last(<<f>>) = f /\ Front(<<f>>) = <<>> /\ Range(<<f>>) = {f}
         /\ Last(<<f, g>>) = g /\ Front(<<f, g>>) = <<f>> /\ Range(<<f, g>>) = {f, g}
         /\ Append(<<>>, g) = <<g>> /\ Append(<<f>>, g) = <<f, g>>
         /\ <<>> \o <<f, g>> = <<f, g>> /\ Range(<<>>) = {}
<1>1. /\ <<f>> \in Seq(FrameIn) /\ Len(<<f>>) = 1 /\ DOMAIN <<f>> = {1} /\ <<f>>[1] = f
      /\ <<f, g>> \in Seq(FrameIn) /\ Len(<<f, g>>) = 2 /\ DOMAIN <<f, g>> = {1, 2}
      /\ <<f, g>>[1] = f /\ <<f, g>>[2] = g
  OBVIOUS
<1>2. Last(<<f>>) = f /\ Last(<<f, g>>) = g
  BY <1>1 DEF Last
<1>3. Range(<<f>>) = {f} /\ Range(<<f, g>>) = {f, g} /\ Range(<<>>) = {}
  BY <1>1 DEF Range
<1>4. Front(<<f>>) = <<>>
  BY <1>1 DEF Front
<1>5. Front(<<f, g>>) = <<f>>
  <2>1. /\ Front(<<f, g>>) = SubSeq(<<f, g>>, 1, 1)
    BY <1>1 DEF Front
  <2>2. SubSeq(<<f, g>>, 1, 1) = [i \in 1 .. 1 |-> f]
    BY <1>1
  <2>3. <<f>> = [i \in 1 .. 1 |-> f]
    OBVIOUS
  <2> QED BY <2>1, <2>2, <2>3
<1>6. Append(<<>>, g) = <<g>> /\ Append(<<f>>, g) = <<f, g>>
  <2>1. /\ Append(<<f>>, g) \in Seq(FrameIn) /\ Len(Append(<<f>>, g)) = 2
        /\ Append(<<f>>, g)[1] = f /\ Append(<<f>>, g)[2] = g
    BY <1>1, AppendProperties
  <2>2. Append(<<f>>, g) = <<f, g>>
    <3>1. \A i \in 1 .. 2 : Append(<<f>>, g)[i] = <<f, g>>[i]
      BY <1>1, <2>1
    <3> QED BY <1>1, <2>1, <3>1, SeqEqual
  <2>3. Append(<<>>, g) = <<g>>
    <3>1. /\ <<>> \in Seq(FrameIn) /\ Len(<<>>) = 0
          /\ <<g>> \in Seq(FrameIn) /\ Len(<<g>>) = 1 /\ <<g>>[1] = g
      OBVIOUS
    <3>2. /\ Append(<<>>, g) \in Seq(FrameIn) /\ Len(Append(<<>>, g)) = 1
          /\ Append(<<>>, g)[1] = g
      BY <3>1, AppendProperties
    <3>3. \A i \in 1 .. 1 : Append(<<>>, g)[i] = <<g>>[i]
      BY <3>1, <3>2
    <3> QED BY <3>1, <3>2, <3>3, SeqEqual
  <2> QED BY <2>2, <2>3
<1>7. \A w \in Seq(FrameIn) : <<>> \o w = w
  BY ConcatEmptySeq
<1> QED BY <1>1, <1>2, <1>3, <1>4, <1>5, <1>6, <1>7

(* What a stack has on top, and below.                                     *)
LEMMA StackedTop ==
  ASSUME NEW c \in Threads, Stacked(ev[c])
  PROVE  /\ Top(c) \in FrameIn /\ Modest(Top(c)) /\ ev[c] # <<>>
         /\ \/ Upper(Top(c)) /\ Under(c) = <<>> /\ ev[c] = <<Top(c)>>
            \/ \E f : /\ Upper(f) /\ f.area # NoArea /\ Lower(Top(c))
                      /\ Under(c) = <<f>> /\ ev[c] = <<f, Top(c)>>
<1>1. CASE \E f : Upper(f) /\ ev[c] = <<f>>
  BY <1>1, OneOrTwo DEF Top, Under, Upper
<1>2. CASE \E f, g : Upper(f) /\ f.area # NoArea /\ Lower(g) /\ ev[c] = <<f, g>>
  <2>1. PICK f, g : Upper(f) /\ f.area # NoArea /\ Lower(g) /\ ev[c] = <<f, g>>
    BY <1>2
  <2>2. f \in FrameIn /\ g \in FrameIn
    BY <2>1 DEF Upper, Lower
  <2>3. Last(<<f, g>>) = g /\ Front(<<f, g>>) = <<f>>
    BY <2>2, OneOrTwo
  <2>4. Top(c) = g /\ Under(c) = <<f>> /\ ev[c] # <<>>
    BY <2>1, <2>3 DEF Top, Under
  <2> QED BY <2>1, <2>4 DEF Lower
<1> QED BY <1>1, <1>2 DEF Stacked

(* The top loop changed, in place.                                         *)
LEMMA StackedNext ==
  ASSUME NEW c \in Threads, Stacked(ev[c]), ev \in EvIn,
         NEW f \in FrameIn, f.src = Top(c).src, Modest(f),
         ev' = [ev EXCEPT ![c] = Append(Under(c), f)]
  PROVE  Stacked(ev'[c]) /\ Top(c)' = f
<1>1. ev'[c] = Append(Under(c), f)
  BY DEF EvIn
<1>2. CASE Upper(Top(c)) /\ Under(c) = <<>>
  <2>1. ev'[c] = <<f>> /\ Upper(f)
    BY <1>1, <1>2, OneOrTwo DEF Upper
  <2>2. Last(<<f>>) = f
    BY OneOrTwo
  <2> QED BY <2>1, <2>2 DEF Stacked, Top
<1>3. CASE \E g : Upper(g) /\ g.area # NoArea /\ Lower(Top(c)) /\ Under(c) = <<g>>
  <2>1. PICK g : Upper(g) /\ g.area # NoArea /\ Lower(Top(c)) /\ Under(c) = <<g>>
    BY <1>3
  <2>2. g \in FrameIn /\ Lower(f)
    BY <2>1 DEF Upper, Lower
  <2>3. ev'[c] = <<g, f>> /\ Last(<<g, f>>) = f
    BY <1>1, <2>1, <2>2, OneOrTwo
  <2> QED BY <2>1, <2>2, <2>3 DEF Stacked, Top
<1> QED BY <1>2, <1>3, StackedTop

(* Of the other threads' bios, a thread that has not slept sees the device *)
(* only, and one that sleeps has nothing that they could spoil.            *)
LEMMA OthersReady ==
  ASSUME IInv, NEW c \in Clients, NEW d \in Threads \ {c}, Ready(c),
         Submit(d) \/ Evict(d) \/ Delete(d) \/ DeleteRoot(d) \/ Run(d) \/ Land(d)
  PROVE  Ready(c)'
<1> USE DEF IInv
<1>1. c \in Threads /\ c # d
  BY DEF Threads
<1>2. pc \in [Threads -> Asleep \union {"search", "alloc", "issue", "evict"}]
      /\ ev \in EvIn /\ DOMAIN bio = Threads
  BY DEF ThreadIn
<1>3. pc'[c] = pc[c] /\ ev'[c] = ev[c] /\ bio'[c] = bio[c]
  <2>1. CASE Submit(d) \/ Evict(d) \/ Delete(d) \/ DeleteRoot(d)
    BY <1>1, <1>2, <2>1 DEF Submit, Evict, Delete, DeleteRoot, Goes, thread, EvIn
  <2>2. CASE Land(d)
    BY <1>1, <1>2, <2>2 DEF Land, BioLands, ReadLands, WriteLands, Goes
  <2>3. CASE Touch(d) \/ MakeRoom(d) \/ Alloc(d) \/ Issue(d) \/ WriteOut(d)
    BY <1>1, <1>2, <2>3 DEF Touch, MakeRoom, Alloc, Issue, WriteOut, Goes, EvIn
  <2>4. CASE Pop(d) \/ Place(d) \/ GiveBack(d) \/ Evicted(d)
    BY <1>1, <1>2, <2>4 DEF Pop, Place, GiveBack, Evicted, Goes, EvIn
  <2>5. CASE PopEmpty(d) \/ PopUnlinked(d) \/ NoAvail(d) \/ EraseRoot(d)
    BY <2>5 DEF PopEmpty, PopUnlinked, NoAvail, EraseRoot, Stop, thread
  <2> QED BY <2>1, <2>2, <2>3, <2>4, <2>5 DEF Run
<1>4. CASE Land(d)
  <2>1. UNCHANGED <<avail, repTree, ev>>
    BY <1>4 DEF Land, BioLands, ReadLands, WriteLands, space
  <2> QED BY <1>3, <2>1 DEF Ready, Room, Straight, Promised, Leaving, Top
<1>5. CASE pc[c] \in Asleep
  BY <1>3, <1>5 DEF Ready, Asleep
<1>6. CASE ~ Land(d)
  <2>1. \E p : Now(d, p)
    BY <1>6 DEF Submit, Evict, Delete, DeleteRoot, Run, Touch, MakeRoom, Alloc, Issue, Pop,
       Popping, Place, Placing, WriteOut, GiveBack, Evicted, PopEmpty, PopUnlinked, NoAvail,
       EraseRoot
  <2>2. pc[c] \in Asleep
    BY <1>1, <2>1 DEF Now
  <2> QED BY <1>5, <2>2
<1> QED BY <1>4, <1>6

(* The counter of a group, of which the blocks are its own.                *)
LEMMA ShortByOne ==
  ASSUME CountInv, ~ foreign, NEW t \in Tiers
  PROVE  /\ AreaFree(t, 1) < 0 => -AreaFree(t, 1) = 1 /\ avail[t] = {}
         /\ ~ (AreaFree(t, 1) < 0) => Promised(t)
<1> DEFINE a == Cardinality(avail[t])
           b == Cardinality(Leaving(t))
           m == Cardinality(bits \intersect TierBlocks(t))
<1>1. /\ AreaFree(t, 0) = a + b /\ a \in Nat /\ b \in Nat
      /\ IsFiniteSet(avail[t])
  BY CountsAhead
<1>2. m \in Nat /\ AreaBlocks[t] \in Nat
  BY Sizes, Geometry, FS_Subset, FS_CardinalityType
<1>3. AreaFree(t, 0) = AreaBlocks[t] - m - 0 /\ AreaFree(t, 1) = AreaBlocks[t] - m - 1
  BY DEF AreaFree
<1>4. (a = 0 => avail[t] = {}) /\ (Leaving(t) = {} => b = 0) /\ (avail[t] = {} => a = 0)
  BY <1>1, FS_EmptySet
<1> DEFINE k == AreaBlocks[t]
           x == AreaFree(t, 0)
           y == AreaFree(t, 1)
<1>5. k \in Nat /\ x = k - m - 0 /\ y = k - m - 1 /\ x = a + b
  BY <1>1, <1>2, <1>3
<1> HIDE DEF a, b, m, k, x, y
<1>6. x \in Int /\ y = x - 1
  BY <1>2, <1>5
<1>7. y < 0 => -y = 1 /\ a = 0
  BY <1>1, <1>5, <1>6
<1>8. ~ (y < 0) => a # 0 \/ b # 0
  BY <1>1, <1>5, <1>6
<1> QED BY <1>4, <1>7, <1>8 DEF Promised, y

(* A thread whose next step is to evict or to allocate has not slept in    *)
(* any loop.                                                               *)
LEMMA MakeRoomReady ==
  ASSUME DataInv, ~ foreign, NEW c \in Clients, MakeRoom(c)
  PROVE  Ready(c)'
<1> USE DEF IInv
<1>1. c \in Threads /\ CountInv /\ IInv /\ 0 \in Tiers /\ 0 \in {0, 1}
  BY CountFacts DEF Threads, DataInv, Tiers
<1>2. /\ ev \in EvIn /\ pc \in [Threads -> Asleep \union {"search", "alloc", "issue", "evict"}]
      /\ At(bio[c].blk) = {} /\ UNCHANGED <<avail, repTree, bio>>
  BY <1>1 DEF ThreadIn, MakeRoom, space
<1>3. CASE AreaFree(0, 1) < 0
  <2>1. -AreaFree(0, 1) = 1 /\ avail[0] = {}
    BY <1>1, <1>3, ShortByOne
  <2>2. ev' = [ev EXCEPT ![c] = <<Frame(0, 1)>>] /\ pc' = [pc EXCEPT ![c] = "evict"]
    BY <1>3, <2>1 DEF MakeRoom, Goes
  <2> DEFINE f == Frame(0, 1)
  <2>3. f \in FrameIn /\ f.area = NoArea /\ f.src = 0 /\ f.want = 1
    BY FrameType DEF Frame
  <2>4. ev'[c] = <<f>> /\ pc'[c] = "evict"
    BY <1>1, <1>2, <2>2 DEF EvIn
  <2> HIDE DEF f
  <2>5. Last(<<f>>) = f /\ Range(<<f>>) = {f}
    BY <2>3, OneOrTwo
  <2>6. Stacked(ev'[c]) /\ Top(c)' = f
    BY <2>3, <2>4, <2>5 DEF Stacked, Upper, Modest, Top
  <2>7. Carried(ev'[c]) = {}
    BY <2>3, <2>4, <2>5, NoBlkOutside DEF Carried, NoArea, Area, AreaIn
  <2>8. Fresh(repTree, ev'[c], bio[c].blk)
    <3>1. bio[c].blk \in Block
      BY <1>1 DEF MakeRoom, Now, Busy, Has
    <3> QED BY <1>2, <2>7, <3>1 DEF Fresh, At, DataInv
  <2>9. Straight(c)'
    BY <1>2, <2>1, <2>3, <2>6, <2>8 DEF Straight
  <2>10. Room(c)'
    BY <2>3, <2>6, <2>9 DEF Room
  <2> QED BY <2>4, <2>6, <2>10 DEF Ready
<1>4. CASE ~ (AreaFree(0, 1) < 0)
  <2>1. Promised(0)
    BY <1>1, <1>4, ShortByOne
  <2>2. ev' = ev /\ pc'[c] = "alloc"
    BY <1>1, <1>2, <1>4 DEF MakeRoom, Goes
  <2>3. Promised(0)'
    BY <1>2, <2>1, <2>2 DEF Promised, Leaving
  <2> QED BY <2>2, <2>3 DEF Ready, Sleeps
<1> QED BY <1>3, <1>4

(* The victim goes from the tree to the loop, and one more group is full   *)
(* if there is a second loop.                                              *)
LEMMA PopReady ==
  ASSUME RoomInv, ~ foreign, NEW c \in Clients, Pop(c)
  PROVE  Ready(c)'
<1> USE DEF IInv
<1> DEFINE t == Top(c).src
           v == Victim(c)
           f == [Top(c) EXCEPT !.area = v, !.want = @ - 1]
<1>1. /\ c \in Threads /\ CountInv /\ IInv /\ 0 \in Tiers /\ 1 \in Tiers
      /\ ev \in EvIn /\ repTree \subseteq AreaIn /\ Ready(c)
  BY CountFacts DEF Threads, RoomInv, DataInv, Tiers, ThreadIn, SpaceIn
<1>2. /\ pc[c] = "evict" /\ Top(c).area = NoArea /\ Top(c).want > 0
      /\ repTree' = repTree \ {v} /\ v \in repTree
      /\ UNCHANGED <<avail, pc, bio>>
  BY DEF Pop, Popping, Now
<1>3. ev' = [ev EXCEPT ![c] = IF t = 0 /\ AreaFree(1, 1) < 0
                              THEN Under(c) \o <<f, Frame(1, -AreaFree(1, 1))>>
                              ELSE Append(Under(c), f)]
  BY DEF Pop
<1>4. Stacked(ev[c]) /\ Straight(c)
  BY <1>1, <1>2 DEF Ready, Room
<1>5. v \in AreaIn /\ v # NoArea
  BY <1>1, <1>2, NoBlkOutside DEF NoArea, Area, AreaIn
<1>6. /\ Top(c) \in FrameIn /\ Top(c).want <= 1
      /\ \/ Upper(Top(c)) /\ Under(c) = <<>> /\ ev[c] = <<Top(c)>>
         \/ \E g : /\ Upper(g) /\ g.area # NoArea /\ Lower(Top(c))
                   /\ Under(c) = <<g>> /\ ev[c] = <<g, Top(c)>>
  BY <1>1, <1>2, <1>4, StackedTop DEF Modest
<1>7. f \in FrameIn /\ f.area = v /\ f.src = t /\ f.want <= 0 /\ Modest(f)
  <2>1. f \in FrameIn /\ f.area = v
    <3>1. v.rep \in Block
      BY <1>5 DEF AreaIn
    <3> QED BY <1>5, <1>6, <3>1, FrameChanges
  <2>2. f.src = t /\ f.want = Top(c).want - 1 /\ Top(c).want \in Int
    BY <1>6 DEF FrameIn
  <2>3. f.want <= 0
    BY <1>6, <2>2
  <2> HIDE DEF f
  <2> QED BY <1>5, <2>1, <2>2, <2>3 DEF Modest
<1>8. \A d \in Threads : ev'[d] = IF d = c THEN ev'[c] ELSE ev[d]
  BY <1>1, <1>3 DEF EvIn
<1> HIDE DEF f, v, t
<1>9. ASSUME t = 0, AreaFree(1, 1) < 0 PROVE Ready(c)'
  <2> DEFINE g == Frame(1, 1)
  <2>1. -AreaFree(1, 1) = 1 /\ avail[1] = {}
    BY <1>1, <1>9, ShortByOne
  <2>2. g \in FrameIn /\ g.area = NoArea /\ g.src = 1 /\ g.want = 1
    BY FrameType DEF Frame
  <2>3. Upper(Top(c)) /\ Under(c) = <<>> /\ ev[c] = <<Top(c)>>
    BY <1>6, <1>9 DEF Lower, t
  <2> HIDE DEF g
  <2>4. /\ Range(<<Top(c)>>) = {Top(c)} /\ Range(<<f, g>>) = {f, g}
        /\ Last(<<f, g>>) = g /\ <<>> \o <<f, g>> = <<f, g>>
    BY <1>6, <1>7, <2>2, OneOrTwo
  <2>5. ev'[c] = <<f, g>>
    <3>1. ev'[c] = Under(c) \o <<f, g>>
      BY <1>1, <1>3, <1>9, <2>1 DEF EvIn, g
    <3> QED BY <2>3, <2>4, <3>1
  <2>6. Stacked(ev'[c]) /\ Top(c)' = g
    BY <1>5, <1>7, <1>9, <2>2, <2>4, <2>5 DEF Stacked, Upper, Lower, Modest, Top
  <2>7. Carried(ev[c]) = {} /\ Carried(ev'[c]) = {v}
    BY <1>2, <1>5, <1>7, <2>2, <2>3, <2>4, <2>5, NoBlkOutside
       DEF Carried, NoArea, Area, AreaIn
  <2>8. repTree' \union Carried(ev'[c]) = repTree \union Carried(ev[c])
    BY <1>2, <2>7
  <2>9. Straight(c)'
    BY <1>2, <1>4, <2>1, <2>8 DEF Straight, Fresh
  <2> QED BY <1>2, <2>2, <2>6, <2>9 DEF Ready, Room
<1>10. ASSUME ~ (t = 0 /\ AreaFree(1, 1) < 0) PROVE Ready(c)'
  <2>1. ev' = [ev EXCEPT ![c] = Append(Under(c), f)]
    BY <1>3, <1>10
  <2>2. Stacked(ev'[c]) /\ Top(c)' = f
    BY <1>1, <1>4, <1>7, <2>1, StackedNext DEF t
  <2>3. CASE t = 0
    <3>1. Promised(1)
      BY <1>1, <1>10, <2>3, ShortByOne
    <3>2. ~ (avail[1] # {}) => Promised(1)'
      <4> HAVE ~ (avail[1] # {})
      <4>1. PICK d \in Threads : \E h \in Range(ev[d]) : h.src = 1 /\ h.dst # NoBlk
        BY <3>1 DEF Promised, Leaving
      <4>2. Range(ev[c]) = {Top(c)} /\ Top(c).src = 0
        <5>1. Top(c).src = 0 /\ ev[c] = <<Top(c)>> /\ Top(c) \in FrameIn
          BY <1>6, <2>3 DEF Lower, t
        <5>2. Range(<<Top(c)>>) = {Top(c)}
          BY <5>1, OneOrTwo
        <5> QED BY <5>1, <5>2
      <4>3. d # c
        BY <4>1, <4>2
      <4>4. ev'[d] = ev[d]
        BY <1>8, <4>3
      <4> QED BY <4>1, <4>4 DEF Promised, Leaving
    <3>3. Promised(1)'
      BY <1>2, <3>2 DEF Promised
    <3> QED BY <1>2, <1>5, <1>7, <2>2, <2>3, <3>3 DEF Ready, Room
  <2>4. CASE t = 1
    <3>1. PICK g : Upper(g) /\ Lower(Top(c)) /\ Under(c) = <<g>> /\ ev[c] = <<g, Top(c)>>
      BY <1>6, <2>4 DEF Upper, t
    <3>2. g \in FrameIn
      BY <3>1 DEF Upper
    <3>3. /\ ev'[c] = <<g, f>> /\ Range(<<g, f>>) = {g, f}
          /\ Range(<<g, Top(c)>>) = {g, Top(c)}
      BY <1>1, <1>6, <1>7, <2>1, <3>1, <3>2, OneOrTwo DEF EvIn
    <3>4. Top(c).area \notin AreaIn
      BY <1>2, NoBlkOutside DEF NoArea, Area, AreaIn
    <3>5. Carried(ev'[c]) = Carried(ev[c]) \union {v}
      BY <1>5, <1>7, <3>1, <3>3, <3>4 DEF Carried
    <3>6. repTree' \union Carried(ev'[c]) = repTree \union Carried(ev[c])
      BY <1>2, <3>5
    <3>7. Straight(c)'
      BY <1>2, <1>4, <2>4, <3>6 DEF Straight, Fresh, t
    <3> QED BY <1>2, <1>5, <1>7, <2>2, <2>4, <3>7 DEF Ready, Room
  <2> QED BY <1>6, <2>3, <2>4 DEF Upper, Lower, t
<1> QED BY <1>9, <1>10

LEMMA PlaceReady ==
  ASSUME RoomInv, ~ foreign, NEW c \in Clients, Place(c)
  PROVE  Ready(c)'
<1> USE DEF IInv
<1>1. /\ c \in Threads /\ CountInv /\ IInv /\ ev \in EvIn /\ Ready(c)
      /\ pc \in [Threads -> Asleep \union {"search", "alloc", "issue", "evict"}]
      /\ \A t \in Tiers : avail[t] \subseteq Block
  BY CountFacts DEF Threads, RoomInv, DataInv, Tiers, ThreadIn, SpaceIn
<1>2. pc[c] = "evict" /\ Top(c).area # NoArea /\ pc'[c] = "read"
  BY <1>1 DEF Place, Placing, Now, Goes
<1>3. PICK p \in Free(Top(c).src + 1) :
        ev' = [ev EXCEPT ![c] = Append(Under(c), [Top(c) EXCEPT !.dst = p])]
  BY DEF Place
<1>4. Stacked(ev[c])
  BY <1>1, <1>2 DEF Ready
<1>5. Top(c) \in FrameIn /\ Modest(Top(c))
  BY <1>1, <1>4, StackedTop
<1>6. Top(c).src + 1 \in Tiers
  BY <1>5 DEF FrameIn, Tiers
<1>7. p \in Block
  BY <1>1, <1>6, FreeType
<1> DEFINE f == [Top(c) EXCEPT !.dst = p]
<1>8. f \in FrameIn /\ f.src = Top(c).src /\ f.area = Top(c).area /\ f.want = Top(c).want
  BY <1>5, <1>7 DEF FrameIn
<1> HIDE DEF f
<1>9. Stacked(ev'[c])
  BY <1>1, <1>3, <1>4, <1>5, <1>8, StackedNext DEF Modest, f
<1> QED BY <1>2, <1>9 DEF Ready

(* The loop has a free block now, and wants no more.                       *)
LEMMA GiveBackReady ==
  ASSUME RoomInv, ~ foreign, NEW c \in Clients, GiveBack(c)
  PROVE  Ready(c)'
<1> USE DEF IInv
<1>1. /\ c \in Threads /\ CountInv /\ IInv /\ ev \in EvIn /\ Ready(c)
      /\ pc \in [Threads -> Asleep \union {"search", "alloc", "issue", "evict"}]
      /\ Busy /\ avail \in [Tiers -> SUBSET Block]
  BY CountFacts DEF Threads, RoomInv, DataInv, Tiers, ThreadIn, SpaceIn
<1>2. /\ pc[c] = "writeDone" /\ pc'[c] = "evict"
      /\ avail' = [avail EXCEPT ![Top(c).src] = @ \union {Top(c).area.rep}]
  BY <1>1 DEF GiveBack, Now, Goes
<1> DEFINE f == Frame(Top(c).src, Top(c).want)
<1>3. ev' = [ev EXCEPT ![c] = Append(Under(c), f)]
  BY DEF GiveBack
<1>4. Stacked(ev[c]) /\ Top(c).area # NoArea
  BY <1>1, <1>2 DEF Ready, Sleeps, Busy, Has
<1>5. Top(c) \in FrameIn /\ Top(c).want <= 0 /\ Top(c).want \in Int
  BY <1>1, <1>4, StackedTop DEF Modest, FrameIn
<1>6. f \in FrameIn /\ f.area = NoArea /\ f.src = Top(c).src /\ f.want = Top(c).want
  BY <1>5, FrameType DEF Frame, FrameIn
<1> HIDE DEF f
<1>7. Modest(f)
  <2>1. f.want <= 1
    BY <1>5, <1>6
  <2> QED BY <1>6, <2>1 DEF Modest
<1>8. Stacked(ev'[c]) /\ Top(c)' = f
  BY <1>1, <1>3, <1>4, <1>6, <1>7, StackedNext
<1>9. avail'[f.src] # {}
  BY <1>1, <1>2, <1>5, <1>6 DEF FrameIn, Tiers
<1>10. f.want <= 0 /\ ~ (f.want > 0)
  BY <1>5, <1>6
<1> QED BY <1>2, <1>6, <1>8, <1>9, <1>10 DEF Ready, Room

LEMMA EvictedReady ==
  ASSUME RoomInv, ~ foreign, NEW c \in Clients, Evicted(c)
  PROVE  Ready(c)'
<1> USE DEF IInv
<1>1. /\ c \in Threads /\ CountInv /\ IInv /\ ev \in EvIn /\ Ready(c)
      /\ pc \in [Threads -> Asleep \union {"search", "alloc", "issue", "evict"}]
  BY CountFacts DEF Threads, RoomInv, DataInv, ThreadIn
<1>2. /\ pc[c] = "evict" /\ Top(c).area = NoArea /\ Top(c).want <= 0
      /\ pc'[c] = IF Under(c) # <<>> THEN "evict" ELSE IF Inside(c) THEN "alloc" ELSE "idle"
      /\ ev'[c] = Under(c) /\ UNCHANGED avail
  BY <1>1 DEF Evicted, Now, Goes, space, EvIn
<1>3. Stacked(ev[c]) /\ avail[Top(c).src] # {}
  BY <1>1, <1>2 DEF Ready, Room
<1>4. CASE Upper(Top(c)) /\ Under(c) = <<>>
  <2>1. pc'[c] # "evict" /\ pc'[c] \notin Sleeps
    BY <1>2, <1>4 DEF Sleeps
  <2>2. avail'[0] # {}
    BY <1>2, <1>3, <1>4 DEF Upper
  <2> QED BY <2>1, <2>2 DEF Ready, Promised
<1>5. CASE \E f : Upper(f) /\ f.area # NoArea /\ Lower(Top(c)) /\ Under(c) = <<f>>
  <2>1. PICK f : Upper(f) /\ f.area # NoArea /\ Lower(Top(c)) /\ Under(c) = <<f>>
    BY <1>5
  <2>2. f \in FrameIn /\ f.src = 0 /\ avail'[1] # {}
    BY <1>2, <1>3, <2>1 DEF Upper, Lower
  <2>3. ev'[c] = <<f>> /\ Last(<<f>>) = f /\ <<f>> # <<>>
    BY <1>2, <2>1, <2>2, OneOrTwo
  <2>4. pc'[c] = "evict" /\ Stacked(ev'[c]) /\ Top(c)' = f
    BY <1>2, <2>1, <2>3 DEF Stacked, Top
  <2>5. Room(c)'
    BY <2>1, <2>2, <2>4 DEF Room, Promised
  <2> QED BY <2>4, <2>5 DEF Ready
<1> QED BY <1>1, <1>3, <1>4, <1>5, StackedTop

(* A thread that runs while no other is in the middle of a demotion.       *)
Alone(c) ==
  /\ pc[c] \notin Asleep
  /\ \A d \in Threads \ {c} : \A f \in Range(ev[d]) : f.area = NoArea

LEMMA AloneFacts ==
  ASSUME DataInv, NEW c \in Threads, Alone(c)
  PROVE  /\ \A t \in Tiers : Leaving(t) = {}
         /\ \A p \in Block : \/ \E t \in Tiers : p \in avail[t]
                             \/ \E t \in Tiers : \E n \in Filed(pri)[t] : p = n.rep
                             \/ \E f \in Range(ev[c]) : f.area \in AreaIn /\ f.area.rep = p
         /\ ~ foreign => /\ \A t \in Tiers : avail[t] \subseteq TierBlocks(t)
                         /\ \A t \in Tiers : \A n \in Filed(pri)[t] : n.rep \in TierBlocks(t)
                         /\ \A f \in Range(ev[c]) :
                              f.area # NoArea => f.area.rep \in TierBlocks(f.src)
<1> USE DEF IInv
<1>1. /\ CountInv /\ IInv /\ ev \in EvIn /\ Awaits
      /\ Partition(avail, Filed(pri), Moving(ev))
  BY CountFacts, SpaceFacts DEF DataInv, ThreadIn
<1>2. ASSUME NEW d \in Threads
      PROVE  /\ \A i \in DOMAIN ev[d] : i \in Nat /\ Slot(ev, d, i) = ev[d][i]
             /\ \A f \in Range(ev[d]) :
                  f \in FrameIn /\ \E i \in Nat : f = Slot(ev, d, i) /\ i \in DOMAIN ev[d]
             /\ \A i \in Nat : Slot(ev, d, i).area # NoArea => Slot(ev, d, i) \in Range(ev[d])
  <2>1. ev[d] \in Seq(FrameIn) /\ DOMAIN ev[d] = 1 .. Len(ev[d]) /\ Len(ev[d]) \in Nat
    BY <1>1, LenProperties DEF EvIn
  <2>2. \A i \in DOMAIN ev[d] : i \in Nat /\ Slot(ev, d, i) = ev[d][i] /\ ev[d][i] \in FrameIn
    BY <2>1, ElementOfSeq DEF Slot
  <2>3. Frame(0, 0).area = NoArea
    BY DEF Frame
  <2> QED BY <2>2, <2>3 DEF Range, Slot
<1>3. \A d \in Threads, i \in Nat :
        Waiting(ev, d, i) => Slot(ev, d, i).area # NoArea /\ pc[d] \in Sleeps
  BY <1>1, CountFacts DEF Awaits
<1>4. ASSUME NEW t \in Tiers PROVE Leaving(t) = {}
  <2> SUFFICES ASSUME NEW d \in Threads, NEW f \in Range(ev[d]), f.dst # NoBlk PROVE FALSE
    BY DEF Leaving
  <2>1. PICK i \in Nat : f = Slot(ev, d, i)
    BY <1>2
  <2>2. f.area # NoArea /\ pc[d] \in Sleeps
    BY <1>3, <2>1 DEF Waiting
  <2>3. d = c
    BY <2>2 DEF Alone
  <2> QED BY <2>2, <2>3 DEF Alone, Asleep, Sleeps
<1>5. ASSUME NEW p \in Block, NEW d \in Threads, NEW i \in Nat, p = Moving(ev)[d][i]
      PROVE  \E f \in Range(ev[c]) : f.area \in AreaIn /\ f.area.rep = p
  <2>1. Slot(ev, d, i) \in FrameIn /\ Slot(ev, d, i).area.rep = p
    BY <1>1, <1>5, SlotFacts
  <2>2. Slot(ev, d, i).area # NoArea
    BY <2>1, NoBlkOutside DEF NoArea, Area
  <2>3. Slot(ev, d, i) \in Range(ev[d]) /\ Slot(ev, d, i).area \in AreaIn
    BY <1>2, <2>1, <2>2 DEF FrameIn
  <2>4. d = c
    BY <2>2, <2>3 DEF Alone
  <2> QED BY <2>1, <2>3, <2>4
<1>6. \A p \in Block : \/ \E t \in Tiers : p \in avail[t]
                       \/ \E t \in Tiers : \E n \in Filed(pri)[t] : p = n.rep
                       \/ \E f \in Range(ev[c]) : f.area \in AreaIn /\ f.area.rep = p
  BY <1>1, <1>5 DEF Partition, Covered
<1>7. ASSUME ~ foreign
      PROVE  /\ \A t \in Tiers : avail[t] \subseteq TierBlocks(t)
             /\ \A t \in Tiers : \A n \in Filed(pri)[t] : n.rep \in TierBlocks(t)
             /\ \A f \in Range(ev[c]) : f.area # NoArea => f.area.rep \in TierBlocks(f.src)
  <2>1. Own(avail, Filed(pri), ev)
    BY <1>1, <1>7, CountFacts
  <2> QED BY <1>2, <2>1 DEF Own
<1> QED BY <1>4, <1>6, <1>7

(* With nobody else in a demotion no victim is missing: the blocks of a    *)
(* group without free ones are on its list.                                *)
LEMMA AloneFindsVictim ==
  ASSUME RoomInv, ~ foreign, NEW c \in Clients, Alone(c)
  PROVE  ~ PopEmpty(c)
<1> SUFFICES ASSUME PopEmpty(c) PROVE FALSE
  OBVIOUS
<1> DEFINE t == Top(c).src
<1>1. c \in Threads /\ DataInv /\ Ready(c)
  BY DEF Threads, RoomInv
<1>2. pc[c] = "evict" /\ Top(c).area = NoArea /\ Top(c).want > 0 /\ pri[t] = <<>>
  BY DEF PopEmpty, Popping, Now
<1>3. Stacked(ev[c]) /\ Straight(c)
  BY <1>1, <1>2 DEF Ready, Room
<1>4. /\ t \in {0, 1} /\ Top(c) \in FrameIn
      /\ \A f \in Range(ev[c]) : f.area # NoArea => f.src # t
  <2>1. CASE Upper(Top(c)) /\ ev[c] = <<Top(c)>>
    <3>1. Top(c) \in FrameIn /\ t = 0
      BY <2>1 DEF Upper
    <3>2. Range(ev[c]) = {Top(c)}
      BY <2>1, <3>1, OneOrTwo
    <3> QED BY <1>2, <3>1, <3>2
  <2>2. CASE \E g : Upper(g) /\ Lower(Top(c)) /\ ev[c] = <<g, Top(c)>>
    <3>1. PICK g : Upper(g) /\ Lower(Top(c)) /\ ev[c] = <<g, Top(c)>>
      BY <2>2
    <3>2. g \in FrameIn /\ Top(c) \in FrameIn /\ t = 1 /\ g.src = 0
      BY <3>1 DEF Upper, Lower
    <3>3. Range(<<g, Top(c)>>) = {g, Top(c)}
      BY <3>2, OneOrTwo
    <3> QED BY <1>2, <3>1, <3>2, <3>3
  <2> QED BY <1>1, <1>3, <2>1, <2>2, StackedTop
<1> HIDE DEF t
<1>5. t \in Tiers /\ avail[t] = {} /\ Filed(pri)[t] = {}
  <2>1. t \in Tiers
    BY <1>4 DEF Tiers
  <2>2. avail[t] = {}
    BY <1>3, <1>4 DEF Straight, t
  <2> QED BY <1>2, <2>1, <2>2 DEF Filed, Range
<1>6. PICK p \in TierBlocks(t) : TRUE
  <2>1. Cardinality({}) = 0 /\ AreaBlocks[t] # 0
    BY <1>5, FS_EmptySet, AreaBlocksAssumption DEF Tiers
  <2> QED BY <1>5, <2>1, Sizes
<1>7. p \in Block /\ \A u \in Tiers : p \in TierBlocks(u) => u = t
  <2>1. p \in Block
    BY <1>5, Geometry
  <2> QED BY <1>5, <2>1, OneGroup
<1>8. CASE \E f \in Range(ev[c]) : f.area \in AreaIn /\ f.area.rep = p
  <2>1. PICK f \in Range(ev[c]) : f.area \in AreaIn /\ f.area.rep = p
    BY <1>8
  <2>2. f.area # NoArea
    BY <2>1, NoBlkOutside DEF NoArea, Area, AreaIn
  <2>3. f.src # t /\ p \in TierBlocks(f.src)
    BY <1>1, <1>4, <2>1, <2>2, AloneFacts
  <2>4. f.src \in Tiers
    <3>1. ev[c] \in Seq(FrameIn)
      BY <1>1, CountFacts DEF DataInv, IInv, ThreadIn, EvIn
    <3>2. f \in FrameIn
      BY <3>1, RangeOfSeq
    <3> QED BY <3>2 DEF FrameIn, Tiers
  <2> QED BY <1>7, <2>3, <2>4
<1> QED BY <1>1, <1>5, <1>7, <1>8, AloneFacts

(* Nor is a block, unless the last group is full of areas that map nothing *)
(* or of some that have twins there.                                       *)
LEMMA AloneFindsBlock ==
  ASSUME RoomInv, ~ foreign, NEW c \in Clients, Alone(c), NoAvail(c)
  PROVE  pc[c] = "evict" /\ Top(c).src = 1 /\ AllListed \ repTree # {}
<1>1. c \in Threads /\ DataInv /\ Ready(c)
  BY DEF Threads, RoomInv
<1>2. \A t \in Tiers : avail[t] # {} \/ ~ Promised(t)
  BY <1>1, AloneFacts DEF Promised
<1>3. Placing(c) /\ pc[c] = "evict" /\ Top(c).area # NoArea /\ avail[Top(c).src + 1] = {}
  <2>1. ~ (Now(c, "alloc") /\ avail[0] = {})
    BY <1>1, <1>2 DEF Now, Ready, Tiers
  <2> QED BY <2>1 DEF NoAvail, Placing, Now
<1>4. Stacked(ev[c]) /\ Room(c)
  BY <1>1, <1>3 DEF Ready
<1>5. Top(c).src # 0
  BY <1>2, <1>3, <1>4 DEF Room, Tiers
<1>6. PICK g : /\ g \in FrameIn /\ Top(c) \in FrameIn
               /\ Top(c).src = 1 /\ ev[c] = <<g, Top(c)>>
  BY <1>1, <1>4, <1>5, StackedTop DEF Upper, Lower
<1>7. Straight(c) /\ \A t \in Tiers : avail[t] = {}
  <2>1. Straight(c)
    BY <1>3, <1>4, <1>6 DEF Room
  <2> QED BY <1>3, <1>6, <2>1 DEF Straight, Tiers
<1>8. ASSUME AllListed \ repTree = {} PROVE FALSE
  <2> DEFINE X == repTree \union Carried(ev[c])
             b == bio[c].blk
  <2>1. \A p \in Block : \E n \in X : n.rep = p
    <3> SUFFICES ASSUME NEW p \in Block PROVE \E n \in X : n.rep = p
      OBVIOUS
    <3>1. CASE \E t \in Tiers : \E n \in Filed(pri)[t] : p = n.rep
      BY <1>8, <3>1 DEF AllListed, Listed, Filed
    <3>2. CASE \E f \in Range(ev[c]) : f.area \in AreaIn /\ f.area.rep = p
      BY <3>2 DEF Carried
    <3> QED BY <1>1, <1>7, <3>1, <3>2, AloneFacts
  <2>2. X \subseteq AreaIn
    <3>1. repTree \subseteq AreaIn
      BY <1>1, CountFacts DEF DataInv, IInv, SpaceIn
    <3> QED BY <3>1 DEF Carried
  <2>3. \A m, n \in X : m.ori = n.ori => m = n
    BY <1>7 DEF Straight, Fresh, MappedOnce
  <2>4. b \in Block /\ \A n \in X : n.ori # b
    BY <1>7 DEF Straight, Fresh
  <2> HIDE DEF X, b
  <2> DEFINE N(p) == CHOOSE n \in X : n.rep = p
             G == [p \in Block |-> N(p).ori]
             T == Block \ {b}
  <2>5. \A p \in Block : N(p) \in X /\ N(p).rep = p
    BY <2>1
  <2> HIDE DEF N
  <2>6. G \in [Block -> T]
    BY <2>2, <2>4, <2>5 DEF AreaIn
  <2>7. IsFiniteSet(T) /\ Cardinality(T) < Cardinality(Block)
    <3>1. IsFiniteSet(Block) /\ Cardinality(Block) \in Nat
      BY Sizes, FS_CardinalityType
    <3>2. IsFiniteSet(T) /\ Cardinality(T) = Cardinality(Block) - 1
      BY <2>4, <3>1, FS_RemoveElement
    <3> HIDE DEF T
    <3> QED BY <3>1, <3>2
  <2>8. PICK p \in Block, q \in Block : p # q /\ G[p] = G[q]
    <3> HIDE DEF G, T
    <3> QED BY <2>6, <2>7, Sizes, FS_PigeonHole
  <2>9. N(p) = N(q)
    BY <2>3, <2>5, <2>8
  <2> QED BY <2>5, <2>8, <2>9
<1> QED BY <1>3, <1>6, <1>8

(* What a thread does to its own loops.                                    *)
LEMMA OwnReady ==
  ASSUME RoomInv, ~ foreign, NEW c \in Clients, Ready(c),
         Submit(c) \/ Evict(c) \/ Delete(c) \/ DeleteRoot(c) \/ Run(c) \/ Land(c)
  PROVE  Ready(c)'
<1> USE DEF IInv
<1>1. /\ c \in Threads /\ c \notin Callers /\ DataInv /\ IInv
      /\ pc \in [Threads -> Asleep \union {"search", "alloc", "issue", "evict"}]
  BY CountFacts, DemotionAssumption DEF Threads, RoomInv, DataInv, ThreadIn
<1>2. CASE Submit(c) \/ Touch(c) \/ Alloc(c) \/ Issue(c) \/ BioLands(c)
  <2>1. pc'[c] \in {"search", "issue", "bio", "idle"}
    BY <1>1, <1>2 DEF Submit, Touch, Alloc, Issue, BioLands, Goes
  <2> QED BY <2>1 DEF Ready, Sleeps
<1>3. CASE ReadLands(c) \/ WriteOut(c) \/ WriteLands(c)
  <2>1. pc[c] \in Sleeps /\ pc'[c] \in Sleeps /\ ev' = ev
    BY <1>1, <1>3 DEF ReadLands, WriteOut, WriteLands, Now, Goes, Woken, Sleeps
  <2> QED BY <2>1 DEF Ready, Sleeps
<1>4. CASE PopEmpty(c) \/ PopUnlinked(c) \/ NoAvail(c) \/ EraseRoot(c)
  <2>1. UNCHANGED <<space, thread>>
    BY <1>4 DEF PopEmpty, PopUnlinked, NoAvail, EraseRoot, Stop
  <2> QED BY <2>1 DEF space, thread, Ready, Room, Straight, Promised, Leaving, Top
<1>5. ~ (Evict(c) \/ Delete(c) \/ DeleteRoot(c))
  BY <1>1 DEF Evict, Delete, DeleteRoot
<1> QED BY <1>1, <1>2, <1>3, <1>4, <1>5, MakeRoomReady, PopReady, PlaceReady, GiveBackReady,
       EvictedReady DEF Run, Land

(* A step that stops the machine for want of room finds the thread alone   *)
(* in the cases only that the property names.                              *)
LEMMA StopShort ==
  ASSUME RoomInv, NEW c \in Threads, PopEmpty(c) \/ NoAvail(c)
  PROVE  RunsShortOnlyBesideOthers'
<1>1. UNCHANGED <<space, thread, ghost>>
  BY DEF PopEmpty, NoAvail, Stop
<1>2. NoAvail(c) => fault' = "noAvail"
  BY DEF NoAvail, Stop
<1> SUFFICES ASSUME ~ foreign, NEW d \in Clients, pc[d] \notin Asleep,
                    \A e \in Threads \ {d} : \A f \in Range(ev[e]) : f.area = NoArea
             PROVE  NoAvail(c) /\ pc[d] = "evict" /\ Top(d).src = 1
                    /\ AllListed \ repTree # {}
  BY <1>1, <1>2 DEF RunsShortOnlyBesideOthers, space, thread, ghost, Top, AllListed, Listed
<1>3. d = c
  BY DEF PopEmpty, Popping, NoAvail, Placing, Now, Threads
<1>4. Alone(c)
  BY <1>3 DEF Alone
<1> QED BY <1>3, <1>4, AloneFindsVictim, AloneFindsBlock

LEMMA InitRoomInv == Init => RoomInv
<1> SUFFICES ASSUME Init PROVE RoomInv
  OBVIOUS
<1>1. \A c \in Clients : Ready(c)
  BY DEF Init, Ready, Sleeps, Threads
<1>2. RunsShortOnlyBesideOthers
  BY DEF Init, RunsShortOnlyBesideOthers
<1> QED BY <1>1, <1>2, InitDataInv DEF RoomInv

LEMMA NextRoomInv == RoomInv /\ [Next]_vars => RoomInv'
<1> SUFFICES ASSUME RoomInv, [Next]_vars PROVE RoomInv'
  OBVIOUS
<1>1. DataInv /\ DataInv' /\ CountInv /\ IInv
  BY NextDataInv, CountFacts DEF RoomInv, DataInv
<1>2. CASE UNCHANGED vars
  <2>1. \A c \in Clients : Ready(c)' <=> Ready(c)
    BY <1>2 DEF vars, space, thread, Ready, Room, Straight, Promised, Leaving, Top
  <2>2. RunsShortOnlyBesideOthers'
    BY <1>2 DEF vars, space, thread, ghost, RoomInv, RunsShortOnlyBesideOthers, Top,
       AllListed, Listed
  <2> QED BY <1>1, <1>2, <2>1, <2>2 DEF RoomInv, vars, ghost
<1>3. CASE Next
  <2>1. CASE Halted
    BY <1>2, <2>1 DEF Halted
  <2>2. ASSUME NEW c \in Threads,
               Submit(c) \/ Evict(c) \/ Delete(c) \/ DeleteRoot(c) \/ Run(c) \/ Land(c)
        PROVE  RoomInv'
    <3>1. foreign => foreign'
      <4> USE DEF ghost
      <4>1. CASE Submit(c) \/ Evict(c) \/ Delete(c) \/ DeleteRoot(c)
        BY <4>1 DEF Submit, Evict, Delete, DeleteRoot
      <4>2. CASE Touch(c) \/ MakeRoom(c) \/ Alloc(c) \/ Issue(c) \/ Land(c)
        BY <4>2 DEF Touch, MakeRoom, Alloc, Issue, Land, BioLands, ReadLands, WriteLands
      <4>3. CASE Pop(c) \/ Place(c) \/ WriteOut(c) \/ GiveBack(c) \/ Evicted(c)
        BY <4>3 DEF Pop, Place, WriteOut, GiveBack, Evicted
      <4>4. CASE PopEmpty(c) \/ PopUnlinked(c) \/ NoAvail(c) \/ EraseRoot(c)
        BY <4>4 DEF PopEmpty, PopUnlinked, NoAvail, EraseRoot, Stop
      <4> QED BY <2>2, <4>1, <4>2, <4>3, <4>4 DEF Run
    <3>2. ASSUME ~ foreign', NEW d \in Clients PROVE Ready(d)'
      <4>1. ~ foreign /\ Ready(d)
        BY <3>1, <3>2 DEF RoomInv
      <4>2. CASE d = c
        BY <2>2, <4>1, <4>2, OwnReady
      <4>3. CASE d # c
        BY <1>1, <2>2, <4>1, <4>3, OthersReady
      <4> QED BY <4>2, <4>3
    <3>3. RunsShortOnlyBesideOthers'
      <4>1. CASE PopEmpty(c) \/ NoAvail(c)
        BY <4>1, StopShort
      <4>2. CASE PopUnlinked(c) \/ EraseRoot(c) \/ DeleteRoot(c)
        BY <4>2 DEF PopUnlinked, EraseRoot, DeleteRoot, Stop, RunsShortOnlyBesideOthers
      <4>3. CASE Submit(c) \/ Evict(c) \/ Delete(c) \/ Touch(c) \/ MakeRoom(c) \/ Alloc(c)
                 \/ Issue(c)
        <5>1. fault' = "none"
          BY <4>3 DEF Submit, Evict, Delete, Touch, MakeRoom, Alloc, Issue, Now
        <5> QED BY <5>1 DEF RunsShortOnlyBesideOthers
      <4>4. CASE Pop(c) \/ Place(c) \/ WriteOut(c) \/ GiveBack(c) \/ Evicted(c) \/ Land(c)
        <5>1. fault' = "none"
          BY <4>4 DEF Pop, Popping, Place, Placing, WriteOut, GiveBack, Evicted, Land,
             BioLands, ReadLands, WriteLands, Submitted, Now
        <5> QED BY <5>1 DEF RunsShortOnlyBesideOthers
      <4> QED BY <2>2, <4>1, <4>2, <4>3, <4>4 DEF Run
    <3> QED BY <1>1, <3>2, <3>3 DEF RoomInv
  <2> QED BY <1>3, <2>1, <2>2 DEF Next
<1> QED BY <1>2, <1>3

(* Whatever the groups and the threads, a bio stops the machine for want   *)
(* of a victim only beside another thread's demotion, and for want of a    *)
(* free block only beside one or when areas that the tree refused have     *)
(* taken the place of the last.                                            *)
THEOREM ShortBesideOthers == Spec => []RunsShortOnlyBesideOthers
<1>1. RoomInv => RunsShortOnlyBesideOthers
  BY DEF RoomInv
<1> QED BY InitRoomInv, NextRoomInv, <1>1, PTL DEF Spec
=============================================================================
