--------------------------- MODULE FreeSpaceProofs --------------------------
(***************************************************************************)
(* The free blocks of the groups as they are kept twice: counted by        *)
(* bitmap.c (Bitmap), and as extents in the index of block_area.c          *)
(* (AvailableAreas).                                                       *)
(*                                                                         *)
(* The index, for groups of any size: its invariant says that the classes  *)
(* are in the order of their sizes and have exactly the extents of the     *)
(* tree, each in the class of its size, and that there is a gap between    *)
(* every two extents.  Everything an operation does to it is an extent     *)
(* that leaves or one that enters, which keep it each.                     *)
(*                                                                         *)
(* The counters, for groups of any size that an unsigned int can count     *)
(* twice over, and any number of bits behind the device: those of the      *)
(* groups count what they say and never wrap.  Those of the device count a *)
(* block outside twice, which Left says for the one that may wrap.         *)
(***************************************************************************)
EXTENDS Bitmap, AvailableAreas, ExtentsProofs, WellFoundedInduction

(* What free extents are, and classes of them.                             *)
FreeIn == { x \in [start : Block, end : Block] : x.start <= x.end }

ClassIn == [value : Nat, areas : Seq(FreeIn)]

(* The smaller class comes first.                                          *)
Sorted(avs) == \A i, j \in DOMAIN avs : i < j => avs[i].value < avs[j].value

(* A class has the extents of its size, each once.                         *)
Holds(c, T) ==
  /\ c.areas # <<>> /\ IsInjective(c.areas)
  /\ Range(c.areas) = { x \in T : Size(x) = c.value }

Filed(A) ==
  /\ A.tree \subseteq FreeIn
  /\ A.avails \in Seq(ClassIn)
  /\ Sorted(A.avails)
  /\ \A c \in Range(A.avails) : Holds(c, A.tree)
  /\ \A x \in A.tree : HasValue(A.avails, Size(x))

(* Between two free extents there is a block that is not free.             *)
Gap(x, y) == x.end + 1 < y.start \/ y.end + 1 < x.start

Spaced(T) == \A x, y \in T : x # y => Gap(x, y)

FreeOf(T) == UNION { Span(x) : x \in T }

IndexInv == Filed(index) /\ Spaced(areaTree)

-----------------------------------------------------------------------------
(* Every nonempty set of numbers has a least one.                          *)
LEMMA LeastNumber ==
  ASSUME NEW S, S \subseteq Nat, S # {}
  PROVE  Min(S) \in S /\ \A y \in S : Min(S) <= y
<1> DEFINE R == { ss \in Nat \X Nat : ss[1] < ss[2] }
<1>1. IsWellFoundedOn(R, Nat)
  BY NatLessThanWellFounded DEF OpToRel
<1>2. \A x, y \in Nat : <<y, x>> \in R <=> y < x
  OBVIOUS
<1> HIDE DEF R
<1>3. PICK x \in S : \A y \in S : ~ (<<y, x>> \in R)
  BY <1>1, WFMin
<1>4. \A y \in S : x <= y
  <2> TAKE y \in S
  <2>1. x \in Nat /\ y \in Nat
    OBVIOUS
  <2>2. ~ (y < x)
    BY <1>2, <1>3, <2>1
  <2> QED BY <2>1, <2>2
<1> QED BY <1>3, <1>4 DEF Min

(* Two classes of a sorted list have different values.                     *)
LEMMA OneClass ==
  ASSUME NEW avs \in Seq(ClassIn), Sorted(avs)
  PROVE  /\ IsInjective(avs)
         /\ \A c, d \in Range(avs) : c.value = d.value => c = d
<1>1. Len(avs) \in Nat /\ DOMAIN avs = 1 .. Len(avs) /\ \A i \in 1 .. Len(avs) : avs[i] \in ClassIn
  BY ElementOfSeq, LenProperties
<1>2. ASSUME NEW i \in 1 .. Len(avs), NEW j \in 1 .. Len(avs), avs[i].value = avs[j].value
      PROVE  i = j
  <2>1. avs[i].value \in Nat /\ avs[j].value \in Nat
    BY <1>1 DEF ClassIn
  <2>2. CASE i < j
    BY <1>1, <1>2, <2>1, <2>2 DEF Sorted
  <2>3. CASE j < i
    BY <1>1, <1>2, <2>1, <2>3 DEF Sorted
  <2> QED BY <1>1, <2>2, <2>3
<1>3. IsInjective(avs)
  BY <1>1, <1>2 DEF IsInjective
<1> QED BY <1>1, <1>2, <1>3 DEF Range

(* What is left of a sorted list is sorted.                                *)
LEMMA UnlinkSorted ==
  ASSUME NEW avs \in Seq(ClassIn), Sorted(avs), NEW c \in Range(avs)
  PROVE  /\ Unlink(avs, c) \in Seq(ClassIn) /\ Sorted(Unlink(avs, c))
         /\ Range(Unlink(avs, c)) = Range(avs) \ {c}
<1>1. Unlink(avs, c) \in Seq(ClassIn)
  BY UnlinkType
<1>2. IsInjective(avs)
  BY OneClass
<1>3. Range(Unlink(avs, c)) = Range(avs) \ {c}
  BY <1>2, UnlinkRange
<1> DEFINE r == Unlink(avs, c)
<1>4. Len(avs) \in Nat /\ DOMAIN avs = 1 .. Len(avs) /\ DOMAIN r = 1 .. (Len(avs) - 1)
  BY UnlinkIndex
<1>5. PICK i \in 1 .. Len(avs) :
        \A k \in 1 .. (Len(avs) - 1) : r[k] = IF k < i THEN avs[k] ELSE avs[k + 1]
  BY UnlinkIndex
<1> HIDE DEF r
<1>6. Sorted(r)
  <2> SUFFICES ASSUME NEW j \in 1 .. (Len(avs) - 1), NEW k \in 1 .. (Len(avs) - 1), j < k
               PROVE  r[j].value < r[k].value
    BY <1>4 DEF Sorted
  <2>1. PICK x \in 1 .. Len(avs), y \in 1 .. Len(avs) : x < y /\ r[j] = avs[x] /\ r[k] = avs[y]
    <3> DEFINE x == IF j < i THEN j ELSE j + 1
               y == IF k < i THEN k ELSE k + 1
    <3>1. x \in 1 .. Len(avs) /\ y \in 1 .. Len(avs) /\ x < y
      BY <1>4
    <3>2. r[j] = avs[x] /\ r[k] = avs[y]
      BY <1>5
    <3> QED BY <3>1, <3>2
  <2> QED BY <1>4, <2>1 DEF Sorted
<1> QED BY <1>1, <1>3, <1>6 DEF r

(* and so is one of which a class gets another list of extents.            *)
LEMMA RelistSorted ==
  ASSUME NEW avs \in Seq(ClassIn), Sorted(avs), NEW c \in Range(avs), NEW s \in Seq(FreeIn)
  PROVE  /\ Relist(avs, c, s) \in Seq(ClassIn) /\ Sorted(Relist(avs, c, s))
         /\ Range(Relist(avs, c, s)) = (Range(avs) \ {c}) \union {Class(c.value, s)}
<1>1. Len(avs) \in Nat /\ DOMAIN avs = 1 .. Len(avs) /\ \A i \in 1 .. Len(avs) : avs[i] \in ClassIn
  BY ElementOfSeq, LenProperties
<1>2. c \in ClassIn /\ Class(c.value, s) \in ClassIn /\ Class(c.value, s).value = c.value
  BY <1>1 DEF Range, ClassIn, Class
<1> DEFINE r == Relist(avs, c, s)
<1>3. /\ DOMAIN r = 1 .. Len(avs)
      /\ \A i \in 1 .. Len(avs) :
           r[i] = IF avs[i] = c THEN Class(c.value, s) ELSE avs[i]
  BY <1>1 DEF Relist
<1>4. r \in Seq(ClassIn)
  <2>1. r = [i \in 1 .. Len(avs) |-> IF avs[i] = c THEN Class(c.value, s) ELSE avs[i]]
    BY <1>1 DEF Relist
  <2>2. r \in [1 .. Len(avs) -> ClassIn]
    BY <1>1, <1>2, <2>1
  <2> QED BY <1>1, <2>2, IsASeq
<1> HIDE DEF r
<1>5. \A i \in 1 .. Len(avs) : r[i].value = avs[i].value
  BY <1>2, <1>3
<1>6. Sorted(r)
  BY <1>1, <1>3, <1>5 DEF Sorted
<1>7. PICK k \in 1 .. Len(avs) : avs[k] = c
  BY <1>1 DEF Range
<1>8. Range(r) \subseteq (Range(avs) \ {c}) \union {Class(c.value, s)}
  BY <1>1, <1>3 DEF Range
<1>9. (Range(avs) \ {c}) \union {Class(c.value, s)} \subseteq Range(r)
  <2>1. Class(c.value, s) \in Range(r)
    BY <1>3, <1>7 DEF Range
  <2>2. ASSUME NEW i \in 1 .. Len(avs), avs[i] # c PROVE avs[i] \in Range(r)
    BY <1>3, <2>2 DEF Range
  <2>3. \A d \in Range(avs) : \E i \in 1 .. Len(avs) : d = avs[i]
    BY <1>1 DEF Range
  <2> QED BY <2>1, <2>2, <2>3
<1> QED BY <1>4, <1>6, <1>8, <1>9 DEF r

(* An element put into a list.                                             *)
LEMMA InsertIndex ==
  ASSUME NEW S, NEW s \in Seq(S), NEW n \in S, NEW m \in 1 .. Len(s)
  PROVE  /\ Len(s) \in Nat /\ InsertAt(s, m, n) \in Seq(S)
         /\ DOMAIN InsertAt(s, m, n) = 1 .. (Len(s) + 1)
         /\ \A k \in 1 .. (Len(s) + 1) :
              /\ k < m => InsertAt(s, m, n)[k] = s[k]
              /\ k = m => InsertAt(s, m, n)[k] = n
              /\ k > m => InsertAt(s, m, n)[k] = s[k - 1]
<1>1. Len(s) \in Nat /\ DOMAIN s = 1 .. Len(s) /\ \A k \in 1 .. Len(s) : s[k] \in S
  BY ElementOfSeq, LenProperties
<1> DEFINE f == SubSeq(s, 1, m - 1)
           g == SubSeq(s, m, Len(s))
           fn == f \o <<n>>
           r == fn \o g
<1>2. f \in Seq(S) /\ Len(f) = m - 1 /\ \A k \in 1 .. (m - 1) : f[k] = s[k]
  BY <1>1, SubSeqProperties
<1>3. /\ g \in Seq(S) /\ Len(g) = Len(s) - m + 1
      /\ \A k \in 1 .. (Len(s) - m + 1) : g[k] = s[m + k - 1]
  BY <1>1, SubSeqProperties
<1>4. <<n>> \in Seq(S) /\ Len(<<n>>) = 1 /\ <<n>>[1] = n
  OBVIOUS
<1> HIDE DEF f, g
<1>5. /\ fn \in Seq(S) /\ Len(fn) = m
      /\ \A k \in 1 .. m : fn[k] = IF k < m THEN s[k] ELSE n
  <2>1. /\ fn \in Seq(S) /\ Len(fn) = Len(f) + 1
        /\ \A k \in 1 .. (Len(f) + 1) : fn[k] = IF k <= Len(f) THEN f[k] ELSE <<n>>[k - Len(f)]
    BY <1>2, <1>4, ConcatProperties
  <2>2. Len(fn) = m
    BY <1>2, <2>1
  <2>3. ASSUME NEW k \in 1 .. m PROVE fn[k] = IF k < m THEN s[k] ELSE n
    <3>1. fn[k] = IF k <= m - 1 THEN f[k] ELSE <<n>>[k - (m - 1)]
      BY <1>2, <2>1
    <3>2. CASE k < m
      BY <1>2, <3>1, <3>2
    <3>3. CASE ~ (k < m)
      <4>1. k - (m - 1) = 1 /\ ~ (k <= m - 1)
        BY <3>3
      <4> QED BY <1>4, <3>1, <3>3, <4>1
    <3> QED BY <3>2, <3>3
  <2> QED BY <2>1, <2>2, <2>3
<1>6. InsertAt(s, m, n) = r
  BY DEF InsertAt, f, g
<1> HIDE DEF fn
<1>7. /\ r \in Seq(S) /\ Len(r) = Len(fn) + Len(g)
      /\ \A k \in 1 .. (Len(fn) + Len(g)) : r[k] = IF k <= Len(fn) THEN fn[k] ELSE g[k - Len(fn)]
  BY <1>3, <1>5, ConcatProperties
<1> HIDE DEF r
<1>8. Len(r) = Len(s) + 1 /\ DOMAIN r = 1 .. (Len(s) + 1)
  <2>1. Len(r) = Len(s) + 1
    BY <1>1, <1>3, <1>5, <1>7
  <2> QED BY <1>7, <2>1, LenProperties
<1>9. ASSUME NEW k \in 1 .. (Len(s) + 1)
      PROVE  /\ k < m => r[k] = s[k]
             /\ k = m => r[k] = n
             /\ k > m => r[k] = s[k - 1]
  <2>1. r[k] = IF k <= m THEN fn[k] ELSE g[k - m]
    BY <1>1, <1>3, <1>5, <1>7
  <2>2. CASE k <= m
    BY <1>5, <2>1, <2>2
  <2>3. CASE ~ (k <= m)
    <3>1. k - m \in 1 .. (Len(s) - m + 1) /\ m + (k - m) - 1 = k - 1 /\ k > m
      BY <1>1, <2>3
    <3>2. g[k - m] = s[k - 1]
      BY <1>3, <3>1
    <3> QED BY <2>1, <2>3, <3>1, <3>2
  <2> QED BY <2>2, <2>3
<1> QED BY <1>1, <1>6, <1>7, <1>8, <1>9

(* A class of a new value gets into its place.                             *)
LEMMA NewClassSorted ==
  ASSUME NEW avs \in Seq(ClassIn), Sorted(avs), NEW c \in ClassIn, ~ HasValue(avs, c.value)
  PROVE  /\ NewClass(avs, c) \in Seq(ClassIn) /\ Sorted(NewClass(avs, c))
         /\ Range(NewClass(avs, c)) = Range(avs) \union {c}
<1>1. Len(avs) \in Nat /\ DOMAIN avs = 1 .. Len(avs) /\ \A i \in 1 .. Len(avs) : avs[i] \in ClassIn
  BY ElementOfSeq, LenProperties
<1>2. \A i \in 1 .. Len(avs) : avs[i].value \in Nat /\ avs[i].value # c.value
  BY <1>1 DEF HasValue, ClassIn, Range
<1>3. c.value \in Nat
  BY DEF ClassIn
<1> DEFINE larger == { i \in DOMAIN avs : c.value < avs[i].value }
<1>4. CASE larger = {}
  <2> DEFINE r == Append(avs, c)
  <2>1. r \in Seq(ClassIn) /\ Range(r) = Range(avs) \union {c}
    BY AddRange, AppendProperties
  <2>2. /\ DOMAIN r = 1 .. (Len(avs) + 1) /\ r[Len(avs) + 1] = c
        /\ \A k \in 1 .. Len(avs) : r[k] = avs[k]
    BY AddIndex
  <2> HIDE DEF r
  <2>3. \A i \in 1 .. Len(avs) : avs[i].value < c.value
    BY <1>1, <1>2, <1>3, <1>4
  <2>4. Sorted(r)
    <3> SUFFICES ASSUME NEW i \in 1 .. (Len(avs) + 1), NEW j \in 1 .. (Len(avs) + 1), i < j
                 PROVE  r[i].value < r[j].value
      BY <2>2 DEF Sorted
    <3>1. i \in 1 .. Len(avs)
      BY <1>1
    <3>2. CASE j = Len(avs) + 1
      BY <2>2, <2>3, <3>1, <3>2
    <3>3. CASE j # Len(avs) + 1
      <4>1. j \in 1 .. Len(avs)
        BY <1>1, <3>3
      <4> QED BY <1>1, <2>2, <3>1, <4>1 DEF Sorted
    <3> QED BY <3>2, <3>3
  <2>5. NewClass(avs, c) = r
    BY <1>4 DEF NewClass, r
  <2> QED BY <2>1, <2>4, <2>5
<1>5. CASE larger # {}
  <2> DEFINE m == Min(larger)
  <2>1. m \in larger /\ \A k \in larger : m <= k
    <3>1. larger \subseteq Nat
      BY <1>1
    <3> HIDE DEF larger
    <3> QED BY <1>5, <3>1, LeastNumber
  <2> DEFINE r == InsertAt(avs, m, c)
  <2>2. NewClass(avs, c) = r
    BY <1>5 DEF NewClass
  <2> HIDE DEF m
  <2>3. m \in 1 .. Len(avs) /\ c.value < avs[m].value
    BY <1>1, <2>1
  <2>4. /\ r \in Seq(ClassIn) /\ DOMAIN r = 1 .. (Len(avs) + 1)
        /\ \A k \in 1 .. (Len(avs) + 1) :
             /\ k < m => r[k] = avs[k]
             /\ k = m => r[k] = c
             /\ k > m => r[k] = avs[k - 1]
    <3>1. r \in Seq(ClassIn)
      BY <2>3, InsertIndex
    <3>2. DOMAIN r = 1 .. (Len(avs) + 1)
      BY <2>3, InsertIndex
    <3>3. ASSUME NEW k \in 1 .. (Len(avs) + 1)
          PROVE  /\ k < m => r[k] = avs[k]
                 /\ k = m => r[k] = c
                 /\ k > m => r[k] = avs[k - 1]
      BY <2>3, InsertIndex
    <3> QED BY <3>1, <3>2, <3>3
  <2> HIDE DEF r
  <2>5. \A i \in 1 .. Len(avs) : i < m => avs[i].value < c.value
    <3> TAKE i \in 1 .. Len(avs)
    <3> HAVE i < m
    <3>1. i \notin larger
      BY <1>1, <2>1, <2>3
    <3> QED BY <1>1, <1>2, <1>3, <3>1
  <2>6. \A i \in 1 .. Len(avs) : m <= i => c.value < avs[i].value
    <3> TAKE i \in 1 .. Len(avs)
    <3> HAVE m <= i
    <3>1. CASE m = i
      BY <2>3, <3>1
    <3>2. CASE m < i
      <4>1. avs[m].value < avs[i].value
        BY <1>1, <2>3, <3>2 DEF Sorted
      <4> QED BY <1>2, <1>3, <2>3, <4>1
    <3> QED BY <1>1, <2>3, <3>1, <3>2
  <2>7. Sorted(r)
    <3> SUFFICES ASSUME NEW i \in 1 .. (Len(avs) + 1), NEW j \in 1 .. (Len(avs) + 1), i < j
                 PROVE  r[i].value < r[j].value
      BY <2>4 DEF Sorted
    <3>1. CASE j < m
      <4>1. i \in 1 .. Len(avs) /\ j \in 1 .. Len(avs) /\ i < m
        BY <1>1, <2>3, <3>1
      <4>2. r[i] = avs[i] /\ r[j] = avs[j]
        BY <2>4, <3>1, <4>1
      <4> QED BY <1>1, <4>1, <4>2 DEF Sorted
    <3>2. CASE j = m
      <4>1. i \in 1 .. Len(avs) /\ i < m
        BY <1>1, <2>3, <3>2
      <4>2. r[i] = avs[i] /\ r[j] = c
        BY <2>3, <2>4, <3>2, <4>1
      <4> QED BY <2>5, <4>1, <4>2
    <3>3. CASE j > m
      <4>1. j - 1 \in 1 .. Len(avs) /\ m <= j - 1 /\ j > m
        BY <1>1, <2>3, <3>3
      <4>2. r[j] = avs[j - 1]
        BY <2>4, <4>1
      <4>3. CASE i < m
        <5>1. i \in 1 .. Len(avs) /\ r[i] = avs[i] /\ i < j - 1
          BY <1>1, <2>3, <2>4, <4>1, <4>3
        <5> QED BY <1>1, <4>1, <4>2, <5>1 DEF Sorted
      <4>4. CASE i = m
        <5>1. r[i] = c
          BY <2>4, <4>4
        <5> QED BY <2>6, <4>1, <4>2, <5>1
      <4>5. CASE i > m
        <5>1. i - 1 \in 1 .. Len(avs) /\ i - 1 < j - 1 /\ i > m
          BY <1>1, <2>3, <4>5
        <5>2. r[i] = avs[i - 1]
          BY <2>4, <5>1
        <5> QED BY <1>1, <4>1, <4>2, <5>1, <5>2 DEF Sorted
      <4> QED BY <2>3, <4>3, <4>4, <4>5
    <3> QED BY <2>3, <3>1, <3>2, <3>3
  <2>8. Range(r) \subseteq Range(avs) \union {c}
    <3> SUFFICES ASSUME NEW k \in 1 .. (Len(avs) + 1) PROVE r[k] \in Range(avs) \union {c}
      BY <2>4 DEF Range
    <3>1. CASE k < m
      <4>1. k \in 1 .. Len(avs) /\ r[k] = avs[k]
        BY <1>1, <2>3, <2>4, <3>1
      <4> QED BY <1>1, <4>1 DEF Range
    <3>2. CASE k = m
      BY <2>4, <3>2
    <3>3. CASE k > m
      <4>1. k - 1 \in 1 .. Len(avs) /\ k > m
        BY <1>1, <2>3, <3>3
      <4>2. r[k] = avs[k - 1]
        BY <2>4, <4>1
      <4> QED BY <1>1, <4>1, <4>2 DEF Range
    <3> QED BY <2>3, <3>1, <3>2, <3>3
  <2>9. Range(avs) \union {c} \subseteq Range(r)
    <3>1. c \in Range(r)
      <4>1. m \in 1 .. (Len(avs) + 1) /\ r[m] = c
        BY <1>1, <2>3, <2>4
      <4> QED BY <2>4, <4>1 DEF Range
    <3>2. ASSUME NEW k \in 1 .. Len(avs) PROVE avs[k] \in Range(r)
      <4>1. CASE k < m
        <5>1. k \in 1 .. (Len(avs) + 1) /\ r[k] = avs[k]
          BY <1>1, <2>4, <4>1
        <5> QED BY <2>4, <5>1 DEF Range
      <4>2. CASE ~ (k < m)
        <5>1. k + 1 \in 1 .. (Len(avs) + 1) /\ k + 1 > m /\ (k + 1) - 1 = k
          BY <1>1, <2>3, <4>2
        <5>2. r[k + 1] = avs[k]
          BY <2>4, <5>1
        <5> QED BY <2>4, <5>1, <5>2 DEF Range
      <4> QED BY <4>1, <4>2
    <3> QED BY <1>1, <3>1, <3>2 DEF Range
  <2> QED BY <2>2, <2>4, <2>7, <2>8, <2>9
<1> QED BY <1>4, <1>5

-----------------------------------------------------------------------------
(* The bounds of a free extent.                                            *)
LEMMA FreeFacts ==
  ASSUME NEW x \in FreeIn
  PROVE  /\ x.start \in Block /\ x.end \in Block
         /\ x.start \in Int /\ x.end \in Int /\ x.start <= x.end
         /\ x = Extent(x.start, x.end)
         /\ Span(x) \subseteq Block /\ x.start \in Span(x) /\ x.end \in Span(x)
         /\ Size(x) \in Nat
<1>1. x.start \in Block /\ x.end \in Block /\ x.start <= x.end /\ x = Extent(x.start, x.end)
  BY DEF FreeIn, Extent
<1>2. x.start \in Int /\ x.end \in Int
  BY <1>1 DEF Block
<1>3. Size(x) \in Nat
  BY <1>1, <1>2 DEF Size
<1>4. Span(x) \subseteq Block
  BY <1>1, <1>2, Geometry DEF Span, Block
<1> QED BY <1>1, <1>2, <1>3, <1>4 DEF Span

LEMMA ExtentIsFree ==
  ASSUME NEW s \in Block, NEW e \in Block, s <= e
  PROVE  /\ Extent(s, e) \in FreeIn /\ Extent(s, e).start = s /\ Extent(s, e).end = e
         /\ Span(Extent(s, e)) = s .. e
  BY DEF Extent, FreeIn, Span

(* Two extents overlap when they have a block in common,                   *)
LEMMA OverlapIs ==
  ASSUME NEW x \in FreeIn, NEW y \in FreeIn
  PROVE  Overlap(x, y) <=> Span(x) \intersect Span(y) # {}
<1>1. /\ x.start \in Int /\ x.end \in Int /\ x.start <= x.end
      /\ y.start \in Int /\ y.end \in Int /\ y.start <= y.end
  BY FreeFacts
<1>2. ASSUME Overlap(x, y) PROVE Span(x) \intersect Span(y) # {}
  <2>1. CASE x.start <= y.start
    <3>1. y.start \in Span(x) /\ y.start \in Span(y)
      BY <1>1, <1>2, <2>1 DEF Overlap, Span
    <3> QED BY <3>1
  <2>2. CASE ~ (x.start <= y.start)
    <3>1. x.start \in Span(x) /\ x.start \in Span(y)
      BY <1>1, <1>2, <2>2 DEF Overlap, Span
    <3> QED BY <3>1
  <2> QED BY <2>1, <2>2
<1>3. ASSUME NEW b \in Span(x), b \in Span(y) PROVE Overlap(x, y)
  BY <1>1, <1>3 DEF Overlap, Span
<1> QED BY <1>2, <1>3

(* and free extents that do are one.                                       *)
LEMMA SameExtent ==
  ASSUME NEW T, T \subseteq FreeIn, Spaced(T), NEW x \in T, NEW y \in T,
         NEW b \in Span(x), b \in Span(y)
  PROVE  x = y
<1>1. /\ x.start \in Int /\ x.end \in Int /\ x.start <= x.end
      /\ y.start \in Int /\ y.end \in Int /\ y.start <= y.end
  BY FreeFacts
<1>2. ~ Gap(x, y)
  BY <1>1 DEF Gap, Span
<1> QED BY <1>2 DEF Spaced

(* Extents with a gap between every two are the runs of their blocks.      *)
LEMMA RunsAre ==
  ASSUME NEW T, T \subseteq FreeIn, Spaced(T)
  PROVE  T = Runs(FreeOf(T))
<1> DEFINE F == FreeOf(T)
<1>1. \A b \in F : \E y \in T : b \in Span(y)
  BY DEF FreeOf
<1>2. \A y \in T : Span(y) \subseteq F
  BY DEF FreeOf
<1>3. F \subseteq Int
  <2>1. \A y \in T : Span(y) \subseteq Int
    BY DEF Span
  <2> QED BY <1>1, <2>1
<1> HIDE DEF F
<1>4. ASSUME NEW x \in T PROVE x \in Runs(F)
  <2>1. /\ x.start \in Int /\ x.end \in Int /\ x.start <= x.end
        /\ x.start \in Span(x) /\ x.end \in Span(x) /\ x = Extent(x.start, x.end)
    BY FreeFacts
  <2>2. ASSUME NEW b \in Int, b = x.start - 1 \/ b = x.end + 1 PROVE b \notin F
    <3> SUFFICES ASSUME NEW y \in T, b \in Span(y) PROVE FALSE
      BY <1>1
    <3>1. y.start \in Int /\ y.end \in Int /\ y.start <= y.end
      BY FreeFacts
    <3>2. b \notin Span(x)
      BY <2>1, <2>2 DEF Span
    <3>3. Gap(x, y)
      BY <3>2 DEF Spaced
    <3> QED BY <2>1, <2>2, <3>1, <3>3 DEF Gap, Span
  <2>3. x.start - 1 \notin F /\ x.end + 1 \notin F
    BY <2>1, <2>2
  <2>4. x \in [start : F, end : F]
    BY <1>2, <2>1 DEF Extent
  <2> QED BY <1>2, <2>1, <2>3, <2>4 DEF Runs
<1>5. ASSUME NEW r \in Runs(F) PROVE r \in T
  <2>1. /\ r.start \in F /\ r.end \in F /\ r.start <= r.end /\ Span(r) \subseteq F
        /\ r.start - 1 \notin F /\ r.end + 1 \notin F /\ r = Extent(r.start, r.end)
    BY DEF Runs, Extent
  <2>2. PICK y \in T : r.start \in Span(y)
    BY <1>1, <2>1
  <2>3. /\ y.start \in Int /\ y.end \in Int /\ y.start <= y.end
        /\ y = Extent(y.start, y.end)
    BY FreeFacts
  <2>4. Span(y) \subseteq F /\ y.end + 1 \notin F
    BY <1>2, <1>4 DEF Runs
  <2>5. r.start \in Int /\ r.end \in Int
    BY <1>3, <2>1
  <2>6. r.start = y.start
    <3>1. y.start < r.start => r.start - 1 \in Span(y)
      BY <2>2, <2>3, <2>5 DEF Span
    <3> QED BY <2>1, <2>2, <2>3, <2>4, <2>5, <3>1 DEF Span
  <2>7. r.end = y.end
    <3>1. r.end < y.end => r.end + 1 \in Span(y)
      BY <2>1, <2>2, <2>3, <2>5, <2>6 DEF Span
    <3>2. y.end < r.end => y.end + 1 \in Span(r)
      BY <2>1, <2>2, <2>3, <2>5, <2>6 DEF Span
    <3> QED BY <2>1, <2>3, <2>4, <2>5, <3>1, <3>2
  <2> QED BY <2>1, <2>3, <2>6, <2>7
<1> QED BY <1>4, <1>5 DEF F

-----------------------------------------------------------------------------
(* The class of a free extent.                                             *)
LEMMA ParentIs ==
  ASSUME NEW A, Filed(A), NEW x \in A.tree
  PROVE  LET c == Parent(A.avails, x)
         IN  /\ c \in Range(A.avails) /\ c \in ClassIn /\ x \in Range(c.areas)
             /\ c.value = Size(x)
<1>1. PICK d \in Range(A.avails) : d.value = Size(x)
  BY DEF Filed, HasValue
<1>2. x \in Range(d.areas)
  BY <1>1 DEF Filed, Holds
<1> DEFINE c == Parent(A.avails, x)
<1>3. c \in Range(A.avails) /\ x \in Range(c.areas)
  BY <1>1, <1>2 DEF Parent
<1> HIDE DEF c
<1>4. c.value = Size(x)
  BY <1>3 DEF Filed, Holds
<1>5. c \in ClassIn
  BY <1>3, RangeOfSeq DEF Filed
<1> QED BY <1>3, <1>4, <1>5 DEF c

(* available_area_extract takes one extent out of the tree and the lists.  *)
LEMMA ExtractFiled ==
  ASSUME NEW A, Filed(A), NEW x \in A.tree
  PROVE  Filed(Extract(A, x)) /\ Extract(A, x).tree = A.tree \ {x}
<1> DEFINE c == Parent(A.avails, x)
           s == Unlink(c.areas, x)
           T == A.tree \ {x}
           B == Extract(A, x)
<1>1. c \in Range(A.avails) /\ c \in ClassIn /\ x \in Range(c.areas) /\ c.value = Size(x)
  BY ParentIs
<1>2. /\ B.tree = T
      /\ B.avails = IF s = <<>> THEN Unlink(A.avails, c) ELSE Relist(A.avails, c, s)
  BY DEF Extract
<1> HIDE DEF c, B
<1>3. c.areas \in Seq(FreeIn) /\ IsInjective(c.areas)
      /\ Range(c.areas) = { y \in A.tree : Size(y) = c.value }
  BY <1>1 DEF Filed, Holds, ClassIn
<1>4. s \in Seq(FreeIn)
  BY <1>3, UnlinkType
<1>5. IsInjective(s) /\ Range(s) = Range(c.areas) \ {x}
  BY <1>3, UnlinkRange
<1> HIDE DEF s
<1>6. A.avails \in Seq(ClassIn) /\ Sorted(A.avails)
  BY DEF Filed
<1>7. \A d, e \in Range(A.avails) : d.value = e.value => d = e
  BY <1>6, OneClass
<1>8. ASSUME NEW d \in Range(A.avails), d # c
      PROVE  Holds(d, T)
  <2>1. d.value # Size(x)
    BY <1>1, <1>7, <1>8
  <2>2. Holds(d, A.tree)
    BY DEF Filed
  <2>3. { y \in T : Size(y) = d.value } = { y \in A.tree : Size(y) = d.value }
    BY <2>1
  <2> QED BY <2>2, <2>3 DEF Holds
<1>9. ASSUME NEW y \in T, Size(y) # c.value
      PROVE  \E d \in Range(A.avails) : d # c /\ d.value = Size(y)
  BY <1>9 DEF Filed, HasValue
<1>10. B.tree \subseteq FreeIn
  BY <1>2 DEF Filed
<1>11. CASE s = <<>>
  <2>1. B.avails = Unlink(A.avails, c)
    BY <1>2, <1>11
  <2>2. /\ B.avails \in Seq(ClassIn) /\ Sorted(B.avails)
        /\ Range(B.avails) = Range(A.avails) \ {c}
    BY <1>1, <1>6, <2>1, UnlinkSorted
  <2>3. \A y \in T : Size(y) # c.value
    <3>1. Range(s) = {}
      BY <1>11 DEF Range
    <3> QED BY <1>3, <1>5, <3>1
  <2>4. \A d \in Range(B.avails) : Holds(d, B.tree)
    BY <1>2, <1>8, <2>2
  <2>5. \A y \in B.tree : HasValue(B.avails, Size(y))
    BY <1>2, <1>9, <2>2, <2>3 DEF HasValue
  <2> QED BY <1>2, <1>10, <2>2, <2>4, <2>5 DEF Filed, B
<1>12. CASE s # <<>>
  <2> DEFINE e == Class(c.value, s)
  <2>1. B.avails = Relist(A.avails, c, s)
    BY <1>2, <1>12
  <2>2. /\ B.avails \in Seq(ClassIn) /\ Sorted(B.avails)
        /\ Range(B.avails) = (Range(A.avails) \ {c}) \union {e}
    BY <1>1, <1>4, <1>6, <2>1, RelistSorted
  <2>3. e.value = c.value /\ e.areas = s
    BY DEF Class
  <2> HIDE DEF e
  <2>4. Holds(e, T)
    <3>1. Range(s) = { y \in T : Size(y) = c.value }
      BY <1>3, <1>5
    <3> QED BY <1>5, <1>12, <2>3, <3>1 DEF Holds
  <2>5. \A d \in Range(B.avails) : Holds(d, B.tree)
    BY <1>2, <1>8, <2>2, <2>4
  <2>6. \A y \in B.tree : HasValue(B.avails, Size(y))
    BY <1>2, <1>9, <2>2, <2>3 DEF HasValue
  <2> QED BY <1>2, <1>10, <2>2, <2>5, <2>6 DEF Filed, B
<1> QED BY <1>11, <1>12

(* The end of available_area_insert puts one in.                           *)
LEMMA LinkFiled ==
  ASSUME NEW A, Filed(A), NEW x \in FreeIn, x \notin A.tree
  PROVE  Filed(Link(A, x)) /\ Link(A, x).tree = A.tree \union {x}
<1> DEFINE v == Size(x)
           T == A.tree \union {x}
           B == Link(A, x)
<1>1. v \in Nat
  BY FreeFacts
<1>2. A.avails \in Seq(ClassIn) /\ Sorted(A.avails)
  BY DEF Filed
<1>3. \A d, e \in Range(A.avails) : d.value = e.value => d = e
  BY <1>2, OneClass
<1>4. B.tree = T /\ T \subseteq FreeIn
  BY DEF Link, Filed
<1>5. ASSUME NEW d \in Range(A.avails), d.value # v
      PROVE  Holds(d, T)
  <2>1. Holds(d, A.tree)
    BY DEF Filed
  <2>2. { y \in T : Size(y) = d.value } = { y \in A.tree : Size(y) = d.value }
    BY <1>5
  <2> QED BY <2>1, <2>2 DEF Holds
<1>6. CASE HasValue(A.avails, v)
  <2> DEFINE c == ClassFor(A.avails, v)
             s == Cons(x, c.areas)
             e == Class(c.value, s)
  <2>1. c \in Range(A.avails) /\ c.value = v
    BY <1>6 DEF ClassFor, HasValue
  <2>2. B.avails = Relist(A.avails, c, s)
    BY <1>6 DEF Link
  <2> HIDE DEF c, B
  <2>3. /\ c.areas \in Seq(FreeIn) /\ IsInjective(c.areas)
        /\ Range(c.areas) = { y \in A.tree : Size(y) = v }
    <3>1. c \in ClassIn
      BY <1>2, <2>1, RangeOfSeq
    <3> QED BY <2>1, <3>1 DEF Filed, Holds, ClassIn
  <2>4. x \notin Range(c.areas)
    BY <2>3
  <2>5. s \in Seq(FreeIn)
    <3>1. <<x>> \in Seq(FreeIn)
      OBVIOUS
    <3> QED BY <2>3, <3>1, ConcatProperties DEF Cons
  <2>6. IsInjective(s) /\ Range(s) = Range(c.areas) \union {x}
    BY <2>3, <2>4, AddRange
  <2>7. s # <<>>
    BY <2>6 DEF Range
  <2> HIDE DEF s
  <2>8. /\ B.avails \in Seq(ClassIn) /\ Sorted(B.avails)
        /\ Range(B.avails) = (Range(A.avails) \ {c}) \union {e}
    BY <1>2, <2>1, <2>2, <2>5, RelistSorted
  <2>9. e.value = v /\ e.areas = s
    BY <2>1 DEF Class
  <2> HIDE DEF e
  <2>10. Holds(e, T)
    <3>1. Range(s) = { y \in T : Size(y) = v }
      BY <2>3, <2>6
    <3> QED BY <2>6, <2>7, <2>9, <3>1 DEF Holds
  <2>11. \A d \in Range(B.avails) : Holds(d, B.tree)
    BY <1>3, <1>4, <1>5, <2>1, <2>8, <2>10
  <2>12. \A y \in B.tree : HasValue(B.avails, Size(y))
    <3> SUFFICES ASSUME NEW y \in T PROVE \E d \in Range(B.avails) : d.value = Size(y)
      BY <1>4 DEF HasValue
    <3>1. CASE Size(y) = v
      BY <2>8, <2>9, <3>1
    <3>2. CASE Size(y) # v
      <4>1. PICK d \in Range(A.avails) : d.value = Size(y)
        BY <3>2 DEF Filed, HasValue
      <4> QED BY <2>1, <2>8, <3>2, <4>1
    <3> QED BY <3>1, <3>2
  <2> QED BY <1>4, <2>8, <2>11, <2>12 DEF Filed, B
<1>7. CASE ~ HasValue(A.avails, v)
  <2> DEFINE e == Class(v, <<x>>)
  <2>1. B.avails = NewClass(A.avails, e)
    BY <1>7 DEF Link
  <2>2. <<x>> \in Seq(FreeIn) /\ <<x>> # <<>> /\ IsInjective(<<x>>) /\ Range(<<x>>) = {x}
    BY DEF IsInjective, Range
  <2>3. e \in ClassIn /\ e.value = v /\ e.areas = <<x>>
    BY <1>1, <2>2 DEF Class, ClassIn
  <2> HIDE DEF e, B
  <2>4. /\ B.avails \in Seq(ClassIn) /\ Sorted(B.avails)
        /\ Range(B.avails) = Range(A.avails) \union {e}
    BY <1>2, <1>7, <2>1, <2>3, NewClassSorted
  <2>5. \A y \in A.tree : Size(y) # v
    BY <1>7 DEF Filed
  <2>6. Holds(e, T)
    <3>1. { y \in T : Size(y) = v } = {x}
      BY <2>5
    <3> QED BY <2>2, <2>3, <3>1 DEF Holds
  <2>7. \A d \in Range(A.avails) : d.value # v
    BY <1>7 DEF HasValue
  <2>8. \A d \in Range(B.avails) : Holds(d, B.tree)
    BY <1>4, <1>5, <2>4, <2>6, <2>7
  <2>9. \A y \in B.tree : HasValue(B.avails, Size(y))
    <3> SUFFICES ASSUME NEW y \in T PROVE \E d \in Range(B.avails) : d.value = Size(y)
      BY <1>4 DEF HasValue
    <3>1. CASE y = x
      BY <2>3, <2>4, <3>1
    <3>2. CASE y \in A.tree
      BY <2>4, <3>2 DEF Filed, HasValue
    <3> QED BY <3>1, <3>2
  <2> QED BY <1>4, <2>4, <2>8, <2>9 DEF Filed, B
<1> QED BY <1>6, <1>7

(* The neighbours of an extent leave, if it has them.                      *)
LEMMA WithoutFiled ==
  ASSUME NEW A, Filed(A), NEW N, N \subseteq A.tree, \A y, z \in N : y = z
  PROVE  Filed(Without(A, N)) /\ Without(A, N).tree = A.tree \ N
<1>1. CASE N = {}
  BY <1>1 DEF Without
<1>2. CASE N # {}
  <2>1. The(N) \in N
    BY <1>2 DEF The
  <2>2. N = {The(N)}
    BY <2>1
  <2>3. Filed(Extract(A, The(N))) /\ Extract(A, The(N)).tree = A.tree \ {The(N)}
    BY <2>1, ExtractFiled
  <2> QED BY <1>2, <2>2, <2>3 DEF Without
<1> QED BY <1>1, <1>2

(* There is one on each side at most, and the extent reaches as far as     *)
(* they do when it has taken their places.                                 *)
LEMMA JoinedIs ==
  ASSUME NEW A, A.tree \subseteq FreeIn, Spaced(A.tree), NEW x \in FreeIn,
         \A y \in A.tree : ~ Overlap(x, y)
  PROVE  LET j == Joined(A, x)
             f == InFront(A, x)
             g == Behind(A, x)
         IN  /\ f \subseteq A.tree /\ \A y, z \in f : y = z
             /\ g \subseteq A.tree /\ \A y, z \in g : y = z
             /\ f \intersect g = {}
             /\ f = {} => j.start = x.start
             /\ g = {} => j.end = x.end
             /\ \A y \in f : y.end = x.start - 1 /\ j.start = y.start
             /\ \A y \in g : y.start = x.end + 1 /\ j.end = y.end
             /\ j \in FreeIn /\ j.start <= x.start /\ x.end <= j.end
<1> DEFINE j == Joined(A, x)
           f == InFront(A, x)
           g == Behind(A, x)
<1>1. f \subseteq A.tree /\ \A y, z \in f : y = z
  BY SameExtent DEF InFront
<1>2. g \subseteq A.tree /\ \A y, z \in g : y = z
  BY SameExtent DEF Behind
<1>3. x.start \in Block /\ x.end \in Block /\ x.start \in Int /\ x.end \in Int /\ x.start <= x.end
  BY FreeFacts
<1>4. \A y \in A.tree : /\ y.start \in Block /\ y.end \in Block
                        /\ y.start \in Int /\ y.end \in Int /\ y.start <= y.end
  BY FreeFacts
<1>5. \A y \in f : y.end = x.start - 1
  BY <1>3, <1>4 DEF InFront, Overlap, Span
<1>6. \A y \in g : y.start = x.end + 1
  BY <1>3, <1>4 DEF Behind, Overlap, Span
<1>7. j.start = (IF f = {} THEN x.start ELSE The(f).start)
  BY DEF Joined, Extent
<1>8. j.end = (IF g = {} THEN x.end ELSE The(g).end)
  BY DEF Joined, Extent
<1>9. j = Extent(j.start, j.end)
  BY DEF Joined, Extent
<1> HIDE DEF j, f, g
<1>10. \A y \in f : j.start = y.start
  BY <1>1, <1>7 DEF The
<1>11. \A y \in g : j.end = y.end
  BY <1>2, <1>8 DEF The
<1>12. j.start \in Block /\ j.start <= x.start
  <2>1. CASE f = {}
    BY <1>3, <1>7, <2>1
  <2>2. CASE f # {}
    <3>1. PICK y \in f : TRUE
      BY <2>2
    <3> QED BY <1>1, <1>3, <1>4, <1>5, <1>10, <3>1
  <2> QED BY <2>1, <2>2
<1>13. j.end \in Block /\ x.end <= j.end
  <2>1. CASE g = {}
    BY <1>3, <1>8, <2>1
  <2>2. CASE g # {}
    <3>1. PICK y \in g : TRUE
      BY <2>2
    <3> QED BY <1>2, <1>3, <1>4, <1>6, <1>11, <3>1
  <2> QED BY <2>1, <2>2
<1>14. f \intersect g = {}
  <2> SUFFICES ASSUME NEW y \in f, y \in g PROVE FALSE
    OBVIOUS
  <2> QED BY <1>1, <1>3, <1>4, <1>5, <1>6
<1>15. j \in FreeIn
  <2>1. j.start \in Int /\ j.end \in Int
    BY <1>12, <1>13 DEF Block
  <2>2. j.start <= j.end
    BY <1>3, <1>12, <1>13, <2>1
  <2> QED BY <1>9, <1>12, <1>13, <2>2, ExtentIsFree
<1> QED BY <1>1, <1>2, <1>5, <1>6, <1>7, <1>8, <1>10, <1>11, <1>12, <1>13, <1>14, <1>15 DEF j, f, g

(* What is left when they are out of the index: a gap before and behind    *)
(* the joined extent, and of the blocks those that it does not have.       *)
LEMMA ApartFiled ==
  ASSUME NEW A, Filed(A), Spaced(A.tree), NEW x \in FreeIn,
         \A y \in A.tree : ~ Overlap(x, y)
  PROVE  LET B == Apart(A, x)
             j == Joined(A, x)
         IN  /\ Filed(B) /\ Spaced(B.tree)
             /\ j \in FreeIn /\ \A y \in B.tree : Gap(j, y)
             /\ FreeOf(B.tree) \union Span(j) = FreeOf(A.tree) \union Span(x)
<1> DEFINE B == Apart(A, x)
           j == Joined(A, x)
           f == InFront(A, x)
           g == Behind(A, x)
<1>1. A.tree \subseteq FreeIn
  BY DEF Filed
<1>2. /\ f \subseteq A.tree /\ \A y, z \in f : y = z
      /\ g \subseteq A.tree /\ \A y, z \in g : y = z
      /\ f \intersect g = {}
      /\ f = {} => j.start = x.start
      /\ g = {} => j.end = x.end
      /\ \A y \in f : y.end = x.start - 1 /\ j.start = y.start
      /\ \A y \in g : y.start = x.end + 1 /\ j.end = y.end
      /\ j \in FreeIn /\ j.start <= x.start /\ x.end <= j.end
  BY <1>1, JoinedIs
<1>3. /\ \A y \in A.tree : x.start - 1 \in Span(y) => y \in f
      /\ \A y \in A.tree : x.end + 1 \in Span(y) => y \in g
  BY DEF InFront, Behind
<1>4. B = Without(Without(A, f), g)
  BY DEF Apart
<1> HIDE DEF B, j, f, g
<1>5. Filed(Without(A, f)) /\ Without(A, f).tree = A.tree \ f
  BY <1>2, WithoutFiled
<1>6. Filed(B) /\ B.tree = A.tree \ (f \union g)
  <2>1. g \subseteq Without(A, f).tree
    BY <1>2, <1>5
  <2>2. Filed(B) /\ B.tree = Without(A, f).tree \ g
    BY <1>2, <1>4, <1>5, <2>1, WithoutFiled
  <2> QED BY <1>5, <2>2
<1>7. Spaced(B.tree)
  BY <1>6 DEF Spaced
<1>8. x.start \in Int /\ x.end \in Int /\ x.start <= x.end
  BY FreeFacts
<1>9. \A y \in A.tree : y.start \in Int /\ y.end \in Int /\ y.start <= y.end
  BY <1>1, FreeFacts
<1>10. j.start \in Int /\ j.end \in Int /\ j.start <= j.end
  BY <1>2, FreeFacts
<1>11. ASSUME NEW y \in B.tree PROVE Gap(j, y)
  <2>1. y \in A.tree /\ y \notin f /\ y \notin g
    BY <1>6
  <2>2. y.start \in Int /\ y.end \in Int /\ y.start <= y.end
    BY <1>9, <2>1
  <2>3. x.start - 1 \notin Span(y) /\ x.end + 1 \notin Span(y)
    BY <1>3, <2>1
  <2>4. CASE y.end < x.start
    <3>1. y.end + 1 < x.start
      BY <1>8, <2>2, <2>3, <2>4 DEF Span
    <3>2. CASE f = {}
      BY <1>2, <3>1, <3>2 DEF Gap
    <3>3. CASE f # {}
      <4>1. PICK z \in f : TRUE
        BY <3>3
      <4>2. z \in A.tree /\ z.end = x.start - 1 /\ j.start = z.start /\ z # y
        BY <1>2, <2>1, <4>1
      <4>3. Gap(z, y)
        BY <2>1, <4>2 DEF Spaced
      <4>4. z.start \in Int /\ z.end \in Int /\ z.start <= z.end
        BY <1>9, <4>2
      <4> QED BY <1>8, <2>2, <3>1, <4>2, <4>3, <4>4 DEF Gap
    <3> QED BY <3>2, <3>3
  <2>5. CASE x.end < y.start
    <3>1. x.end + 1 < y.start
      BY <1>8, <2>2, <2>3, <2>5 DEF Span
    <3>2. CASE g = {}
      BY <1>2, <3>1, <3>2 DEF Gap
    <3>3. CASE g # {}
      <4>1. PICK z \in g : TRUE
        BY <3>3
      <4>2. z \in A.tree /\ z.start = x.end + 1 /\ j.end = z.end /\ z # y
        BY <1>2, <2>1, <4>1
      <4>3. Gap(z, y)
        BY <2>1, <4>2 DEF Spaced
      <4>4. z.start \in Int /\ z.end \in Int /\ z.start <= z.end
        BY <1>9, <4>2
      <4> QED BY <1>8, <2>2, <3>1, <4>2, <4>3, <4>4 DEF Gap
    <3> QED BY <3>2, <3>3
  <2> QED BY <1>8, <2>1, <2>2, <2>4, <2>5 DEF Overlap
<1>12. Span(j) = Span(x) \union FreeOf(f) \union FreeOf(g)
  <2>1. (j.start .. (x.start - 1)) = FreeOf(f)
    <3>1. CASE f = {}
      <4>1. FreeOf(f) = {}
        BY <3>1 DEF FreeOf
      <4>2. j.start .. (x.start - 1) = {}
        BY <1>2, <1>8, <3>1
      <4> QED BY <4>1, <4>2
    <3>2. CASE f # {}
      <4>1. PICK z \in f : TRUE
        BY <3>2
      <4>2. f = {z}
        BY <1>2, <4>1
      <4>3. FreeOf(f) = Span(z)
        BY <4>2 DEF FreeOf
      <4> QED BY <1>2, <4>1, <4>3 DEF Span
    <3> QED BY <3>1, <3>2
  <2>2. ((x.end + 1) .. j.end) = FreeOf(g)
    <3>1. CASE g = {}
      <4>1. FreeOf(g) = {}
        BY <3>1 DEF FreeOf
      <4>2. (x.end + 1) .. j.end = {}
        BY <1>2, <1>8, <3>1
      <4> QED BY <4>1, <4>2
    <3>2. CASE g # {}
      <4>1. PICK z \in g : TRUE
        BY <3>2
      <4>2. g = {z}
        BY <1>2, <4>1
      <4>3. FreeOf(g) = Span(z)
        BY <4>2 DEF FreeOf
      <4> QED BY <1>2, <4>1, <4>3 DEF Span
    <3> QED BY <3>1, <3>2
  <2>3. (j.start .. j.end)
          = (x.start .. x.end) \union (j.start .. (x.start - 1)) \union ((x.end + 1) .. j.end)
    BY <1>2, <1>8, <1>10
  <2> QED BY <2>1, <2>2, <2>3 DEF Span
<1>13. FreeOf(B.tree) \union Span(j) = FreeOf(A.tree) \union Span(x)
  <2>1. A.tree = B.tree \union f \union g
    BY <1>2, <1>6
  <2>2. FreeOf(A.tree) = FreeOf(B.tree) \union FreeOf(f) \union FreeOf(g)
    BY <2>1 DEF FreeOf
  <2> QED BY <1>12, <2>2
<1> QED BY <1>2, <1>6, <1>7, <1>11, <1>13 DEF B, j

(* available_area_insert: an extent of blocks that are not free becomes    *)
(* free, and one that has a free block is refused.                         *)
LEMMA InsertFiled ==
  ASSUME NEW A, Filed(A), Spaced(A.tree), NEW x \in FreeIn
  PROVE  LET C == Insert(A, x)
         IN  /\ Filed(C) /\ Spaced(C.tree)
             /\ Span(x) \intersect FreeOf(A.tree) = {} =>
                  FreeOf(C.tree) = FreeOf(A.tree) \union Span(x)
             /\ Span(x) \intersect FreeOf(A.tree) # {} => C = A
<1> DEFINE C == Insert(A, x)
<1>1. A.tree \subseteq FreeIn
  BY DEF Filed
<1>2. CASE \E y \in A.tree : Overlap(x, y)
  <2>1. C = A
    BY <1>2 DEF Insert
  <2>2. Span(x) \intersect FreeOf(A.tree) # {}
    <3>1. PICK y \in A.tree : Overlap(x, y)
      BY <1>2
    <3>2. Span(x) \intersect Span(y) # {}
      BY <1>1, <3>1, OverlapIs
    <3> QED BY <3>2 DEF FreeOf
  <2> QED BY <2>1, <2>2
<1>3. CASE \A y \in A.tree : ~ Overlap(x, y)
  <2> DEFINE B == Apart(A, x)
             j == Joined(A, x)
  <2>1. /\ Filed(B) /\ Spaced(B.tree)
        /\ j \in FreeIn /\ \A y \in B.tree : Gap(j, y)
        /\ FreeOf(B.tree) \union Span(j) = FreeOf(A.tree) \union Span(x)
    BY <1>3, ApartFiled
  <2>2. C = Link(B, j)
    BY <1>3 DEF Insert
  <2> HIDE DEF B, j, C
  <2>3. j \notin B.tree
    <3>1. j.start \in Int /\ j.end \in Int /\ j.start <= j.end
      BY <2>1, FreeFacts
    <3>2. ~ Gap(j, j)
      BY <3>1 DEF Gap
    <3> QED BY <2>1, <3>2
  <2>4. Filed(C) /\ C.tree = B.tree \union {j}
    BY <2>1, <2>2, <2>3, LinkFiled
  <2>5. Spaced(C.tree)
    <3>1. \A y \in B.tree : Gap(y, j)
      BY <2>1 DEF Gap
    <3> QED BY <2>1, <2>4, <3>1 DEF Spaced
  <2>6. FreeOf(C.tree) = FreeOf(A.tree) \union Span(x)
    <3>1. FreeOf(C.tree) = FreeOf(B.tree) \union Span(j)
      BY <2>4 DEF FreeOf
    <3> QED BY <2>1, <3>1
  <2>7. Span(x) \intersect FreeOf(A.tree) = {}
    <3>1. \A y \in A.tree : Span(x) \intersect Span(y) = {}
      BY <1>1, <1>3, OverlapIs
    <3> QED BY <3>1 DEF FreeOf
  <2> QED BY <2>4, <2>5, <2>6, <2>7 DEF C
<1> QED BY <1>2, <1>3

(* hypraid_delete_block_area comes to the same.                            *)
LEMMA InsertMergedFiled ==
  ASSUME NEW A, Filed(A), Spaced(A.tree), NEW x \in FreeIn,
         \A y \in A.tree : ~ Overlap(x, y)
  PROVE  LET C == InsertMerged(A, x)
         IN  /\ Filed(C) /\ Spaced(C.tree)
             /\ FreeOf(C.tree) = FreeOf(A.tree) \union Span(x)
             /\ Span(x) \intersect FreeOf(A.tree) = {}
<1> DEFINE B == Apart(A, x)
           j == Joined(A, x)
           C == InsertMerged(A, x)
<1>1. /\ Filed(B) /\ Spaced(B.tree)
      /\ j \in FreeIn /\ \A y \in B.tree : Gap(j, y)
      /\ FreeOf(B.tree) \union Span(j) = FreeOf(A.tree) \union Span(x)
  BY ApartFiled
<1>2. C = Insert(B, j)
  BY DEF InsertMerged
<1> HIDE DEF B, j, C
<1>3. B.tree \subseteq FreeIn /\ A.tree \subseteq FreeIn
  BY <1>1 DEF Filed
<1>4. Span(j) \intersect FreeOf(B.tree) = {}
  <2>1. ASSUME NEW y \in B.tree PROVE Span(j) \intersect Span(y) = {}
    <3>1. /\ j.start \in Int /\ j.end \in Int /\ y.start \in Int /\ y.end \in Int
      BY <1>1, <1>3, FreeFacts
    <3>2. ~ Overlap(j, y)
      BY <1>1, <3>1 DEF Gap, Overlap
    <3> QED BY <1>1, <1>3, <3>2, OverlapIs
  <2> QED BY <2>1 DEF FreeOf
<1>5. /\ Filed(C) /\ Spaced(C.tree)
      /\ FreeOf(C.tree) = FreeOf(B.tree) \union Span(j)
  BY <1>1, <1>2, <1>4, InsertFiled
<1>6. Span(x) \intersect FreeOf(A.tree) = {}
  <2>1. \A y \in A.tree : Span(x) \intersect Span(y) = {}
    BY <1>3, OverlapIs
  <2> QED BY <2>1 DEF FreeOf
<1> QED BY <1>1, <1>5, <1>6 DEF C

(* One extent taken out: its blocks are no longer free.                    *)
LEMMA ExtractFree ==
  ASSUME NEW A, Filed(A), Spaced(A.tree), NEW x \in A.tree
  PROVE  LET B == Extract(A, x)
         IN  /\ Filed(B) /\ Spaced(B.tree)
             /\ FreeOf(B.tree) = FreeOf(A.tree) \ Span(x)
             /\ Span(x) \subseteq FreeOf(A.tree)
<1> DEFINE B == Extract(A, x)
<1>1. Filed(B) /\ B.tree = A.tree \ {x}
  BY ExtractFiled
<1> HIDE DEF B
<1>2. Spaced(B.tree)
  BY <1>1 DEF Spaced
<1>3. A.tree \subseteq FreeIn
  BY DEF Filed
<1>4. \A y \in B.tree : Span(x) \intersect Span(y) = {}
  BY <1>1, <1>3, SameExtent
<1>5. A.tree = B.tree \union {x}
  BY <1>1
<1>6. FreeOf(A.tree) = FreeOf(B.tree) \union Span(x)
  BY <1>5 DEF FreeOf
<1>7. Span(x) \intersect FreeOf(B.tree) = {}
  BY <1>4 DEF FreeOf
<1> QED BY <1>1, <1>2, <1>6, <1>7 DEF B

(* A part of it that is put back.                                          *)
LEMMA PutBackFiled ==
  ASSUME NEW A, Filed(A), Spaced(A.tree), NEW s \in Int, NEW e \in Int,
         s .. e \subseteq Block, (s .. e) \intersect FreeOf(A.tree) = {}
  PROVE  LET C == PutBack(A, s, e)
         IN  Filed(C) /\ Spaced(C.tree) /\ FreeOf(C.tree) = FreeOf(A.tree) \union (s .. e)
<1>1. CASE s <= e
  <2>1. s \in Block /\ e \in Block
    BY <1>1
  <2>2. Extent(s, e) \in FreeIn /\ Span(Extent(s, e)) = s .. e
    BY <1>1, <2>1, ExtentIsFree
  <2> DEFINE x == Extent(s, e)
  <2> HIDE DEF x
  <2>3. x \in FreeIn /\ Span(x) = s .. e /\ PutBack(A, s, e) = Insert(A, x)
    BY <1>1, <2>2 DEF PutBack, x
  <2>4. Filed(Insert(A, x)) /\ Spaced(Insert(A, x).tree)
    BY <2>3, InsertFiled
  <2>5. FreeOf(Insert(A, x).tree) = FreeOf(A.tree) \union Span(x)
    BY <2>3, InsertFiled
  <2> QED BY <2>3, <2>4, <2>5
<1>2. CASE ~ (s <= e)
  <2>1. s .. e = {}
    BY <1>2
  <2> QED BY <1>2, <2>1 DEF PutBack
<1> QED BY <1>1, <1>2

-----------------------------------------------------------------------------
(* An allocation takes the first extent of a class that fits best.         *)
LEMMA ChosenFits ==
  ASSUME IndexInv, avails # <<>>, NEW n \in Nat
  PROVE  Head(Chosen(n).areas) \in areaTree \intersect FirstFit(freeBlocks, n)
<1> DEFINE c == Chosen(n)
           x == Head(c.areas)
<1>1. /\ areaTree \subseteq FreeIn /\ Spaced(areaTree)
      /\ avails \in Seq(ClassIn) /\ Sorted(avails)
      /\ \A d \in Range(avails) : Holds(d, areaTree)
      /\ \A y \in areaTree : HasValue(avails, Size(y))
  BY DEF IndexInv, Filed, index
<1>2. Len(avails) \in Nat /\ DOMAIN avails = 1 .. Len(avails) /\ Len(avails) # 0
  BY <1>1, LenProperties, EmptySeq
<1>3. 1 \in DOMAIN avails /\ Head(avails) = avails[1]
  BY <1>1, <1>2
<1>4. Head(avails) \in Range(avails)
  BY <1>3 DEF Range
<1>5. c \in Range(avails) /\ (HasValue(avails, n) => c.value = n)
  BY <1>4 DEF Chosen, ClassFor, HasValue
<1>6. ~ HasValue(avails, n) => c = Head(avails)
  BY DEF Chosen
<1> SUFFICES x \in areaTree \intersect FirstFit(freeBlocks, n)
  OBVIOUS
<1> HIDE DEF c
<1>7. ASSUME NEW d \in Range(avails)
      PROVE  Head(d.areas) \in Range(d.areas)
  <2>1. d \in ClassIn /\ Holds(d, areaTree)
    BY <1>1, RangeOfSeq
  <2>2. d.areas \in Seq(FreeIn) /\ d.areas # <<>>
    BY <2>1 DEF ClassIn, Holds
  <2>3. Len(d.areas) \in Nat /\ DOMAIN d.areas = 1 .. Len(d.areas) /\ Len(d.areas) # 0
    BY <2>2, LenProperties, EmptySeq
  <2>4. 1 \in DOMAIN d.areas /\ Head(d.areas) = d.areas[1]
    BY <2>2, <2>3
  <2> QED BY <2>4 DEF Range
<1>8. \A d \in Range(avails) : Head(d.areas) \in areaTree /\ Size(Head(d.areas)) = d.value
  BY <1>1, <1>7 DEF Holds
<1>9. x \in areaTree /\ Size(x) = c.value
  BY <1>5, <1>8
<1>10. areaTree = Runs(freeBlocks)
  BY <1>1, RunsAre DEF freeBlocks, FreeOf
<1>11. CASE HasValue(avails, n)
  <2>1. x \in { y \in Runs(freeBlocks) : Size(y) = n }
    BY <1>5, <1>9, <1>10, <1>11
  <2> QED BY <1>9, <2>1 DEF FirstFit
<1>12. CASE ~ HasValue(avails, n)
  <2>1. { y \in Runs(freeBlocks) : Size(y) = n } = {}
    BY <1>1, <1>10, <1>12
  <2>2. ASSUME NEW y \in areaTree PROVE Size(x) <= Size(y)
    <3>1. PICK i \in DOMAIN avails : avails[i].value = Size(y)
      BY <1>1 DEF HasValue, Range
    <3>2. Size(x) = avails[1].value
      BY <1>3, <1>6, <1>9, <1>12
    <3>3. Size(x) \in Nat /\ Size(y) \in Nat
      BY <1>1, <1>9, FreeFacts
    <3>4. CASE i = 1
      BY <3>1, <3>2, <3>3, <3>4
    <3>5. CASE i # 1
      <4>1. 1 < i
        BY <1>2, <3>5
      <4>2. avails[1].value < avails[i].value
        BY <1>1, <1>3, <4>1 DEF Sorted
      <4> QED BY <3>1, <3>2, <3>3, <4>2
    <3> QED BY <3>4, <3>5
  <2>3. x \in { z \in Runs(freeBlocks) : \A y \in Runs(freeBlocks) : Size(z) <= Size(y) }
    BY <1>9, <1>10, <2>2
  <2> QED BY <1>9, <2>1, <2>3 DEF FirstFit
<1> QED BY <1>11, <1>12

(* The index after a step.                                                 *)
LEMMA IndexAfter ==
  ASSUME NEW B, Filed(B), Spaced(B.tree), Becomes(B)
  PROVE  IndexInv' /\ freeBlocks' = FreeOf(B.tree)
<1>1. index'.avails = B.avails /\ index'.tree = B.tree /\ areaTree' = B.tree
  BY DEF Becomes, index
<1>2. Filed(index)'
  BY <1>1 DEF Filed
<1>3. Spaced(areaTree)'
  BY <1>1 DEF Spaced, Gap
<1>4. freeBlocks' = FreeOf(B.tree)
  BY <1>1 DEF freeBlocks, FreeOf, Span
<1> QED BY <1>2, <1>3, <1>4 DEF IndexInv

LEMMA IndexNow ==
  ASSUME IndexInv
  PROVE  /\ Filed(index) /\ Spaced(index.tree) /\ index.tree = areaTree
         /\ freeBlocks = FreeOf(index.tree)
  BY DEF IndexInv, index, freeBlocks, FreeOf

(* What every operation does to the index and to the free blocks.          *)
LEMMA GiveFree ==
  ASSUME IndexInv, NEW x \in FreeIn, Give(x)
  PROVE  /\ IndexInv'
         /\ freeBlocks' = IF Span(x) \intersect freeBlocks = {}
                          THEN freeBlocks \union Span(x) ELSE freeBlocks
         /\ asked' = 0
<1> DEFINE A == index
           C == Insert(A, x)
<1>1. Filed(A) /\ Spaced(A.tree) /\ freeBlocks = FreeOf(A.tree)
  BY IndexNow
<1>2. Becomes(C) /\ asked' = 0
  BY DEF Give
<1> HIDE DEF A
<1>3. Filed(C) /\ Spaced(C.tree)
  BY <1>1, InsertFiled
<1>4. Span(x) \intersect FreeOf(A.tree) = {} => FreeOf(C.tree) = FreeOf(A.tree) \union Span(x)
  BY <1>1, InsertFiled
<1>5. Span(x) \intersect FreeOf(A.tree) # {} => C = A
  BY <1>1, InsertFiled
<1> HIDE DEF C
<1>6. IndexInv' /\ freeBlocks' = FreeOf(C.tree)
  BY <1>2, <1>3, IndexAfter
<1> QED BY <1>1, <1>2, <1>4, <1>5, <1>6

LEMMA GiveMergedFree ==
  ASSUME IndexInv, NEW x \in FreeIn, GiveMerged(x)
  PROVE  /\ IndexInv' /\ Span(x) \intersect freeBlocks = {}
         /\ freeBlocks' = freeBlocks \union Span(x) /\ asked' = 0
<1> DEFINE A == index
           C == InsertMerged(A, x)
<1>1. Filed(A) /\ Spaced(A.tree) /\ A.tree = areaTree /\ freeBlocks = FreeOf(A.tree)
  BY IndexNow
<1>2. Becomes(C) /\ asked' = 0 /\ \A y \in A.tree : ~ Overlap(x, y)
  BY <1>1 DEF GiveMerged
<1> HIDE DEF A
<1>3. /\ Filed(C) /\ Spaced(C.tree)
      /\ FreeOf(C.tree) = FreeOf(A.tree) \union Span(x)
      /\ Span(x) \intersect FreeOf(A.tree) = {}
  BY <1>1, <1>2, InsertMergedFiled
<1> HIDE DEF C
<1>4. IndexInv' /\ freeBlocks' = FreeOf(C.tree)
  BY <1>2, <1>3, IndexAfter
<1> QED BY <1>1, <1>2, <1>3, <1>4

LEMMA TakeFree ==
  ASSUME IndexInv, NEW n \in Nat, Take(n)
  PROVE  /\ IndexInv' /\ asked' = n
         /\ \E x \in FirstFit(freeBlocks, n) :
              freeBlocks' = freeBlocks \ (x.start .. (x.start + MIN(n, Size(x)) - 1))
<1> DEFINE A == index
           x == Head(Chosen(n).areas)
           B == Extract(A, x)
           C == IF Size(x) <= n THEN B ELSE Insert(B, Extent(x.start + n, x.end))
<1>1. Filed(A) /\ Spaced(A.tree) /\ A.tree = areaTree /\ freeBlocks = FreeOf(A.tree)
  BY IndexNow
<1>2. Becomes(C) /\ asked' = n /\ avails # <<>>
  BY DEF Take
<1>3. x \in A.tree /\ x \in FirstFit(freeBlocks, n)
  BY <1>1, <1>2, ChosenFits
<1> HIDE DEF A, x
<1>4. /\ Filed(B) /\ Spaced(B.tree)
      /\ FreeOf(B.tree) = FreeOf(A.tree) \ Span(x)
      /\ Span(x) \subseteq FreeOf(A.tree)
  BY <1>1, <1>3, ExtractFree
<1> HIDE DEF B
<1>5. /\ x.start \in Int /\ x.end \in Int /\ x.start <= x.end
      /\ Span(x) \subseteq Block /\ x.start \in Block /\ x.end \in Block
  BY <1>1, <1>3, FreeFacts DEF Filed
<1>6. CASE Size(x) <= n
  <2>1. C = B
    BY <1>6
  <2>2. IndexInv' /\ freeBlocks' = FreeOf(B.tree)
    BY <1>2, <1>4, <2>1, IndexAfter
  <2>3. x.start + MIN(n, Size(x)) - 1 = x.end
    BY <1>5, <1>6 DEF MIN, Size
  <2>4. freeBlocks' = freeBlocks \ (x.start .. (x.start + MIN(n, Size(x)) - 1))
    BY <1>1, <1>4, <2>2, <2>3 DEF Span
  <2> QED BY <1>2, <1>3, <2>2, <2>4
<1>7. CASE ~ (Size(x) <= n)
  <2> DEFINE r == Extent(x.start + n, x.end)
  <2>1. C = Insert(B, r)
    BY <1>7
  <2>2. x.start + n \in Int /\ x.start <= x.start + n /\ x.start + n <= x.end
    BY <1>5, <1>7 DEF Size
  <2>3. x.start + n \in Block
    BY <1>5, <2>2 DEF Span
  <2>4. r \in FreeIn /\ Span(r) = (x.start + n) .. x.end
    BY <1>5, <2>2, <2>3, ExtentIsFree
  <2> HIDE DEF r, C
  <2>5. /\ Span(x) = (x.start .. (x.start + n - 1)) \union Span(r)
        /\ (x.start .. (x.start + n - 1)) \intersect Span(r) = {}
    <3>1. n \in Int /\ n >= 0 /\ n <= x.end - x.start + 1
      BY <1>5, <2>2
    <3>2. /\ (x.start .. (x.start + n - 1)) \union ((x.start + n) .. x.end) = x.start .. x.end
          /\ (x.start .. (x.start + n - 1)) \intersect ((x.start + n) .. x.end) = {}
      BY <1>5, <3>1, CutInterval
    <3>3. Span(x) = x.start .. x.end
      BY DEF Span
    <3> QED BY <2>4, <3>2, <3>3
  <2>6. Span(r) \intersect FreeOf(B.tree) = {}
    BY <1>4, <2>5
  <2>7. Filed(C) /\ Spaced(C.tree)
    BY <1>4, <2>1, <2>4, InsertFiled
  <2>8. FreeOf(C.tree) = FreeOf(B.tree) \union Span(r)
    BY <1>4, <2>1, <2>4, <2>6, InsertFiled
  <2>9. IndexInv' /\ freeBlocks' = FreeOf(C.tree)
    BY <1>2, <2>7, IndexAfter
  <2>10. MIN(n, Size(x)) = n
    BY <1>5, <1>7 DEF MIN, Size
  <2>11. freeBlocks' = freeBlocks \ (x.start .. (x.start + MIN(n, Size(x)) - 1))
    BY <1>1, <1>4, <2>5, <2>8, <2>9, <2>10
  <2> QED BY <1>2, <1>3, <2>9, <2>11
<1> QED BY <1>6, <1>7

LEMMA CutFree ==
  ASSUME IndexInv, NEW s \in Block, NEW e \in Block, s <= e, Cut(s, e)
  PROVE  /\ IndexInv' /\ s .. e \subseteq freeBlocks
         /\ freeBlocks' = freeBlocks \ (s .. e) /\ asked' = 0
<1> DEFINE A == index
<1>1. Filed(A) /\ Spaced(A.tree) /\ A.tree = areaTree /\ freeBlocks = FreeOf(A.tree)
  BY IndexNow
<1>2. PICK x \in A.tree :
        /\ s \in Span(x) /\ e <= x.end
        /\ Becomes(PutBack(PutBack(Extract(A, x), x.start, s - 1), e + 1, x.end))
  BY <1>1 DEF Cut
<1> DEFINE B == Extract(A, x)
           C == PutBack(B, x.start, s - 1)
           D == PutBack(C, e + 1, x.end)
<1>3. asked' = 0 /\ Becomes(D)
  BY <1>2 DEF Cut
<1> HIDE DEF A
<1>4. /\ Filed(B) /\ Spaced(B.tree)
      /\ FreeOf(B.tree) = FreeOf(A.tree) \ Span(x)
      /\ Span(x) \subseteq FreeOf(A.tree)
  BY <1>1, ExtractFree
<1> HIDE DEF B
<1>5. x.start \in Int /\ x.end \in Int /\ x.start <= x.end /\ Span(x) \subseteq Block
  BY <1>1, FreeFacts DEF Filed
<1>6. s \in Int /\ e \in Int /\ x.start <= s /\ s <= e /\ e <= x.end
  BY <1>2 DEF Span, Block
<1> DEFINE f == x.start .. (s - 1)
           g == (e + 1) .. x.end
<1>7. /\ Span(x) = f \union (s .. e) \union g
      /\ f \intersect g = {} /\ f \intersect (s .. e) = {} /\ g \intersect (s .. e) = {}
  BY <1>5, <1>6 DEF Span
<1>8. /\ f \subseteq Block /\ g \subseteq Block
      /\ s - 1 \in Int /\ e + 1 \in Int
      /\ f \intersect FreeOf(B.tree) = {}
  BY <1>4, <1>5, <1>6, <1>7
<1>9. Filed(C) /\ Spaced(C.tree) /\ FreeOf(C.tree) = FreeOf(B.tree) \union f
  BY <1>4, <1>5, <1>8, PutBackFiled
<1> HIDE DEF C
<1>10. g \intersect FreeOf(C.tree) = {}
  BY <1>4, <1>7, <1>9
<1>11. Filed(D) /\ Spaced(D.tree) /\ FreeOf(D.tree) = FreeOf(C.tree) \union g
  BY <1>5, <1>8, <1>9, <1>10, PutBackFiled
<1> HIDE DEF D, f, g
<1>12. IndexInv' /\ freeBlocks' = FreeOf(D.tree)
  BY <1>3, <1>11, IndexAfter
<1> QED BY <1>1, <1>3, <1>4, <1>7, <1>9, <1>11, <1>12

-----------------------------------------------------------------------------
(* The index of an open module.                                            *)
LEMMA IndexInitially ==
  ASSUME Init
  PROVE  IndexInv /\ freeBlocks = TierBlocks(0) /\ asked = 0
<1> DEFINE A == [avails |-> <<>>, tree |-> {}]
           x == Extent(Bound(0), AreaBlocks[0] - 1)
           C == Insert(A, x)
<1>1. AreaBlocks[0] \in Nat \ {0} /\ Bound(0) = 0
  BY AreaBlocksAssumption DEF Bound
<1>2. TierBlocks(0) = 0 .. (AreaBlocks[0] - 1) /\ TierBlocks(0) \subseteq Block
  BY <1>1, Geometry DEF TierBlocks, Tiers
<1>3. x \in FreeIn /\ Span(x) = TierBlocks(0)
  <2>1. 0 \in TierBlocks(0) /\ AreaBlocks[0] - 1 \in TierBlocks(0) /\ 0 <= AreaBlocks[0] - 1
    BY <1>1, <1>2
  <2>2. 0 \in Block /\ AreaBlocks[0] - 1 \in Block
    BY <1>2, <2>1
  <2>3. x = Extent(0, AreaBlocks[0] - 1)
    BY <1>1
  <2> QED BY <1>2, <2>1, <2>2, <2>3, ExtentIsFree
<1>4. A.avails = <<>> /\ A.tree = {} /\ FreeOf(A.tree) = {}
  BY DEF FreeOf
<1>5. Range(<<>>) = {}
  BY DEF Range
<1>6. Filed(A) /\ Spaced(A.tree)
  BY <1>4, <1>5 DEF Filed, Sorted, Spaced
<1>7. avails = C.avails /\ areaTree = C.tree /\ asked = 0
  BY <1>1 DEF Init
<1> HIDE DEF A, x
<1>8. /\ Filed(C) /\ Spaced(C.tree)
      /\ FreeOf(C.tree) = FreeOf(A.tree) \union Span(x)
  <2>1. Filed(C) /\ Spaced(C.tree)
    BY <1>3, <1>6, InsertFiled
  <2>2. FreeOf(C.tree) = FreeOf(A.tree) \union Span(x)
    BY <1>3, <1>4, <1>6, InsertFiled
  <2> QED BY <2>1, <2>2
<1> HIDE DEF C
<1>9. index.avails = C.avails /\ index.tree = C.tree
  BY <1>7 DEF index
<1>10. Filed(index)
  BY <1>8, <1>9 DEF Filed
<1>11. freeBlocks = FreeOf(C.tree)
  BY <1>7 DEF freeBlocks, FreeOf
<1> QED BY <1>3, <1>4, <1>7, <1>8, <1>10, <1>11 DEF IndexInv

(* A step of the index is one of FreeSpace, in whose terms its operations  *)
(* are:                                                                    *)
LEMMA SameTerms ==
  /\ AsFreeSpace!Total = Total /\ AsFreeSpace!Block = Block
  /\ AsFreeSpace!TierBlocks(0) = TierBlocks(0)
  /\ \A x : AsFreeSpace!Span(x) = Span(x) /\ AsFreeSpace!Size(x) = Size(x)
  /\ \A s, e : AsFreeSpace!Extent(s, e) = Extent(s, e)
  /\ \A a, b : AsFreeSpace!MIN(a, b) = MIN(a, b)
  /\ \A F, n : AsFreeSpace!FirstFit(F, n) = FirstFit(F, n)
<1>1. AsFreeSpace!Total = Total /\ AsFreeSpace!Block = Block
  BY DEF AsFreeSpace!Total, AsFreeSpace!Block, Total, Block
<1>2. AsFreeSpace!TierBlocks(0) = TierBlocks(0)
  BY DEF AsFreeSpace!TierBlocks, AsFreeSpace!Bound, TierBlocks, Bound
<1>3. \A x : AsFreeSpace!Span(x) = Span(x) /\ AsFreeSpace!Size(x) = Size(x)
  BY DEF AsFreeSpace!Span, AsFreeSpace!Size, Span, Size
<1>4. \A s, e : AsFreeSpace!Extent(s, e) = Extent(s, e)
  BY DEF AsFreeSpace!Extent, Extent
<1>5. \A a, b : AsFreeSpace!MIN(a, b) = MIN(a, b)
  BY DEF AsFreeSpace!MIN, MIN
<1>6. \A F : AsFreeSpace!Runs(F) = Runs(F)
  BY DEF AsFreeSpace!Runs, AsFreeSpace!Span, Runs, Span
<1>7. \A F, n : AsFreeSpace!FirstFit(F, n) = FirstFit(F, n)
  BY <1>3, <1>6 DEF AsFreeSpace!FirstFit, FirstFit
<1> QED BY <1>1, <1>2, <1>3, <1>4, <1>5, <1>7

LEMMA IndexStep ==
  ASSUME IndexInv, [Next]_vars
  PROVE  IndexInv' /\ [AsFreeSpace!Next]_(AsFreeSpace!vars)
<1>1. ASSUME NEW s \in Block, NEW e \in Block, s <= e, Give(Extent(s, e))
      PROVE  IndexInv' /\ AsFreeSpace!Next
  <2> DEFINE x == Extent(s, e)
  <2>1. x \in FreeIn
    BY <1>1, ExtentIsFree
  <2> HIDE DEF x
  <2>2. Give(x)
    BY <1>1 DEF x
  <2>3. IndexInv' /\ asked' = 0
    BY <2>1, <2>2, GiveFree
  <2>4. freeBlocks' = IF Span(x) \intersect freeBlocks = {}
                      THEN freeBlocks \union Span(x) ELSE freeBlocks
    BY <2>1, <2>2, GiveFree
  <2>5. AsFreeSpace!Give(x)
    BY <2>3, <2>4, SameTerms DEF AsFreeSpace!Give
  <2>6. AsFreeSpace!Give(AsFreeSpace!Extent(s, e))
    BY <2>5, SameTerms DEF x
  <2> QED BY <1>1, <2>3, <2>6, SameTerms DEF AsFreeSpace!Next
<1>2. ASSUME NEW s \in Block, NEW e \in Block, s <= e, GiveMerged(Extent(s, e))
      PROVE  IndexInv' /\ AsFreeSpace!Next
  <2> DEFINE x == Extent(s, e)
  <2>1. x \in FreeIn
    BY <1>2, ExtentIsFree
  <2> HIDE DEF x
  <2>2. GiveMerged(x)
    BY <1>2 DEF x
  <2>3. /\ IndexInv' /\ Span(x) \intersect freeBlocks = {}
        /\ freeBlocks' = freeBlocks \union Span(x) /\ asked' = 0
    BY <2>1, <2>2, GiveMergedFree
  <2>4. AsFreeSpace!Give(x)
    BY <2>3, SameTerms DEF AsFreeSpace!Give
  <2>5. AsFreeSpace!Give(AsFreeSpace!Extent(s, e))
    BY <2>4, SameTerms DEF x
  <2> QED BY <1>2, <2>3, <2>5, SameTerms DEF AsFreeSpace!Next
<1>3. ASSUME NEW s \in Block, NEW e \in Block, s <= e, Cut(s, e)
      PROVE  IndexInv' /\ AsFreeSpace!Next
  <2> DEFINE x == Extent(s, e)
  <2>1. Span(x) = s .. e
    BY <1>3, ExtentIsFree
  <2>2. /\ IndexInv' /\ s .. e \subseteq freeBlocks
        /\ freeBlocks' = freeBlocks \ (s .. e) /\ asked' = 0
    BY <1>3, CutFree
  <2> HIDE DEF x
  <2>3. AsFreeSpace!Cut(x)
    BY <2>1, <2>2, SameTerms DEF AsFreeSpace!Cut
  <2>4. AsFreeSpace!Cut(AsFreeSpace!Extent(s, e))
    BY <2>3, SameTerms DEF x
  <2> QED BY <1>3, <2>2, <2>4, SameTerms DEF AsFreeSpace!Next
<1>4. ASSUME NEW n \in 1 .. Total, Take(n)
      PROVE  IndexInv' /\ AsFreeSpace!Next
  <2>1. n \in Nat
    BY Geometry
  <2>2. /\ IndexInv' /\ asked' = n
        /\ \E x \in FirstFit(freeBlocks, n) :
             freeBlocks' = freeBlocks \ (x.start .. (x.start + MIN(n, Size(x)) - 1))
    BY <1>4, <2>1, TakeFree
  <2>3. PICK x \in AsFreeSpace!FirstFit(freeBlocks, n) :
          freeBlocks' = freeBlocks \ (x.start .. (x.start + AsFreeSpace!MIN(n, AsFreeSpace!Size(x)) - 1))
    BY <2>2, SameTerms
  <2>4. AsFreeSpace!Take(n)
    BY <2>2, <2>3 DEF AsFreeSpace!Take
  <2> QED BY <2>2, <2>4, SameTerms DEF AsFreeSpace!Next
<1>5. ASSUME UNCHANGED vars
      PROVE  IndexInv' /\ UNCHANGED AsFreeSpace!vars
  <2>1. index' = index /\ areaTree' = areaTree /\ asked' = asked
    BY <1>5 DEF vars, index
  <2>2. Filed(index)'
    BY <2>1 DEF Filed, IndexInv
  <2>3. Spaced(areaTree)'
    BY <2>1 DEF Spaced, Gap, IndexInv
  <2>4. freeBlocks' = freeBlocks
    BY <2>1 DEF freeBlocks, Span
  <2> QED BY <2>1, <2>2, <2>3, <2>4 DEF IndexInv, AsFreeSpace!vars
<1> QED BY <1>1, <1>2, <1>3, <1>4, <1>5 DEF Next

LEMMA IndexInvariant == Spec => []IndexInv
<1>1. Init => IndexInv
  BY IndexInitially
<1>2. IndexInv /\ [Next]_vars => IndexInv'
  BY IndexStep
<1> QED BY <1>1, <1>2, PTL DEF Spec

(* The lists and the tree of the free extent index agree: an extent is in  *)
(* the tree if and only if it is in the list of the class of its size, and *)
(* once, and no class that an allocation may choose is empty.              *)
THEOREM IndexListsAgree == Spec => []ListsAgree
<1>1. IndexInv => ListsAgree
  <2> SUFFICES ASSUME IndexInv PROVE ListsAgree
    OBVIOUS
  <2>1. /\ avails \in Seq(ClassIn) /\ Sorted(avails)
        /\ \A d \in Range(avails) : Holds(d, areaTree)
        /\ \A y \in areaTree : HasValue(avails, Size(y))
    BY DEF IndexInv, Filed, index
  <2>2. \A i \in DOMAIN avails : Holds(avails[i], areaTree)
    BY <2>1 DEF Range
  <2>3. \A c, d \in Range(avails) : c.value = d.value => c = d
    BY <2>1, OneClass
  <2>4. \A i, j \in DOMAIN avails : avails[i].value = avails[j].value => i = j
    BY <2>1, <2>3, OneClass DEF IsInjective, Range
  <2>5. ASSUME NEW x \in areaTree
        PROVE  \E i \in DOMAIN avails : \E k \in DOMAIN avails[i].areas :
                 /\ avails[i].value = Size(x)
                 /\ \A j \in DOMAIN avails : \A m \in DOMAIN avails[j].areas :
                      avails[j].areas[m] = x <=> <<i, k>> = <<j, m>>
    <3>1. PICK i \in DOMAIN avails : avails[i].value = Size(x)
      BY <2>1 DEF HasValue, Range
    <3>2. x \in Range(avails[i].areas)
      BY <2>2, <3>1 DEF Holds
    <3>3. PICK k \in DOMAIN avails[i].areas : avails[i].areas[k] = x
      BY <3>2 DEF Range
    <3>4. ASSUME NEW j \in DOMAIN avails, NEW m \in DOMAIN avails[j].areas,
                 avails[j].areas[m] = x
          PROVE  i = j /\ k = m
      <4>1. x \in Range(avails[j].areas)
        BY <3>4 DEF Range
      <4>2. avails[j].value = Size(x)
        BY <2>2, <4>1 DEF Holds
      <4>3. i = j
        BY <2>4, <3>1, <4>2
      <4>4. IsInjective(avails[i].areas)
        BY <2>2 DEF Holds
      <4> QED BY <3>3, <3>4, <4>3, <4>4 DEF IsInjective
    <3> QED BY <3>1, <3>3, <3>4
  <2>6. \A i \in DOMAIN avails :
          avails[i].areas # <<>> /\ Range(avails[i].areas) \subseteq areaTree
    BY <2>2 DEF Holds
  <2> QED BY <2>5, <2>6 DEF ListsAgree
<1> QED BY <1>1, IndexInvariant, PTL

(* Free extents are always merged: whatever is inserted, carved out and    *)
(* taken, the extents of the tree are the maximal runs of free blocks.     *)
THEOREM IndexUnfragmented == Spec => []Unfragmented
<1>1. IndexInv => Unfragmented
  BY RunsAre DEF IndexInv, Filed, index, Unfragmented, freeBlocks, FreeOf
<1> QED BY <1>1, IndexInvariant, PTL

(* The index implements FreeSpace: the lists, the classes and the merging  *)
(* come to a set of free blocks from which an allocation takes the front   *)
(* of a best fit.  BlockArea and Demotion have their free blocks so.       *)
THEOREM IndexIsFreeSpace == Spec => FreeSpaceSpec
<1>1. Init => AsFreeSpace!Init
  BY IndexInitially, SameTerms DEF AsFreeSpace!Init
<1>2. IndexInv /\ [Next]_vars => [AsFreeSpace!Next]_(AsFreeSpace!vars)
  BY IndexStep
<1> QED BY <1>1, <1>2, IndexInvariant, PTL DEF Spec, FreeSpaceSpec, AsFreeSpace!Spec

-----------------------------------------------------------------------------
(* The counters, and what they say of the map.                             *)
Counts(c, S, n) ==
  c.bit_cnt = Cardinality(S) /\ c.free = n - Cardinality(S)

(* k blocks less than the device has, as an unsigned int.                  *)
Left(k) == IF k <= Total THEN Total - k ELSE Word + Total - k

CountsTo(c, k) == c.bit_cnt = k /\ c.free = Left(k)

Twice(S) == Cardinality(S) + Cardinality(S \ Block)

CountInv ==
  /\ map \subseteq Known
  /\ CountsTo(bitmap, Twice(map))
  /\ area \in [Tiers -> Counters]
  /\ \A t \in Tiers : Counts(area[t], map \intersect TierBlocks(t), AreaBlocks[t])

-----------------------------------------------------------------------------
(* hypraid_get_bitmap_area: a block is in one group, and only in that one. *)
(* Any other block is of group -1.                                         *)
LEMMA AreaOfBlock ==
  ASSUME NEW b \in Known
  PROVE  /\ AreaOf(b) = -1 <=> b \notin Block
         /\ \A t \in Tiers : b \in TierBlocks(t) <=> t = AreaOf(b)
<1>1. CASE b \in Block
  <2>1. PICK t \in Tiers : \A u \in Tiers : b \in TierBlocks(u) <=> u = t
    BY <1>1, OneGroup
  <2>2. AreaOf(b) \in Tiers /\ \A u \in Tiers : b \in TierBlocks(u) <=> u = AreaOf(b)
    BY <1>1, <2>1 DEF AreaOf
  <2>3. AreaOf(b) # -1
    BY <2>2 DEF Tiers
  <2> QED BY <1>1, <2>2, <2>3
<1>2. CASE b \notin Block
  <2>1. AreaOf(b) = -1
    BY <1>2 DEF AreaOf
  <2>2. \A t \in Tiers : b \notin TierBlocks(t) /\ t # -1
    BY <1>2, Geometry DEF Tiers
  <2> QED BY <1>2, <2>1, <2>2
<1> QED BY <1>1, <1>2

(* Marking one more block of a set U moves both of its counters by one,    *)
(* and none of them wraps.                                                 *)
LEMMA TakeOne ==
  ASSUME NEW U, IsFiniteSet(U), Cardinality(U) <= Total, NEW S \in SUBSET U,
         NEW b \in U, b \notin S, NEW c \in Counters, Counts(c, S, Cardinality(U))
  PROVE  Taken(c) \in Counters /\ Counts(Taken(c), S \union {b}, Cardinality(U))
<1>1. IsFiniteSet(S) /\ Cardinality(S) \in Nat /\ Cardinality(U) \in Nat
  BY FS_Subset, FS_CardinalityType
<1>2. Cardinality(S \union {b}) = Cardinality(S) + 1
  BY <1>1, FS_AddElement
<1>3. Cardinality(S) < Cardinality(U)
  <2>1. Cardinality(S) <= Cardinality(U) /\ (Cardinality(U) = Cardinality(S) => U = S)
    BY FS_Subset
  <2> QED BY <1>1, <2>1
<1> DEFINE s == Cardinality(S)  u == Cardinality(U)
<1>4. s \in Nat /\ u \in Nat /\ s < u /\ u <= Total
  BY <1>1, <1>3
<1>5. c.bit_cnt = s /\ c.free = u - s
  BY DEF Counts
<1> HIDE DEF s, u
<1>6. Inc(c.bit_cnt) = s + 1 /\ Dec(c.free) = u - (s + 1)
  BY <1>4, <1>5, Geometry, WordAssumption DEF Inc, Dec
<1>7. s + 1 \in 0 .. (Word - 1) /\ u - (s + 1) \in 0 .. (Word - 1)
  BY <1>4, Geometry, WordAssumption
<1> QED BY <1>2, <1>6, <1>7 DEF Taken, Counters, Counts, s, u

(* So does giving one back.                                                *)
LEMMA FreeOne ==
  ASSUME NEW U, IsFiniteSet(U), Cardinality(U) <= Total, NEW S \in SUBSET U,
         NEW b \in S, NEW c \in Counters, Counts(c, S, Cardinality(U))
  PROVE  Freed(c) \in Counters /\ Counts(Freed(c), S \ {b}, Cardinality(U))
<1>1. IsFiniteSet(S) /\ Cardinality(S) \in Nat /\ Cardinality(U) \in Nat
      /\ Cardinality(S) <= Cardinality(U)
  BY FS_Subset, FS_CardinalityType
<1>2. Cardinality(S \ {b}) = Cardinality(S) - 1
  BY <1>1, FS_RemoveElement
<1>3. Cardinality(S) > 0
  BY <1>1, FS_EmptySet
<1> DEFINE s == Cardinality(S)  u == Cardinality(U)
<1>4. s \in Nat /\ s > 0 /\ u \in Nat /\ s <= u /\ u <= Total
  BY <1>1, <1>3
<1>5. c.bit_cnt = s /\ c.free = u - s
  BY DEF Counts
<1> HIDE DEF s, u
<1>6. Dec(c.bit_cnt) = s - 1 /\ Inc(c.free) = u - (s - 1)
  BY <1>4, <1>5, Geometry, WordAssumption DEF Inc, Dec
<1>7. s - 1 \in 0 .. (Word - 1) /\ u - (s - 1) \in 0 .. (Word - 1)
  BY <1>4, Geometry, WordAssumption
<1> QED BY <1>2, <1>6, <1>7 DEF Freed, Counters, Counts, s, u

(* The device's counters go up and down by one as long as they count less  *)
(* than an unsigned int has values, whether free has wrapped or not.       *)
LEMMA TakeDevice ==
  ASSUME NEW k \in Nat, k + 1 <= Total + 2 * Spare, NEW c, CountsTo(c, k)
  PROVE  CountsTo(Taken(c), k + 1)
<1>1. Inc(k) = k + 1
  BY Geometry, WordAssumption DEF Inc
<1>2. Dec(Left(k)) = Left(k + 1)
  BY Geometry, WordAssumption DEF Dec, Left
<1> QED BY <1>1, <1>2 DEF CountsTo, Taken

LEMMA FreeDevice ==
  ASSUME NEW k \in Nat, k + 1 <= Total + 2 * Spare, NEW c, CountsTo(c, k + 1)
  PROVE  CountsTo(Freed(c), k)
<1>1. Dec(k + 1) = k
  BY Geometry, WordAssumption DEF Dec
<1>2. Inc(Left(k + 1)) = Left(k)
  BY Geometry, WordAssumption DEF Inc, Left
<1> QED BY <1>1, <1>2 DEF CountsTo, Freed

(* A marked block counts once, or twice when it is outside the device.     *)
LEMMA TwiceMarked ==
  ASSUME NEW S \in SUBSET Known
  PROVE  /\ Twice(S) \in Nat /\ Twice(S) <= Total + 2 * Spare
         /\ \A b \in Known \ S :
              Twice(S \union {b}) = Twice(S) + (IF b \in Block THEN 1 ELSE 2)
<1>1. IsFiniteSet(Known) /\ Cardinality(Known) = Total + Spare
  BY FS_Interval, Geometry, WordAssumption DEF Known
<1>2. /\ IsFiniteSet(S) /\ Cardinality(S) \in Nat /\ Cardinality(S) <= Total + Spare
  BY <1>1, FS_Subset, FS_CardinalityType
<1>3. /\ IsFiniteSet(S \ Block) /\ Cardinality(S \ Block) \in Nat
      /\ Cardinality(S \ Block) <= Spare
  <2>1. S \ Block \subseteq Total .. (Total + Spare - 1)
    BY Geometry, WordAssumption DEF Known, Block
  <2>2. /\ IsFiniteSet(Total .. (Total + Spare - 1))
        /\ Cardinality(Total .. (Total + Spare - 1)) = Spare
    <3>1. ASSUME NEW m \in Nat, NEW n \in Nat
          PROVE  /\ IsFiniteSet(m .. (m + n - 1))
                 /\ Cardinality(m .. (m + n - 1)) = n
      BY FS_Interval
    <3> QED BY <3>1, Geometry, WordAssumption
  <2> QED BY <2>1, <2>2, FS_Subset, FS_CardinalityType
<1>4. Twice(S) \in Nat /\ Twice(S) <= Total + 2 * Spare
  BY <1>2, <1>3, Geometry, WordAssumption DEF Twice
<1>5. ASSUME NEW b \in Known \ S
      PROVE  Twice(S \union {b}) = Twice(S) + (IF b \in Block THEN 1 ELSE 2)
  <2>1. Cardinality(S \union {b}) = Cardinality(S) + 1
    BY <1>2, FS_AddElement
  <2>2. CASE b \in Block
    <3>1. (S \union {b}) \ Block = S \ Block
      BY <2>2
    <3>2. Twice(S \union {b}) = Cardinality(S) + 1 + Cardinality(S \ Block)
      BY <2>1, <3>1 DEF Twice
    <3> QED BY <1>2, <1>3, <2>2, <3>2 DEF Twice
  <2>3. CASE b \notin Block
    <3>1. (S \union {b}) \ Block = (S \ Block) \union {b}
      BY <2>3
    <3>2. Cardinality((S \ Block) \union {b}) = Cardinality(S \ Block) + 1
      BY <1>3, FS_AddElement
    <3> QED BY <1>2, <1>3, <2>1, <2>3, <3>1, <3>2 DEF Twice
  <2> QED BY <2>2, <2>3
<1> QED BY <1>4, <1>5

-----------------------------------------------------------------------------
LEMMA CountsInitially == BInit => CountInv
<1> SUFFICES ASSUME BInit PROVE CountInv
  OBVIOUS
<1>1. Cardinality({}) = 0
  BY FS_EmptySet
<1>2. map = {} /\ bitmap = [free |-> Total, bit_cnt |-> 0]
      /\ area = [t \in Tiers |-> [free |-> AreaBlocks[t], bit_cnt |-> 0]]
  BY DEF BInit
<1>3. CountsTo(bitmap, Twice(map))
  <2>1. Twice(map) = 0
    BY <1>1, <1>2 DEF Twice
  <2>2. Left(0) = Total
    BY Geometry DEF Left
  <2> QED BY <1>2, <2>1, <2>2 DEF CountsTo
<1>4. ASSUME NEW t \in Tiers
      PROVE  /\ area[t] = [free |-> AreaBlocks[t], bit_cnt |-> 0]
             /\ area[t] \in Counters
             /\ Counts(area[t], map \intersect TierBlocks(t), AreaBlocks[t])
  <2>1. area[t] = [free |-> AreaBlocks[t], bit_cnt |-> 0]
    BY <1>2
  <2>2. map \intersect TierBlocks(t) = {}
    BY <1>2
  <2>3. AreaBlocks[t] \in 0 .. (Word - 1) /\ 0 \in 0 .. (Word - 1)
        /\ AreaBlocks[t] - 0 = AreaBlocks[t]
    BY Geometry, WordAssumption
  <2>4. area[t] \in Counters
    BY <2>1, <2>3 DEF Counters
  <2>5. area[t].bit_cnt = 0 /\ area[t].free = AreaBlocks[t]
    BY <2>1
  <2>6. Counts(area[t], map \intersect TierBlocks(t), AreaBlocks[t])
    BY <1>1, <2>2, <2>3, <2>5 DEF Counts
  <2> QED BY <2>1, <2>4, <2>6
<1>5. area \in [Tiers -> Counters]
  BY <1>2, <1>4
<1> QED BY <1>2, <1>3, <1>4, <1>5 DEF CountInv

(* Of a step, the device's counters see the block in the device's map, and *)
(* of the groups only the block's own sees it.                             *)
LEMMA CountsStep == CountInv /\ [BNext]_bvars => CountInv'
<1> SUFFICES ASSUME CountInv, [BNext]_bvars PROVE CountInv'
  OBVIOUS
<1>1. /\ map \subseteq Known /\ area \in [Tiers -> Counters]
      /\ CountsTo(bitmap, Twice(map))
      /\ \A t \in Tiers : Counts(area[t], map \intersect TierBlocks(t), AreaBlocks[t])
  BY DEF CountInv
<1>2. ASSUME NEW b \in Known, Set(b) PROVE CountInv'
  <2>1. /\ b \notin map /\ map' = map \union {b}
        /\ bitmap' = IF AreaOf(b) = -1 THEN Taken(Taken(bitmap)) ELSE Taken(bitmap)
        /\ area' = [t \in Tiers |-> IF t = AreaOf(b) THEN Taken(area[t]) ELSE area[t]]
    BY <1>2 DEF Set, OfDevice, OfGroups
  <2>2. CountsTo(bitmap', Twice(map'))
    <3> DEFINE k == Twice(map)
    <3>1. /\ k \in Nat
          /\ Twice(map') = k + (IF b \in Block THEN 1 ELSE 2)
      BY <1>1, <2>1, TwiceMarked
    <3>2. Twice(map') <= Total + 2 * Spare
      BY <1>1, <2>1, TwiceMarked
    <3>3. CountsTo(bitmap, k)
      BY <1>1
    <3> HIDE DEF k
    <3>4. Total + 2 * Spare \in Nat
      BY Geometry, WordAssumption
    <3>5. CountsTo(Taken(bitmap), k + 1)
      BY <3>1, <3>2, <3>3, <3>4, TakeDevice
    <3>6. CASE b \in Block
      BY <2>1, <3>1, <3>5, <3>6, AreaOfBlock
    <3>7. CASE b \notin Block
      <4>1. k + 1 + 1 <= Total + 2 * Spare /\ k + 1 \in Nat /\ k + 1 + 1 = Twice(map')
        BY <3>1, <3>2, <3>4, <3>7
      <4>2. CountsTo(Taken(Taken(bitmap)), k + 1 + 1)
        BY <3>5, <4>1, TakeDevice
      <4> QED BY <2>1, <3>7, <4>1, <4>2, AreaOfBlock
    <3> QED BY <3>6, <3>7
  <2>3. ASSUME NEW t \in Tiers
        PROVE  /\ area'[t] \in Counters
               /\ Counts(area'[t], map' \intersect TierBlocks(t), AreaBlocks[t])
    <3>1. CASE t = AreaOf(b)
      <4>1. b \in TierBlocks(t) /\ area'[t] = Taken(area[t])
        BY <1>1, <2>1, <3>1, AreaOfBlock
      <4>2. map' \intersect TierBlocks(t) = (map \intersect TierBlocks(t)) \union {b}
        BY <2>1, <4>1
      <4> DEFINE S == map \intersect TierBlocks(t)
      <4>3. /\ IsFiniteSet(TierBlocks(t)) /\ Cardinality(TierBlocks(t)) = AreaBlocks[t]
            /\ AreaBlocks[t] <= Total /\ S \subseteq TierBlocks(t)
        BY Sizes, Geometry
      <4>4. area[t] \in Counters /\ Counts(area[t], S, AreaBlocks[t]) /\ b \notin S
        BY <1>1, <2>1, <4>1
      <4> HIDE DEF S
      <4>5. Taken(area[t]) \in Counters /\ Counts(Taken(area[t]), S \union {b}, AreaBlocks[t])
        BY <4>1, <4>3, <4>4, TakeOne
      <4> QED BY <4>1, <4>2, <4>5 DEF S
    <3>2. CASE t # AreaOf(b)
      <4>1. b \notin TierBlocks(t) /\ area'[t] = area[t]
        BY <1>1, <2>1, <3>2, AreaOfBlock
      <4>2. map' \intersect TierBlocks(t) = map \intersect TierBlocks(t)
        BY <2>1, <4>1
      <4> QED BY <1>1, <4>1, <4>2
    <3> QED BY <3>1, <3>2
  <2>4. area' \in [Tiers -> Counters]
    BY <1>1, <2>1, <2>3
  <2>5. map' \subseteq Known
    BY <1>1, <2>1
  <2> QED BY <2>2, <2>3, <2>4, <2>5 DEF CountInv
<1>3. ASSUME NEW b \in Known, Clear(b) PROVE CountInv'
  <2>1. /\ b \in map /\ map' = map \ {b}
        /\ bitmap' = IF AreaOf(b) = -1 THEN Freed(Freed(bitmap)) ELSE Freed(bitmap)
        /\ area' = [t \in Tiers |-> IF t = AreaOf(b) THEN Freed(area[t]) ELSE area[t]]
    BY <1>3 DEF Clear, OfDevice, OfGroups
  <2>2. CountsTo(bitmap', Twice(map'))
    <3> DEFINE k == Twice(map')
    <3>1. map' \subseteq Known /\ b \in Known \ map' /\ map = map' \union {b}
      BY <1>1, <2>1
    <3>2. k \in Nat /\ Twice(map) = k + (IF b \in Block THEN 1 ELSE 2)
      BY <3>1, TwiceMarked
    <3>3. Twice(map) <= Total + 2 * Spare
      BY <1>1, TwiceMarked
    <3>4. CountsTo(bitmap, Twice(map))
      BY <1>1
    <3> HIDE DEF k
    <3>5. Total + 2 * Spare \in Nat
      BY Geometry, WordAssumption
    <3>6. CASE b \in Block
      <4>1. k + 1 <= Total + 2 * Spare /\ Twice(map) = k + 1
        BY <3>2, <3>3, <3>5, <3>6
      <4>2. CountsTo(Freed(bitmap), k)
        BY <3>2, <3>4, <4>1, FreeDevice
      <4> QED BY <2>1, <3>6, <4>2, AreaOfBlock DEF k
    <3>7. CASE b \notin Block
      <4>1. /\ k + 1 \in Nat /\ k + 1 <= Total + 2 * Spare
            /\ k + 1 + 1 <= Total + 2 * Spare /\ Twice(map) = k + 1 + 1
        BY <3>2, <3>3, <3>5, <3>7
      <4>2. CountsTo(Freed(bitmap), k + 1)
        BY <3>4, <4>1, FreeDevice
      <4>3. CountsTo(Freed(Freed(bitmap)), k)
        BY <3>2, <4>1, <4>2, FreeDevice
      <4> QED BY <2>1, <3>7, <4>3, AreaOfBlock DEF k
    <3> QED BY <3>6, <3>7
  <2>3. ASSUME NEW t \in Tiers
        PROVE  /\ area'[t] \in Counters
               /\ Counts(area'[t], map' \intersect TierBlocks(t), AreaBlocks[t])
    <3>1. CASE t = AreaOf(b)
      <4>1. b \in TierBlocks(t) /\ area'[t] = Freed(area[t])
        BY <1>1, <2>1, <3>1, AreaOfBlock
      <4>2. map' \intersect TierBlocks(t) = (map \intersect TierBlocks(t)) \ {b}
        BY <2>1, <4>1
      <4> DEFINE S == map \intersect TierBlocks(t)
      <4>3. /\ IsFiniteSet(TierBlocks(t)) /\ Cardinality(TierBlocks(t)) = AreaBlocks[t]
            /\ AreaBlocks[t] <= Total /\ S \subseteq TierBlocks(t)
        BY Sizes, Geometry
      <4>4. area[t] \in Counters /\ Counts(area[t], S, AreaBlocks[t]) /\ b \in S
        BY <1>1, <2>1, <4>1
      <4> HIDE DEF S
      <4>5. Freed(area[t]) \in Counters /\ Counts(Freed(area[t]), S \ {b}, AreaBlocks[t])
        BY <4>1, <4>3, <4>4, FreeOne
      <4> QED BY <4>1, <4>2, <4>5 DEF S
    <3>2. CASE t # AreaOf(b)
      <4>1. b \notin TierBlocks(t) /\ area'[t] = area[t]
        BY <1>1, <2>1, <3>2, AreaOfBlock
      <4>2. map' \intersect TierBlocks(t) = map \intersect TierBlocks(t)
        BY <2>1, <4>1
      <4> QED BY <1>1, <4>1, <4>2
    <3> QED BY <3>1, <3>2
  <2>4. area' \in [Tiers -> Counters]
    BY <1>1, <2>1, <2>3
  <2>5. map' \subseteq Known
    BY <1>1, <2>1
  <2> QED BY <2>2, <2>3, <2>4, <2>5 DEF CountInv
<1>4. CASE UNCHANGED bvars
  BY <1>1, <1>4 DEF bvars, CountInv
<1> QED BY <1>2, <1>3, <1>4 DEF BNext

-----------------------------------------------------------------------------
(* Whatever is set or cleared, and however often, the counters of a group  *)
(* are the numbers of its marked and free blocks, and those of the device  *)
(* count a block outside for two.                                          *)
THEOREM CountersAreRight == BSpec => []CountersMatchMap
<1>1. CountInv => CountersMatchMap
  BY DEF CountInv, Counts, CountsTo, Twice, Left, Double, CountersMatchMap
<1> QED BY CountsInitially, CountsStep, <1>1, PTL DEF BSpec

(* hypraid_is_area_bitmap_free, an unsigned difference returned as an int, *)
(* is the number of blocks left over, and negative when there are none.    *)
THEOREM AnswersAreSigned == BSpec => []AnswerIsSigned
<1>1. ASSUME CountInv, NEW t \in Tiers, NEW n \in 0 .. Total
      PROVE  Minus(area[t].free, n)
               = AreaBlocks[t] - Cardinality(map \intersect TierBlocks(t)) - n
  <2> DEFINE k == Cardinality(map \intersect TierBlocks(t))
  <2>1. area[t].free = AreaBlocks[t] - k /\ area[t].free \in 0 .. (Word - 1)
    BY <1>1 DEF CountInv, Counts, Counters
  <2>2. k \in Nat
    BY Sizes, FS_Subset, FS_CardinalityType
  <2> HIDE DEF k
  <2>3. Minus(AreaBlocks[t] - k, n) = AreaBlocks[t] - k - n
    BY <2>1, <2>2, Geometry, WordAssumption DEF Minus
  <2> QED BY <2>1, <2>3 DEF k
<1>2. CountInv => AnswerIsSigned
  BY <1>1 DEF AnswerIsSigned
<1> QED BY CountsInitially, CountsStep, <1>2, PTL DEF BSpec
=============================================================================
