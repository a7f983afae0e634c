---------------------------- MODULE ExtentsProofs ----------------------------
(***************************************************************************)
(* Facts about the geometry of the device and about its extents, for the   *)
(* proofs of the modules built on Extents.                                 *)
(***************************************************************************)
EXTENDS Extents, Lists, FiniteSetTheorems, SequenceTheorems, TLAPS

(* The device is not empty, and the groups are parts of it.                *)
LEMMA Geometry ==
  /\ Total \in Nat /\ Total > 0 /\ Block \subseteq Nat
  /\ \A t \in Tiers : /\ AreaBlocks[t] \in Nat /\ AreaBlocks[t] <= Total
                      /\ Bound(t) \in Nat /\ TierBlocks(t) \subseteq Block
<1>1. AreaBlocks[0] \in Nat \ {0} /\ AreaBlocks[1] \in Nat \ {0} /\ AreaBlocks[2] \in Nat \ {0}
  BY AreaBlocksAssumption
<1>2. Total \in Nat /\ Total > 0 /\ Block \subseteq Nat
  BY <1>1 DEF Total, Block
<1>3. \A t \in Tiers : t = 0 \/ t = 1 \/ t = 2
  BY DEF Tiers
<1>4. Bound(0) = 0 /\ Bound(1) = AreaBlocks[0] /\ Bound(2) = AreaBlocks[0] + AreaBlocks[1]
  BY DEF Bound
<1>5. \A t \in Tiers : /\ AreaBlocks[t] \in Nat /\ AreaBlocks[t] <= Total
                       /\ Bound(t) \in Nat /\ Bound(t) + AreaBlocks[t] <= Total
  BY <1>1, <1>3, <1>4 DEF Total
<1>6. ASSUME NEW t \in Tiers PROVE TierBlocks(t) \subseteq Block
  BY <1>2, <1>5 DEF TierBlocks, Block
<1> QED BY <1>2, <1>5, <1>6

(* The device and each group hold as many blocks as configured.            *)
LEMMA Sizes ==
  /\ IsFiniteSet(Block) /\ Cardinality(Block) = Total
  /\ \A t \in Tiers : /\ IsFiniteSet(TierBlocks(t))
                      /\ Cardinality(TierBlocks(t)) = AreaBlocks[t]
<1>1. IsFiniteSet(Block) /\ Cardinality(Block) = Total
  BY Geometry, FS_Interval DEF Block
<1>2. ASSUME NEW t \in Tiers
      PROVE  IsFiniteSet(TierBlocks(t)) /\ Cardinality(TierBlocks(t)) = AreaBlocks[t]
  <2>1. ASSUME NEW m \in Nat, NEW n \in Nat
        PROVE  IsFiniteSet(m .. (m + n - 1)) /\ Cardinality(m .. (m + n - 1)) = n
    BY FS_Interval
  <2> QED BY <2>1, Geometry DEF TierBlocks
<1> QED BY <1>1, <1>2

(* The groups share the device: a block is in one of them, and in one only.*)
LEMMA OneGroup ==
  ASSUME NEW b \in Block
  PROVE  \E t \in Tiers : \A u \in Tiers : b \in TierBlocks(u) <=> u = t
<1>1. AreaBlocks[0] \in Nat /\ AreaBlocks[1] \in Nat /\ AreaBlocks[2] \in Nat
  BY Geometry DEF Tiers
<1>2. /\ TierBlocks(0) = 0 .. (AreaBlocks[0] - 1)
      /\ TierBlocks(1) = AreaBlocks[0] .. (AreaBlocks[0] + AreaBlocks[1] - 1)
      /\ TierBlocks(2) = (AreaBlocks[0] + AreaBlocks[1]) ..
                           (AreaBlocks[0] + AreaBlocks[1] + AreaBlocks[2] - 1)
  BY <1>1 DEF TierBlocks, Bound
<1>3. b \in Int /\ 0 <= b /\ b < AreaBlocks[0] + AreaBlocks[1] + AreaBlocks[2]
  BY <1>1 DEF Block, Total
<1>4. b \in TierBlocks(0) <=> b < AreaBlocks[0]
  BY <1>1, <1>2, <1>3
<1>5. b \in TierBlocks(1) <=> AreaBlocks[0] <= b /\ b < AreaBlocks[0] + AreaBlocks[1]
  BY <1>1, <1>2, <1>3
<1>6. b \in TierBlocks(2) <=> AreaBlocks[0] + AreaBlocks[1] <= b
  BY SMTT(60), <1>1, <1>2, <1>3
<1>7. 0 \in Tiers /\ 1 \in Tiers /\ 2 \in Tiers /\ \A t \in Tiers : t = 0 \/ t = 1 \/ t = 2
  BY DEF Tiers
<1>8. \/ b < AreaBlocks[0]
      \/ AreaBlocks[0] <= b /\ b < AreaBlocks[0] + AreaBlocks[1]
      \/ AreaBlocks[0] <= b /\ AreaBlocks[0] + AreaBlocks[1] <= b
  BY <1>1, <1>3
<1>9. CASE b < AreaBlocks[0]
  <2>1. ~ (AreaBlocks[0] <= b) /\ ~ (AreaBlocks[0] + AreaBlocks[1] <= b)
    BY <1>1, <1>3, <1>9
  <2> QED BY <1>4, <1>5, <1>6, <1>7, <1>9, <2>1
<1>10. CASE AreaBlocks[0] <= b /\ b < AreaBlocks[0] + AreaBlocks[1]
  <2>1. ~ (b < AreaBlocks[0]) /\ ~ (AreaBlocks[0] + AreaBlocks[1] <= b)
    BY <1>1, <1>3, <1>10
  <2> QED BY <1>4, <1>5, <1>6, <1>7, <1>10, <2>1
<1>11. CASE AreaBlocks[0] <= b /\ AreaBlocks[0] + AreaBlocks[1] <= b
  <2>1. ~ (b < AreaBlocks[0]) /\ ~ (b < AreaBlocks[0] + AreaBlocks[1])
    BY <1>1, <1>3, <1>11
  <2> QED BY <1>4, <1>5, <1>6, <1>7, <1>11, <2>1
<1> QED BY <1>8, <1>9, <1>10, <1>11

-----------------------------------------------------------------------------
(* A free extent an allocation takes is a run of free blocks.              *)
LEMMA FitIsFree ==
  ASSUME NEW F, NEW n, NEW x \in FirstFit(F, n)
  PROVE  x.start \in F /\ x.end \in F /\ x.start <= x.end /\ Span(x) \subseteq F
  BY DEF FirstFit, Runs

(* MIN is the lesser of two numbers.                                       *)
LEMMA MinInt ==
  ASSUME NEW a \in Int, NEW b \in Int
  PROVE  /\ MIN(a, b) \in Int /\ MIN(a, b) <= a /\ MIN(a, b) <= b
         /\ MIN(a, b) = a \/ MIN(a, b) = b
  BY DEF MIN

(* The first n numbers of an interval, and the others.                     *)
LEMMA CutInterval ==
  ASSUME NEW i \in Int, NEW j \in Int, NEW n \in Int, n >= 0, n <= j - i + 1
  PROVE  /\ (i .. (i + n - 1)) \union ((i + n) .. j) = i .. j
         /\ (i .. (i + n - 1)) \intersect ((i + n) .. j) = {}
         /\ (i .. j) \ (i .. (i + n - 1)) = (i + n) .. j
  OBVIOUS

(* hypraid_make_request sends nothing beyond the bio.                      *)
LEMMA SentWithin ==
  ASSUME NEW S \in Int, NEW E \in Int, NEW T \in Nat \ {0}
  PROVE  Sent(S, E, T) \subseteq S .. E
<1>1. CASE S \div T = E \div T \/ E % T # 0
  BY <1>1 DEF Sent
<1>2. CASE ~ (S \div T = E \div T \/ E % T # 0)
  <2> DEFINE n == E - S + 1 - ((T - (S % T)) + (E % T))
  <2>1. n \in Int /\ n <= E - S + 1
    <3>1. S % T \in 0 .. (T - 1) /\ E % T = 0
      BY <1>2
    <3> QED BY <3>1
  <2> HIDE DEF n
  <2>2. (n \div T) * T \in Int /\ (n \div T) * T <= n
    BY <2>1
  <2>3. Sent(S, E, T) = S .. (S + (n \div T) * T - 1)
    BY <1>2 DEF Sent, n
  <2> QED BY <2>1, <2>2, <2>3
<1> QED BY <1>1, <1>2

-----------------------------------------------------------------------------
(* list_del: what is left of a list is a list.                             *)
LEMMA UnlinkType ==
  ASSUME NEW S, NEW s \in Seq(S), NEW n
  PROVE  Unlink(s, n) \in Seq(S)
<1>1. CASE n \in Range(s)
  <2> DEFINE i == CHOOSE i \in DOMAIN s : s[i] = n
  <2>1. i \in 1 .. Len(s)
    BY <1>1 DEF Range
  <2> HIDE DEF i
  <2>2. Len(s) \in Nat /\ \A k \in 1 .. Len(s) : s[k] \in S
    BY ElementOfSeq, LenProperties
  <2>3. SubSeq(s, 1, i - 1) \in Seq(S) /\ SubSeq(s, i + 1, Len(s)) \in Seq(S)
    BY <2>1, <2>2, SubSeqProperties
  <2>4. RemoveAt(s, i) \in Seq(S)
    BY <2>3, ConcatProperties DEF RemoveAt
  <2> QED BY <1>1, <2>4 DEF Unlink, i
<1>2. CASE n \notin Range(s)
  BY <1>2 DEF Unlink
<1> QED BY <1>1, <1>2

(* The list without an element that is on it.                              *)
LEMMA UnlinkIndex ==
  ASSUME NEW S, NEW s \in Seq(S), NEW n \in Range(s)
  PROVE  /\ Len(s) \in Nat /\ DOMAIN s = 1 .. Len(s)
         /\ DOMAIN Unlink(s, n) = 1 .. (Len(s) - 1)
         /\ \E i \in 1 .. Len(s) :
              /\ s[i] = n
              /\ \A k \in 1 .. (Len(s) - 1) :
                   Unlink(s, n)[k] = IF k < i THEN s[k] ELSE s[k + 1]
<1> DEFINE i == CHOOSE i \in DOMAIN s : s[i] = n
           r == RemoveAt(s, i)
<1>1. i \in 1 .. Len(s) /\ s[i] = n
  BY DEF Range
<1>2. Unlink(s, n) = r
  BY DEF Unlink
<1> HIDE DEF i
<1>3. Len(s) \in Nat /\ DOMAIN s = 1 .. Len(s) /\ \A k \in 1 .. Len(s) : s[k] \in S
  BY ElementOfSeq, LenProperties
<1> DEFINE f == SubSeq(s, 1, i - 1)
           g == SubSeq(s, i + 1, Len(s))
<1>4. f \in Seq(S) /\ Len(f) = i - 1 /\ \A k \in 1 .. (i - 1) : f[k] = s[k]
  BY <1>1, <1>3, SubSeqProperties
<1>5. g \in Seq(S) /\ Len(g) = Len(s) - i
      /\ \A k \in 1 .. (Len(s) - i) : g[k] = s[i + k]
  <2>1. \A k \in (i + 1) .. Len(s) : s[k] \in S
    BY <1>1, <1>3
  <2>2. /\ g \in Seq(S)
        /\ Len(g) = IF i + 1 <= Len(s) THEN Len(s) - (i + 1) + 1 ELSE 0
        /\ \A k \in 1 .. (Len(s) - (i + 1) + 1) : g[k] = s[(i + 1) + k - 1]
    BY <1>1, <1>3, <2>1, SubSeqProperties
  <2> HIDE DEF g
  <2>3. Len(g) = Len(s) - i
    <3>1. ASSUME NEW l \in Nat, NEW j \in 1 .. l
          PROVE  (IF j + 1 <= l THEN l - (j + 1) + 1 ELSE 0) = l - j
      OBVIOUS
    <3>2. (IF i + 1 <= Len(s) THEN Len(s) - (i + 1) + 1 ELSE 0) = Len(s) - i
      BY <1>1, <1>3, <3>1
    <3> QED BY <2>2, <3>2
  <2>4. ASSUME NEW k \in 1 .. (Len(s) - i) PROVE g[k] = s[i + k]
    <3>1. k \in 1 .. (Len(s) - (i + 1) + 1) /\ (i + 1) + k - 1 = i + k
      BY <1>1, <1>3
    <3>2. g[k] = s[(i + 1) + k - 1]
      BY <2>2, <3>1
    <3> QED BY <3>1, <3>2
  <2> QED BY <2>2, <2>3, <2>4
<1>6. r = f \o g
  BY DEF RemoveAt
<1> HIDE DEF f, g, r
<1>7. Len(r) = Len(s) - 1 /\ DOMAIN r = 1 .. (Len(s) - 1)
  <2>1. Len(r) = Len(f) + Len(g) /\ r \in Seq(S)
    BY <1>4, <1>5, <1>6, ConcatProperties
  <2>2. Len(r) = Len(s) - 1
    BY <1>1, <1>3, <1>4, <1>5, <2>1
  <2> QED BY <2>1, <2>2, LenProperties
<1>8. \A k \in 1 .. (Len(s) - 1) : r[k] = IF k < i THEN s[k] ELSE s[k + 1]
  <2> SUFFICES ASSUME NEW k \in 1 .. (Len(s) - 1)
               PROVE  r[k] = IF k < i THEN s[k] ELSE s[k + 1]
    OBVIOUS
  <2>1. r[k] = IF k <= Len(f) THEN f[k] ELSE g[k - Len(f)]
    BY <1>3, <1>4, <1>5, <1>6, <1>1, ConcatProperties
  <2>2. CASE k < i
    BY <1>1, <1>3, <1>4, <2>1, <2>2
  <2>3. CASE ~ (k < i)
    <3>1. k - Len(f) \in 1 .. (Len(s) - i) /\ i + (k - Len(f)) = k + 1
      BY <1>1, <1>3, <1>4, <2>3
    <3> QED BY <1>1, <1>3, <1>4, <1>5, <2>1, <2>3, <3>1
  <2> QED BY <2>2, <2>3
<1> QED BY <1>1, <1>2, <1>3, <1>7, <1>8

(* A list that holds nothing twice loses just the element that is unlinked,*)
LEMMA UnlinkRange ==
  ASSUME NEW S, NEW s \in Seq(S), IsInjective(s), NEW n
  PROVE  Range(Unlink(s, n)) = Range(s) \ {n} /\ IsInjective(Unlink(s, n))
<1>1. CASE n \notin Range(s)
  BY <1>1 DEF Unlink
<1>2. CASE n \in Range(s)
  <2> DEFINE r == Unlink(s, n)
  <2>1. Len(s) \in Nat /\ DOMAIN s = 1 .. Len(s) /\ DOMAIN r = 1 .. (Len(s) - 1)
    BY <1>2, UnlinkIndex
  <2>2. PICK i \in 1 .. Len(s) :
          /\ s[i] = n
          /\ \A k \in 1 .. (Len(s) - 1) : r[k] = IF k < i THEN s[k] ELSE s[k + 1]
    BY <1>2, UnlinkIndex
  <2> HIDE DEF r
  <2>3. \A j, k \in 1 .. Len(s) : s[j] = s[k] => j = k
    BY <2>1 DEF IsInjective
  <2>4. IsInjective(r)
    BY <2>1, <2>2, <2>3 DEF IsInjective
  <2>5. Range(r) \subseteq Range(s) \ {n}
    <3> SUFFICES ASSUME NEW k \in 1 .. (Len(s) - 1)
                 PROVE  r[k] \in Range(s) \ {n}
      BY <2>1 DEF Range
    <3>1. PICK j \in 1 .. Len(s) : j # i /\ r[k] = s[j]
      BY <2>1, <2>2
    <3> QED BY <2>1, <2>2, <2>3, <3>1 DEF Range
  <2>6. Range(s) \ {n} \subseteq Range(r)
    <3> SUFFICES ASSUME NEW j \in 1 .. Len(s), j # i PROVE s[j] \in Range(r)
      BY <2>1, <2>2 DEF Range
    <3>1. CASE j < i
      <4>1. j \in 1 .. (Len(s) - 1) /\ r[j] = s[j]
        BY <2>1, <2>2, <3>1
      <4> QED BY <2>1, <4>1 DEF Range
    <3>2. CASE ~ (j < i)
      <4>1. j - 1 \in 1 .. (Len(s) - 1) /\ ~ (j - 1 < i) /\ (j - 1) + 1 = j
        BY <2>1, <2>2, <3>2
      <4>2. r[j - 1] = s[j]
        BY <2>2, <4>1
      <4> QED BY <2>1, <4>1, <4>2 DEF Range
    <3> QED BY <3>1, <3>2
  <2> QED BY <2>4, <2>5, <2>6 DEF r
<1> QED BY <1>1, <1>2

(* A list with an element put first, or last.                              *)
LEMMA AddIndex ==
  ASSUME NEW S, NEW s \in Seq(S), NEW n \in S
  PROVE  /\ Len(s) \in Nat /\ DOMAIN s = 1 .. Len(s)
         /\ DOMAIN Append(s, n) = 1 .. (Len(s) + 1) /\ Append(s, n)[Len(s) + 1] = n
         /\ \A k \in 1 .. Len(s) : Append(s, n)[k] = s[k]
         /\ DOMAIN Cons(n, s) = 1 .. (Len(s) + 1) /\ Cons(n, s)[1] = n
         /\ \A k \in 1 .. Len(s) : Cons(n, s)[k + 1] = s[k]
<1>1. Len(s) \in Nat /\ DOMAIN s = 1 .. Len(s)
  BY LenProperties
<1>2. /\ Append(s, n) \in Seq(S) /\ Len(Append(s, n)) = Len(s) + 1
      /\ DOMAIN Append(s, n) = 1 .. (Len(s) + 1)
      /\ \A k \in 1 .. Len(s) : Append(s, n)[k] = s[k]
      /\ Append(s, n)[Len(s) + 1] = n
  BY AppendProperties, LenProperties
<1> DEFINE c == Cons(n, s)
<1>3. /\ DOMAIN c = 1 .. (Len(s) + 1) /\ c[1] = n
      /\ \A k \in 1 .. Len(s) : c[k + 1] = s[k]
  <2>1. <<n>> \in Seq(S) /\ Len(<<n>>) = 1 /\ <<n>>[1] = n
    OBVIOUS
  <2>2. c = <<n>> \o s
    BY DEF Cons
  <2> HIDE DEF c
  <2>3. /\ Len(c) = 1 + Len(s) /\ c \in Seq(S)
        /\ \A k \in 1 .. (1 + Len(s)) : c[k] = IF k <= 1 THEN <<n>>[k] ELSE s[k - 1]
    BY <1>1, <2>1, <2>2, ConcatProperties
  <2>4. ASSUME NEW k \in 1 .. Len(s) PROVE c[k + 1] = s[k]
    <3>1. k + 1 \in 1 .. (1 + Len(s)) /\ ~ (k + 1 <= 1) /\ (k + 1) - 1 = k
      BY <1>1
    <3> QED BY <2>3, <3>1
  <2>5. c[1] = n
    BY <1>1, <2>1, <2>3
  <2> QED BY <1>1, <2>3, <2>4, <2>5, LenProperties
<1> QED BY <1>1, <1>2, <1>3

(* and gets just the one that is put first, or last.                       *)
LEMMA AddRange ==
  ASSUME NEW S, NEW s \in Seq(S), NEW n \in S
  PROVE  /\ Range(Cons(n, s)) = Range(s) \union {n}
         /\ Range(Append(s, n)) = Range(s) \union {n}
         /\ n \notin Range(s) /\ IsInjective(s) =>
              IsInjective(Cons(n, s)) /\ IsInjective(Append(s, n))
<1> DEFINE c == Cons(n, s)
<1>1. Len(s) \in Nat /\ DOMAIN s = 1 .. Len(s)
  BY LenProperties
<1>2. /\ DOMAIN Append(s, n) = 1 .. (Len(s) + 1)
      /\ \A k \in 1 .. Len(s) : Append(s, n)[k] = s[k]
      /\ Append(s, n)[Len(s) + 1] = n
  BY AddIndex
<1>3. /\ DOMAIN c = 1 .. (Len(s) + 1) /\ c[1] = n
      /\ \A k \in 1 .. Len(s) : c[k + 1] = s[k]
  BY AddIndex
<1> HIDE DEF c
<1>4. Range(Append(s, n)) = Range(s) \union {n}
  <2>1. \A k \in 1 .. (Len(s) + 1) : k \in 1 .. Len(s) \/ k = Len(s) + 1
    BY <1>1
  <2>2. \A k \in 1 .. Len(s) : k \in 1 .. (Len(s) + 1)
    BY <1>1
  <2>3. Len(s) + 1 \in 1 .. (Len(s) + 1)
    BY <1>1
  <2> QED BY <1>1, <1>2, <2>1, <2>2, <2>3 DEF Range
<1>5. \A k \in 1 .. (Len(s) + 1) : k = 1 \/ \E j \in 1 .. Len(s) : k = j + 1
  <2> TAKE k \in 1 .. (Len(s) + 1)
  <2>1. k # 1 => k - 1 \in 1 .. Len(s) /\ k = (k - 1) + 1
    BY <1>1
  <2> QED BY <2>1
<1>6. /\ \A j \in 1 .. Len(s) : j + 1 \in 1 .. (Len(s) + 1)
      /\ 1 \in 1 .. (Len(s) + 1)
  BY <1>1
<1>7. Range(c) = Range(s) \union {n}
  <2>1. ASSUME NEW k \in 1 .. (Len(s) + 1) PROVE c[k] \in Range(s) \union {n}
    BY SMTT(60), <1>1, <1>3, <1>5 DEF Range
  <2>2. \A j \in 1 .. Len(s) : s[j] \in Range(c)
    BY <1>3, <1>6 DEF Range
  <2>3. n \in Range(c)
    BY <1>3, <1>6 DEF Range
  <2> QED BY <1>1, <1>3, <2>1, <2>2, <2>3 DEF Range
<1>8. ASSUME n \notin Range(s), IsInjective(s)
      PROVE  IsInjective(c) /\ IsInjective(Append(s, n))
  <2>1. \A k \in 1 .. Len(s) : s[k] # n
    BY <1>1, <1>8 DEF Range
  <2>2. \A j, k \in 1 .. Len(s) : s[j] = s[k] => j = k
    BY <1>1, <1>8 DEF IsInjective
  <2>3. IsInjective(Append(s, n))
    BY <1>1, <1>2, <2>1, <2>2 DEF IsInjective
  <2>4. ASSUME NEW j \in 1 .. (Len(s) + 1), NEW k \in 1 .. (Len(s) + 1), c[j] = c[k]
        PROVE  j = k
    BY <1>1, <1>3, <1>5, <2>1, <2>2, <2>4
  <2> QED BY <1>3, <2>3, <2>4 DEF IsInjective
<1> QED BY <1>4, <1>7, <1>8 DEF c

(* Element a comes before element b on list s.                             *)
Before(s, a, b) == \E i, j \in DOMAIN s : i < j /\ s[i] = a /\ s[j] = b

(* What is left of a list keeps its order,                                 *)
LEMMA UnlinkOrder ==
  ASSUME NEW S, NEW s \in Seq(S), NEW n, NEW a, NEW b, Before(Unlink(s, n), a, b)
  PROVE  Before(s, a, b)
<1>1. CASE n \notin Range(s)
  BY <1>1 DEF Unlink
<1>2. CASE n \in Range(s)
  <2> DEFINE r == Unlink(s, n)
  <2>1. Len(s) \in Nat /\ DOMAIN s = 1 .. Len(s) /\ DOMAIN r = 1 .. (Len(s) - 1)
    BY <1>2, UnlinkIndex
  <2>2. PICK i \in 1 .. Len(s) :
          \A k \in 1 .. (Len(s) - 1) : r[k] = IF k < i THEN s[k] ELSE s[k + 1]
    BY <1>2, UnlinkIndex
  <2>3. PICK j, k \in DOMAIN r : j < k /\ r[j] = a /\ r[k] = b
    BY DEF Before
  <2> HIDE DEF r
  <2>4. PICK x, y \in 1 .. Len(s) : x < y /\ s[x] = a /\ s[y] = b
    <3> DEFINE x == IF j < i THEN j ELSE j + 1
               y == IF k < i THEN k ELSE k + 1
    <3>1. x \in 1 .. Len(s) /\ y \in 1 .. Len(s) /\ x < y
      BY <2>1, <2>3
    <3>2. s[x] = a /\ s[y] = b
      BY <2>1, <2>2, <2>3
    <3> QED BY <3>1, <3>2
  <2> QED BY <2>1, <2>4 DEF Before
<1> QED BY <1>1, <1>2

(* and so does a list with an element put first, or last.                  *)
LEMMA AddOrder ==
  ASSUME NEW S, NEW s \in Seq(S), NEW n \in S, NEW a, NEW b
  PROVE  /\ Before(Cons(n, s), a, b) => Before(s, a, b) \/ (a = n /\ b \in Range(s))
         /\ Before(Append(s, n), a, b) => Before(s, a, b) \/ (a \in Range(s) /\ b = n)
<1> DEFINE c == Cons(n, s)
           d == Append(s, n)
<1>1. /\ Len(s) \in Nat /\ DOMAIN s = 1 .. Len(s)
      /\ DOMAIN d = 1 .. (Len(s) + 1) /\ d[Len(s) + 1] = n
      /\ \A k \in 1 .. Len(s) : d[k] = s[k]
      /\ DOMAIN c = 1 .. (Len(s) + 1) /\ c[1] = n
      /\ \A k \in 1 .. Len(s) : c[k + 1] = s[k]
  BY AddIndex
<1> HIDE DEF c, d
<1>2. ASSUME Before(c, a, b)
      PROVE  Before(s, a, b) \/ (a = n /\ b \in Range(s))
  <2>1. PICK i, j \in 1 .. (Len(s) + 1) : i < j /\ c[i] = a /\ c[j] = b
    BY <1>1, <1>2 DEF Before
  <2>2. PICK k \in 1 .. Len(s) : j = k + 1
    <3>1. j - 1 \in 1 .. Len(s) /\ j = (j - 1) + 1
      BY <1>1, <2>1
    <3> QED BY <3>1
  <2>3. b = s[k]
    BY <1>1, <2>1, <2>2
  <2>4. CASE i = 1
    BY <1>1, <2>1, <2>3, <2>4 DEF Range
  <2>5. CASE i # 1
    <3>1. PICK x \in 1 .. Len(s) : i = x + 1 /\ x < k
      <4>1. i - 1 \in 1 .. Len(s) /\ i = (i - 1) + 1 /\ i - 1 < k
        BY <1>1, <2>1, <2>2, <2>5
      <4> QED BY <4>1
    <3>2. a = s[x]
      BY <1>1, <2>1, <3>1
    <3> QED BY <1>1, <2>3, <3>1, <3>2 DEF Before
  <2> QED BY <2>4, <2>5
<1>3. ASSUME Before(d, a, b)
      PROVE  Before(s, a, b) \/ (a \in Range(s) /\ b = n)
  <2>1. PICK i, j \in 1 .. (Len(s) + 1) : i < j /\ d[i] = a /\ d[j] = b
    BY <1>1, <1>3 DEF Before
  <2>2. i \in 1 .. Len(s) /\ a = s[i]
    BY <1>1, <2>1
  <2>3. CASE j = Len(s) + 1
    BY <1>1, <2>1, <2>2, <2>3 DEF Range
  <2>4. CASE j # Len(s) + 1
    <3>1. j \in 1 .. Len(s)
      <4>1. Len(s) \in Nat /\ j \in 1 .. (Len(s) + 1)
        BY <1>1, <2>1
      <4> QED BY <2>4, <4>1
    <3>2. b = s[j]
      BY <1>1, <2>1, <3>1
    <3> QED BY <1>1, <2>1, <2>2, <3>1, <3>2 DEF Before
  <2> QED BY <2>3, <2>4
<1> QED BY <1>2, <1>3 DEF c, d

(* The last element comes behind all others.                               *)
LEMMA LastIsBehind ==
  ASSUME NEW S, NEW s \in Seq(S), s # <<>>, NEW a \in Range(s)
  PROVE  /\ Last(s) \in Range(s) /\ (a = Last(s) \/ Before(s, a, Last(s)))
<1>1. Len(s) \in Nat /\ DOMAIN s = 1 .. Len(s) /\ Len(s) # 0
  BY LenProperties, EmptySeq
<1>2. PICK i \in 1 .. Len(s) : a = s[i]
  BY <1>1 DEF Range
<1>3. Len(s) \in 1 .. Len(s) /\ (i = Len(s) \/ i < Len(s))
  <2>1. Len(s) \in Nat /\ Len(s) # 0 /\ i \in 1 .. Len(s)
    BY <1>1, <1>2
  <2> HIDE DEF Range
  <2> QED BY <2>1
<1> QED BY <1>1, <1>2, <1>3 DEF Last, Range, Before

LEMMA BeforeIn ==
  ASSUME NEW s, NEW a, NEW b, Before(s, a, b)
  PROVE  a \in Range(s) /\ b \in Range(s)
  BY DEF Before, Range

(* A stack as a sequence: its last element is replaced, another one is put *)
(* on top of that, or it is taken away.                                    *)
StackFacts(s, f, g) ==
  /\ Len(s) \in Nat /\ Len(s) >= 1 /\ DOMAIN s = 1 .. Len(s)
  /\ Last(s) = s[Len(s)]
  /\ DOMAIN Front(s) = 1 .. (Len(s) - 1)
  /\ \A i \in 1 .. (Len(s) - 1) : Front(s)[i] = s[i]
  /\ DOMAIN Append(Front(s), f) = 1 .. Len(s)
  /\ \A i \in 1 .. (Len(s) - 1) : Append(Front(s), f)[i] = s[i]
  /\ Append(Front(s), f)[Len(s)] = f
  /\ DOMAIN (Front(s) \o <<f, g>>) = 1 .. (Len(s) + 1)
  /\ \A i \in 1 .. (Len(s) - 1) : (Front(s) \o <<f, g>>)[i] = s[i]
  /\ (Front(s) \o <<f, g>>)[Len(s)] = f
  /\ (Front(s) \o <<f, g>>)[Len(s) + 1] = g

LEMMA StackTop ==
  ASSUME NEW S, NEW s \in Seq(S), s # <<>>, NEW f \in S, NEW g \in S
  PROVE  StackFacts(s, f, g)
<1>1. Len(s) \in Nat /\ Len(s) >= 1 /\ DOMAIN s = 1 .. Len(s)
  BY EmptySeq, LenProperties
<1>2. Last(s) = s[Len(s)]
  BY DEF Last
<1>3. /\ Front(s) \in Seq(S) /\ Len(Front(s)) = Len(s) - 1
      /\ \A i \in 1 .. (Len(s) - 1) : Front(s)[i] = s[i]
  <2>1. \A i \in 1 .. (Len(s) - 1) : s[i] \in S
    BY <1>1, ElementOfSeq
  <2>2. /\ Front(s) \in Seq(S)
        /\ Len(Front(s)) = IF 1 <= Len(s) - 1 THEN Len(s) - 1 - 1 + 1 ELSE 0
        /\ \A i \in 1 .. (Len(s) - 1 - 1 + 1) : Front(s)[i] = s[1 + i - 1]
    BY <1>1, <2>1, SubSeqProperties DEF Front
  <2>3. ASSUME NEW i \in 1 .. (Len(s) - 1) PROVE Front(s)[i] = s[i]
    <3>1. i \in 1 .. (Len(s) - 1 - 1 + 1) /\ 1 + i - 1 = i
      BY <1>1
    <3> QED BY <2>2, <3>1
  <2>4. ASSUME NEW L \in Nat, NEW m, L >= 1, m = IF 1 <= L - 1 THEN L - 1 - 1 + 1 ELSE 0
        PROVE  m = L - 1
    BY <2>4
  <2>5. Len(Front(s)) = Len(s) - 1
    BY <1>1, <2>2, <2>4
  <2> QED BY <2>2, <2>3, <2>5
<1> DEFINE u == Front(s)
<1>4. u \in Seq(S) /\ Len(u) = Len(s) - 1 /\ DOMAIN u = 1 .. (Len(s) - 1)
  BY <1>3, LenProperties
<1>5. \A i \in 1 .. (Len(s) - 1) : u[i] = s[i]
  BY <1>3
<1> HIDE DEF u
<1>6. /\ DOMAIN Append(u, f) = 1 .. Len(s)
      /\ \A i \in 1 .. (Len(s) - 1) : Append(u, f)[i] = u[i]
      /\ Append(u, f)[Len(s)] = f
  <2> DEFINE c == Append(u, f)
  <2>1. c \in Seq(S) /\ Len(c) = Len(u) + 1 /\ Len(u) + 1 = Len(s)
    <3>1. c \in Seq(S) /\ Len(c) = Len(u) + 1
      BY <1>4, AppendProperties
    <3>2. Len(u) + 1 = Len(s)
      BY <1>1, <1>4
    <3> QED BY <3>1, <3>2
  <2>2. DOMAIN c = 1 .. Len(s)
    <3> HIDE DEF c
    <3> QED BY <2>1, LenProperties
  <2>3. \A i \in 1 .. Len(u) : c[i] = u[i]
    BY <1>4, AppendProperties
  <2>4. c[Len(u) + 1] = f
    BY <1>4, AppendProperties
  <2> HIDE DEF c
  <2>5. c[Len(s)] = f
    BY <2>1, <2>4
  <2>6. \A i \in 1 .. (Len(s) - 1) : c[i] = u[i]
    BY <1>4, <2>3
  <2> QED BY <2>2, <2>5, <2>6 DEF c
<1> DEFINE w == u \o <<f, g>>
<1>7. /\ w \in Seq(S) /\ Len(w) = Len(u) + 2
      /\ \A i \in 1 .. (Len(u) + 2) : w[i] = IF i <= Len(u) THEN u[i] ELSE <<f, g>>[i - Len(u)]
  <2>1. <<f, g>> \in Seq(S) /\ Len(<<f, g>>) = 2
    OBVIOUS
  <2> QED BY <1>4, <2>1, ConcatProperties
<1> HIDE DEF w
<1>8. DOMAIN w = 1 .. (Len(s) + 1)
  <2>1. Len(w) = Len(s) + 1
    BY <1>1, <1>4, <1>7
  <2> QED BY <1>7, <2>1, LenProperties
<1>9. \A i \in 1 .. (Len(s) - 1) : w[i] = u[i]
  BY <1>1, <1>4, <1>7
<1>10. w[Len(s)] = f
  <2>1. Len(s) \in 1 .. (Len(u) + 2) /\ ~ (Len(s) <= Len(u)) /\ Len(s) - Len(u) = 1
    BY <1>1, <1>4
  <2> QED BY <1>7, <2>1
<1>11. w[Len(s) + 1] = g
  <2>1. /\ Len(s) + 1 \in 1 .. (Len(u) + 2) /\ ~ (Len(s) + 1 <= Len(u))
        /\ (Len(s) + 1) - Len(u) = 2
    BY <1>1, <1>4
  <2>2. w[Len(s) + 1] = <<f, g>>[(Len(s) + 1) - Len(u)]
    BY <1>7, <2>1
  <2> QED BY <2>1, <2>2
<1>12. \A i \in 1 .. (Len(s) - 1) : Append(u, f)[i] = s[i] /\ w[i] = s[i]
  BY <1>5, <1>6, <1>9
<1> QED BY <1>1, <1>2, <1>4, <1>5, <1>6, <1>8, <1>10, <1>11, <1>12 DEF u, w, StackFacts
=============================================================================
