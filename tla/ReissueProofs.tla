--------------------------- MODULE ReissueProofs ---------------------------
(***************************************************************************)
(* A re-issued bio ends only after all of it has been transferred          *)
(* (EndsAfterTransfers), and its pieces go where the table says            *)
(* (GoesHome, SpillsBehind), for any sizes of blocks and stripes, any      *)
(* tables, any bios and any order in which the device works.               *)
(***************************************************************************)
EXTENDS Reissue, FiniteSets, FiniteSetTheorems, SequenceTheorems, TLAPS

BioSet ==
  [ from : Nat, at : Int, size : Nat \ {0}, remaining : Nat, parent : Nat,
    state : {"held", "sent", "moved", "over"} ]

TypeOK ==
  /\ table \in Tables
  /\ user \in Bios
  /\ bios \in Seq(BioSet)
  /\ pc \in {"collect", "area", "stripe", "done"}
  /\ blk \in Nat
  /\ sector \in Nat
  /\ cut \in [bio : Nat, left : Nat, tail : BOOLEAN]
  /\ moved \subseteq Nat \X Int
  /\ ended \in BOOLEAN
  /\ fault \in BOOLEAN

(* The pieces of the user's bio, and their pieces, which are cut no more.  *)
Piece(i) == bios[i].parent = 1

Family ==
  /\ 1 \in DOMAIN bios
  /\ bios[1].parent = 0
  /\ \A i \in DOMAIN bios \ {1} :
       Piece(i) \/ (bios[i].parent \in DOMAIN bios \ {1} /\ Piece(bios[i].parent))

(* The bio being cut has not been sent: the device never sees it change.   *)
Held ==
  /\ pc = "collect" \/ (pc \in {"area", "stripe"} /\ blk <= EndBlk) =>
       bios[1].state = "held"
  /\ pc = "stripe" =>
       /\ cut.bio \in DOMAIN bios
       /\ bios[cut.bio].state = "held"
       /\ cut.bio = 1 \/ Piece(cut.bio)
       /\ cut.bio = 1 => blk > EndBlk
  /\ fault => pc = "done" /\ bios[1].state = "held"

(* remaining counts the bio itself until it has been transferred, and its  *)
(* pieces that are not over.                                               *)
Waits(i) == { c \in DOMAIN bios : bios[c].parent = i /\ bios[c].state # "over" }

Own(i) == IF bios[i].state \in {"held", "sent"} THEN 1 ELSE 0

Counted ==
  \A i \in DOMAIN bios :
    /\ bios[i].remaining = Own(i) + Cardinality(Waits(i))
    /\ bios[i].state = "over" => bios[i].remaining = 0

(* The bios together have all of the user's sectors, and no other.         *)
Sectors(b) == b.from .. (b.from + b.size - 1)

Covering ==
  /\ \A i \in DOMAIN bios : bios[i].from + bios[i].size <= user.size
  /\ \A k \in 0 .. (user.size - 1) : \E i \in DOMAIN bios : k \in Sectors(bios[i])

Done == { m[1] : m \in moved }

Transferred ==
  /\ Done \subseteq 0 .. (user.size - 1)
  /\ \A i \in DOMAIN bios :
       bios[i].state \in {"moved", "over"} => Sectors(bios[i]) \subseteq Done

EndedOver == ended => bios[1].state = "over"

Tree == Family /\ Counted /\ Covering /\ Transferred

EndInv == TypeOK /\ Held /\ Tree /\ EndedOver

-----------------------------------------------------------------------------
(* Products of positive numbers, which the steps below need no more of.    *)
LEMMA Products ==
  ASSUME NEW a \in Nat \ {0}, NEW b \in Nat \ {0}
  PROVE  a * b \in Nat \ {0}
  OBVIOUS

LEMMA Lengths == K \in Nat \ {0} /\ T \in Nat \ {0} /\ T * K \in Nat \ {0}
  BY ReissueAssumption, Products

(* The types of what an area and a bio consist of.                         *)
LEMMA AreaTypes ==
  ASSUME TypeOK, NEW b, NEW n \in At(b)
  PROVE  /\ n.ori \in Nat /\ n.rep \in Nat /\ n.cnt \in Nat \ {0}
         /\ n.ori <= b /\ b < n.ori + n.cnt
         /\ n.cnt * K \in Nat \ {0}
<1>1. n \in Areas /\ n.ori <= b /\ b < n.ori + n.cnt
  BY ReissueAssumption DEF At, TypeOK
<1>2. n.ori \in Nat /\ n.rep \in Nat /\ n.cnt \in Nat \ {0}
  BY <1>1 DEF Areas
<1>3. n.cnt * K \in Nat \ {0}
  BY <1>2, Lengths, Products
<1> QED BY <1>1, <1>2, <1>3

LEMMA UserTypes ==
  ASSUME user \in Bios
  PROVE  /\ user.sector \in Nat /\ user.size \in Nat \ {0}
         /\ StartBlk \in Nat /\ EndBlk \in Int /\ EndBlk >= -1
         /\ user.sector % K \in Nat
<1>1. user.sector \in Nat /\ user.size \in Nat \ {0}
  BY ReissueAssumption
<1>2. StartBlk \in Nat /\ user.sector % K \in Nat
  BY <1>1, Lengths DEF StartBlk
<1>3. (user.sector + user.size) \div K \in Nat
  BY <1>1, Lengths
<1> QED BY <1>1, <1>2, <1>3 DEF EndBlk

LEMMA BioTypes ==
  ASSUME NEW b \in BioSet
  PROVE  /\ b.from \in Nat /\ b.at \in Int /\ b.size \in Nat \ {0}
         /\ b.remaining \in Nat /\ b.parent \in Nat
         /\ b.state \in {"held", "sent", "moved", "over"}
  BY DEF BioSet

LEMMA NewBio ==
  ASSUME NEW f \in Nat, NEW a \in Int, NEW n \in Nat \ {0}, NEW p \in Nat
  PROVE  Bio(f, a, n, p) \in BioSet
  BY DEF Bio, BioSet

(* What sending, aiming and splitting a bio do to the list of bios.        *)
LEMMA SentBios ==
  ASSUME NEW bs \in Seq(BioSet), NEW i \in DOMAIN bs
  PROVE  /\ Sent(bs, i) \in Seq(BioSet)
         /\ DOMAIN Sent(bs, i) = DOMAIN bs /\ Len(Sent(bs, i)) = Len(bs)
         /\ \A j \in DOMAIN bs \ {i} : Sent(bs, i)[j] = bs[j]
         /\ Sent(bs, i)[i] = [bs[i] EXCEPT !.state = "sent"]
<1>1. i \in 1 .. Len(bs) /\ bs[i] \in BioSet
  OBVIOUS
<1>2. [bs[i] EXCEPT !.state = "sent"] \in BioSet
  BY <1>1 DEF BioSet
<1>3. Sent(bs, i) = [bs EXCEPT ![i] = [bs[i] EXCEPT !.state = "sent"]]
  BY DEF Sent
<1> QED BY <1>1, <1>2, <1>3, ExceptSeq

Aimed(bs, i, a) == [bs EXCEPT ![i].at = a]

LEMMA AimedBios ==
  ASSUME NEW bs \in Seq(BioSet), NEW i \in DOMAIN bs, NEW a \in Int
  PROVE  /\ Aimed(bs, i, a) \in Seq(BioSet)
         /\ DOMAIN Aimed(bs, i, a) = DOMAIN bs /\ Len(Aimed(bs, i, a)) = Len(bs)
         /\ \A j \in DOMAIN bs \ {i} : Aimed(bs, i, a)[j] = bs[j]
         /\ Aimed(bs, i, a)[i] = [bs[i] EXCEPT !.at = a]
<1>1. i \in 1 .. Len(bs) /\ bs[i] \in BioSet
  OBVIOUS
<1>2. [bs[i] EXCEPT !.at = a] \in BioSet
  BY <1>1 DEF BioSet
<1>3. Aimed(bs, i, a) = [bs EXCEPT ![i] = [bs[i] EXCEPT !.at = a]]
  BY DEF Aimed
<1> QED BY <1>1, <1>2, <1>3, ExceptSeq

LEMMA SplitBios ==
  ASSUME NEW bs \in Seq(BioSet), NEW i \in DOMAIN bs, NEW n \in Nat \ {0}, n < bs[i].size
  PROVE  /\ Split(bs, i, n) \in Seq(BioSet)
         /\ Len(Split(bs, i, n)) = Len(bs) + 1
         /\ \A j \in DOMAIN bs \ {i} : Split(bs, i, n)[j] = bs[j]
         /\ Split(bs, i, n)[i] = [Rest(bs[i], n) EXCEPT !.remaining = bs[i].remaining + 1]
         /\ Split(bs, i, n)[Len(bs) + 1] = Bio(bs[i].from, bs[i].at, n, i)
<1> DEFINE r == [Rest(bs[i], n) EXCEPT !.remaining = bs[i].remaining + 1]
           cs == [bs EXCEPT ![i] = r]
           p == Bio(bs[i].from, bs[i].at, n, i)
<1>1. i \in 1 .. Len(bs) /\ bs[i] \in BioSet /\ i \in Nat
  OBVIOUS
<1>2. r \in BioSet
  <2> DEFINE b == bs[i]
  <2>1. /\ b \in BioSet /\ b.from + n \in Nat /\ b.at + n \in Int
        /\ b.size - n \in Nat \ {0} /\ b.remaining + 1 \in Nat
    BY <1>1, BioTypes, SMTT(30)
  <2> HIDE DEF b
  <2>2. Rest(b, n) \in BioSet
    BY <2>1 DEF BioSet, Rest
  <2>3. [Rest(b, n) EXCEPT !.remaining = b.remaining + 1] \in BioSet
    BY <2>1, <2>2 DEF BioSet
  <2> QED BY <2>3 DEF b
<1>3. p \in BioSet
  BY <1>1, BioTypes, NewBio
<1>4. Split(bs, i, n) = Append(cs, p)
  BY DEF Split
<1> HIDE DEF r, p
<1>5. cs \in Seq(BioSet) /\ Len(cs) = Len(bs) /\ cs[i] = r /\ \A j \in DOMAIN bs \ {i} : cs[j] = bs[j]
  BY <1>1, <1>2, ExceptSeq
<1> HIDE DEF cs
<1>6. /\ Append(cs, p) \in Seq(BioSet) /\ Len(Append(cs, p)) = Len(cs) + 1
      /\ \A j \in 1 .. Len(cs) : Append(cs, p)[j] = cs[j]
      /\ Append(cs, p)[Len(cs) + 1] = p
  BY <1>3, <1>5, AppendProperties
<1>7. DOMAIN bs = 1 .. Len(cs)
  BY <1>5
<1> QED BY <1>1, <1>4, <1>5, <1>6, <1>7 DEF r, p

-----------------------------------------------------------------------------
(* Two things happen to the bios in the loops: some are aimed or sent, and *)
(* a piece is cut off the front of one.                                    *)
Alike(b, c) ==
  c.from = b.from /\ c.size = b.size /\ c.remaining = b.remaining /\ c.parent = b.parent

Onward(b, c) == Alike(b, c) /\ (c.state = b.state \/ (b.state = "held" /\ c.state = "sent"))

Onwards == DOMAIN bios' = DOMAIN bios /\ \A j \in DOMAIN bios : Onward(bios[j], bios'[j])

CutOff(i, n) ==
  /\ n \in Nat \ {0}
  /\ i \in DOMAIN bios /\ bios[i].state = "held" /\ n < bios[i].size
  /\ Len(bios') = Len(bios) + 1
  /\ \A j \in DOMAIN bios \ {i} : bios'[j] = bios[j]
  /\ /\ bios'[i].from = bios[i].from + n /\ bios'[i].size = bios[i].size - n
     /\ bios'[i].remaining = bios[i].remaining + 1
     /\ bios'[i].parent = bios[i].parent /\ bios'[i].state = "held"
  /\ LET p == bios'[Len(bios) + 1]
     IN  /\ p.from = bios[i].from /\ p.size = n /\ p.remaining = 1
         /\ p.parent = i /\ p.state \in {"held", "sent"}

LEMMA WaitsFinite ==
  ASSUME TypeOK, NEW i
  PROVE  IsFiniteSet(Waits(i)) /\ Cardinality(Waits(i)) \in Nat
<1>1. IsFiniteSet(1 .. Len(bios))
  BY FS_Interval DEF TypeOK
<1>2. DOMAIN bios = 1 .. Len(bios)
  BY DEF TypeOK
<1>3. Waits(i) \subseteq 1 .. Len(bios)
  BY <1>2 DEF Waits
<1> QED BY <1>1, <1>3, FS_Subset, FS_CardinalityType

(* Aiming and sending keep the count and the cover.                        *)
LEMMA OnwardsTree ==
  ASSUME TypeOK, Tree, Onwards, UNCHANGED <<user, moved>>
  PROVE  Tree'
<1>1. Family'
  BY DEF Tree, Family, Piece, Onwards, Onward, Alike
<1>2. Counted'
  <2> SUFFICES ASSUME NEW i \in DOMAIN bios
               PROVE  /\ bios'[i].remaining = Own(i)' + Cardinality(Waits(i)')
                      /\ bios'[i].state = "over" => bios'[i].remaining = 0
    BY DEF Counted, Onwards
  <2>1. Waits(i)' = Waits(i)
    BY DEF Waits, Onwards, Onward, Alike
  <2>2. Own(i)' = Own(i)
    BY DEF Own, Onwards, Onward, Alike
  <2> QED BY <2>1, <2>2 DEF Tree, Counted, Onwards, Onward, Alike
<1>3. \A j \in DOMAIN bios : Sectors(bios'[j]) = Sectors(bios[j])
  BY DEF Onwards, Onward, Alike, Sectors
<1>4. Covering'
  BY <1>3 DEF Tree, Covering, Onwards, Onward, Alike
<1>5. Transferred'
  BY <1>3 DEF Tree, Transferred, Onwards, Onward, Alike, Done
<1> QED BY <1>1, <1>2, <1>4, <1>5 DEF Tree

(* A cut keeps them: the piece counts in the bio it is cut from.           *)
LEMMA CutTree ==
  ASSUME TypeOK, TypeOK', Tree, NEW i, NEW n, CutOff(i, n), i = 1 \/ Piece(i),
         UNCHANGED <<user, moved>>
  PROVE  Tree'
<1>0. PICK l : l = Len(bios) + 1
  OBVIOUS
<1>1. /\ DOMAIN bios = 1 .. Len(bios) /\ DOMAIN bios' = 1 .. l /\ Len(bios) \in Nat
      /\ DOMAIN bios' = DOMAIN bios \union {l} /\ l \notin DOMAIN bios
      /\ i \in DOMAIN bios /\ i # l
  BY <1>0 DEF TypeOK, CutOff
<1>2. \A j \in DOMAIN bios :
        bios'[j].parent = bios[j].parent /\ bios'[j].state = bios[j].state
  BY DEF CutOff
<1>3. bios'[l].parent = i /\ bios'[l].state \in {"held", "sent"} /\ bios'[l].remaining = 1
  BY <1>0 DEF CutOff
<1>4. \A j \in DOMAIN bios : bios[j].parent # l
  BY <1>1 DEF Tree, Family, Piece, CutOff
<1>5. Family'
  <2>1. 1 \in DOMAIN bios' /\ bios'[1].parent = 0
    BY <1>1, <1>2 DEF Tree, Family
  <2>2. ASSUME NEW j \in DOMAIN bios' \ {1}
        PROVE  \/ bios'[j].parent = 1
               \/ bios'[j].parent \in DOMAIN bios' \ {1} /\ bios'[bios'[j].parent].parent = 1
    <3>1. CASE j = l /\ i = 1
      BY <1>3, <3>1
    <3>2. CASE j = l /\ i # 1
      BY <1>1, <1>2, <1>3, <3>2 DEF Piece
    <3>3. CASE j # l
      <4>1. j \in DOMAIN bios \ {1}
        BY <1>1, <2>2, <3>3
      <4>2. \/ bios[j].parent = 1
            \/ bios[j].parent \in DOMAIN bios \ {1} /\ bios[bios[j].parent].parent = 1
        BY <4>1 DEF Tree, Family, Piece
      <4> QED BY <1>1, <1>2, <4>1, <4>2
    <3> QED BY <3>1, <3>2, <3>3
  <2> QED BY <2>1, <2>2 DEF Family, Piece
<1>6. Counted'
  <2> SUFFICES ASSUME NEW j \in DOMAIN bios'
               PROVE  /\ bios'[j].remaining = Own(j)' + Cardinality(Waits(j)')
                      /\ bios'[j].state = "over" => bios'[j].remaining = 0
    BY DEF Counted
  <2>1. CASE j = l
    <3>1. Waits(l)' = {}
      BY <1>1, <1>2, <1>3, <1>4, ZenonT(40) DEF Waits
    <3>2. Own(l)' = 1
      BY <1>3 DEF Own
    <3> QED BY <2>1, <3>1, <3>2, <1>3, FS_EmptySet
  <2>2. CASE j = i
    <3>1. Waits(i)' = Waits(i) \union {l} /\ l \notin Waits(i)
      BY <1>1, <1>2, <1>3 DEF Waits
    <3>2. Cardinality(Waits(i)') = Cardinality(Waits(i)) + 1
      BY <3>1, WaitsFinite, FS_AddElement
    <3>3. Own(i)' = Own(i)
      BY <1>1, <1>2 DEF Own
    <3>4. bios'[i].remaining = bios[i].remaining + 1 /\ bios'[i].state = "held"
      BY DEF CutOff
    <3>5. bios[i].remaining = Own(i) + Cardinality(Waits(i)) /\ Own(i) \in Nat
      BY <1>1 DEF Tree, Counted, Own
    <3> QED BY <2>2, <3>2, <3>3, <3>4, <3>5, WaitsFinite
  <2>3. CASE j # i /\ j # l
    <3>1. Waits(j)' = Waits(j)
      BY <1>1, <1>2, <1>3, <2>3 DEF Waits
    <3>2. j \in DOMAIN bios /\ bios'[j] = bios[j]
      BY <1>1, <2>3 DEF CutOff
    <3> QED BY <3>1, <3>2 DEF Tree, Counted, Own
  <2> QED BY <2>1, <2>2, <2>3
<1>7. /\ bios[i].from \in Nat /\ bios[i].size \in Nat /\ n \in Nat \ {0} /\ n < bios[i].size
      /\ user.size \in Nat
  <2>1. bios[i] \in BioSet /\ user \in Bios
    BY <1>1 DEF TypeOK
  <2> QED BY <2>1, BioTypes, UserTypes DEF CutOff
<1>8. /\ \A j \in DOMAIN bios \ {i} : bios'[j] = bios[j]
      /\ bios'[i].from = bios[i].from + n /\ bios'[i].size = bios[i].size - n
      /\ bios'[l].from = bios[i].from /\ bios'[l].size = n
  BY <1>0 DEF CutOff
<1>9. Covering'
  <2> DEFINE f == bios[i].from
             s == bios[i].size
  <2>1. f + s <= user.size /\ f \in Nat /\ s \in Nat
    BY <1>1, <1>7 DEF Tree, Covering
  <2> HIDE DEF f, s
  <2>2. (f + n) + (s - n) <= user.size /\ f + n <= user.size
    BY <1>7, <2>1 DEF s
  <2>3. \A j \in DOMAIN bios' : bios'[j].from + bios'[j].size <= user.size
    BY <1>1, <1>8, <2>2 DEF Tree, Covering, f, s
  <2>4. ASSUME NEW k \in 0 .. (user.size - 1)
        PROVE  \E j \in DOMAIN bios' : k \in Sectors(bios'[j])
    <3>1. PICK j \in DOMAIN bios : k \in Sectors(bios[j])
      BY DEF Tree, Covering
    <3>2. CASE j # i
      BY <1>1, <1>8, <3>1, <3>2
    <3>3. CASE j = i
      <4>1. f <= k /\ k <= f + s - 1 /\ k \in Int
        BY <3>1, <3>3 DEF Sectors, f, s
      <4>2. CASE k < f + n
        <5>1. k \in f .. (f + n - 1)
          BY <1>7, <2>1, <4>1, <4>2
        <5> QED BY <1>1, <1>8, <5>1 DEF Sectors, f
      <4>3. CASE ~ k < f + n
        <5>1. k \in (f + n) .. ((f + n) + (s - n) - 1)
          BY <1>7, <2>1, <4>1, <4>3
        <5> QED BY <1>1, <1>8, <5>1 DEF Sectors, f, s
      <4> QED BY <4>2, <4>3
    <3> QED BY <3>2, <3>3
  <2> QED BY <2>3, <2>4 DEF Covering
<1>10. Transferred'
  BY <1>1, <1>2, <1>3, <1>8 DEF Tree, Transferred, Done, CutOff
<1> QED BY <1>5, <1>6, <1>9, <1>10 DEF Tree

-----------------------------------------------------------------------------
(* The types that hypraid_make_request computes with.                      *)
LEMMA StripesTypes ==
  ASSUME NEW i \in Nat, NEW a \in Int, NEW n \in Nat
  PROVE  /\ Stripes(i, a, n) \in [bio : Nat, left : Nat, tail : BOOLEAN]
         /\ Stripes(i, a, n).bio = i
<1> DEFINE S == a \div K
           E == LastBlk(a, n)
           rest == (E - S + 1) - (T - (S % T) + (E % T))
           one == S \div T = E \div T
           left == IF one \/ rest < 0 THEN 0 ELSE rest \div T
           tail == one \/ HasTail(E)
<1>1. S \in Int /\ E \in Int
  BY Lengths DEF LastBlk
<1>6. Stripes(i, a, n) = [bio |-> i, left |-> left, tail |-> tail]
  BY DEF Stripes
<1> HIDE DEF S, E
<1>2. S % T \in Int /\ E % T \in Int
  BY <1>1, Lengths
<1>3. rest \in Int
  BY <1>1, <1>2, Lengths
<1> HIDE DEF rest, one
<1>4. left \in Nat
  BY <1>3, Lengths
<1>5. tail \in BOOLEAN
  BY DEF HasTail, one
<1> HIDE DEF left, tail
<1> QED BY <1>4, <1>5, <1>6

LEMMA AimTypes ==
  ASSUME TypeOK, NEW n \in At(blk)
  PROVE  (n.rep + (blk - n.ori)) * K + sector \in Int
<1>1. n.rep + (blk - n.ori) \in Int
  BY AreaTypes DEF TypeOK
<1> DEFINE d == n.rep + (blk - n.ori)
<1> HIDE DEF d
<1>2. d * K \in Int
  BY <1>1, Lengths DEF d
<1> QED BY <1>2 DEF d, TypeOK

LEMMA CollectEnd ==
  ASSUME EndInv, Collect
  PROVE  EndInv'
<1>1. user \in Bios /\ StartBlk \in Nat /\ user.sector % K \in Nat
  BY UserTypes DEF EndInv, TypeOK
<1>2. TypeOK'
  BY <1>1 DEF EndInv, TypeOK, Collect, done
<1>3. Onwards /\ UNCHANGED <<user, moved>>
  BY DEF Collect, Onwards, Onward, Alike, done
<1>4. Tree'
  BY <1>3, OnwardsTree DEF EndInv
<1>5. Held' /\ EndedOver'
  BY DEF EndInv, Held, EndedOver, Collect, EndBlk, done
<1> QED BY <1>2, <1>4, <1>5 DEF EndInv

LEMMA ThroughEnd ==
  ASSUME EndInv, Through
  PROVE  EndInv'
<1>1. bios \in Seq(BioSet) /\ 1 \in DOMAIN bios /\ bios[1].state = "held"
  BY DEF EndInv, TypeOK, Tree, Family, Held, Through
<1>2. bios' = Sent(bios, 1)
  BY DEF Through
<1>3. /\ bios' \in Seq(BioSet) /\ DOMAIN bios' = DOMAIN bios
      /\ \A j \in DOMAIN bios \ {1} : bios'[j] = bios[j]
      /\ bios'[1] = [bios[1] EXCEPT !.state = "sent"]
  BY <1>1, <1>2, SentBios
<1>4. TypeOK'
  BY <1>3 DEF EndInv, TypeOK, Through, loop, done
<1>5. bios[1] \in BioSet
  BY <1>1
<1>6. Onwards
  BY <1>1, <1>3, <1>5, ZenonT(40) DEF Onwards, Onward, Alike, BioSet
<1>7. Tree'
  BY <1>6, OnwardsTree DEF EndInv, Through, done
<1>8. ~ ended /\ ~ fault
  BY <1>1 DEF EndInv, EndedOver, Held, Through
<1>9. Held' /\ EndedOver'
  BY <1>8 DEF EndInv, Held, EndedOver, Through, loop, done
<1> QED BY <1>4, <1>7, <1>9 DEF EndInv

LEMMA ReturnEnd ==
  ASSUME EndInv, Return \/ AreaBug \/ UNCHANGED vars
  PROVE  EndInv'
<1>1. UNCHANGED <<table, user, bios, blk, sector, cut, moved, ended>>
  BY DEF Return, AreaBug, Bug, vars, loop, done
<1>2. pc' \in {"collect", "area", "stripe", "done"} /\ fault' \in BOOLEAN
  BY DEF EndInv, TypeOK, Return, AreaBug, Bug, vars
<1>3. TypeOK'
  BY <1>1, <1>2 DEF EndInv, TypeOK
<1>4. Onwards
  BY <1>1 DEF Onwards, Onward, Alike
<1>5. Tree'
  BY <1>1, <1>4, OnwardsTree DEF EndInv
<1>6. Held' /\ EndedOver'
  BY <1>1 DEF EndInv, Held, EndedOver, Return, AreaBug, Bug, vars, EndBlk, Piece
<1> QED BY <1>3, <1>5, <1>6 DEF EndInv

(* The area's piece, or the rest of the bio, is aimed and cut no further.  *)
LEMMA AreaCut ==
  ASSUME EndInv, Area
  PROVE  \E n \in At(blk) :
           /\ blk' = n.ori + n.cnt
           /\ bios' \in Seq(BioSet)
           /\ IsCut(n) => /\ CutOff(1, n.cnt * K)
                          /\ cut'.bio = Len(bios) + 1
                          /\ bios'[1].at = bios[1].at + n.cnt * K
                          /\ bios'[Len(bios) + 1].at = (n.rep + (blk - n.ori)) * K + sector
                          /\ bios'[Len(bios) + 1].state = "held"
           /\ ~ IsCut(n) => /\ Onwards
                            /\ \A j \in DOMAIN bios \ {1} : bios'[j] = bios[j]
                            /\ cut'.bio = 1
                            /\ bios'[1].at = (n.rep + (blk - n.ori)) * K + sector
                            /\ bios'[1].state = "held"
           /\ cut' \in [bio : Nat, left : Nat, tail : BOOLEAN]
<1>1. /\ bios \in Seq(BioSet) /\ 1 \in DOMAIN bios /\ bios[1].state = "held" /\ bios[1] \in BioSet
      /\ Len(bios) \in Nat /\ Len(bios) >= 1
  BY DEF EndInv, TypeOK, Tree, Family, Held, Area
<1>2. PICK n \in At(blk) :
        /\ IsCut(n) => CanSplit(1, n.cnt * K)
        /\ LET i  == IF IsCut(n) THEN Len(bios) + 1 ELSE 1
               bs == Aim(IF IsCut(n) THEN Split(bios, 1, n.cnt * K) ELSE bios, i, n)
           IN  /\ bios' = bs
               /\ cut' = Stripes(i, bs[i].at, bs[i].size)
        /\ blk' = n.ori + n.cnt
  BY DEF Area
<1> DEFINE a == (n.rep + (blk - n.ori)) * K + sector
           q == n.cnt * K
<1>3. a \in Int /\ q \in Nat \ {0}
  BY AimTypes, AreaTypes DEF EndInv
<1>4. CASE IsCut(n)
  <2> DEFINE l == Len(bios) + 1
             cs == Split(bios, 1, q)
  <2>1. q < bios[1].size
    BY <1>2, <1>4 DEF CanSplit
  <2>2. /\ cs \in Seq(BioSet) /\ Len(cs) = l
        /\ \A j \in DOMAIN bios \ {1} : cs[j] = bios[j]
        /\ cs[1] = [Rest(bios[1], q) EXCEPT !.remaining = bios[1].remaining + 1]
        /\ cs[l] = Bio(bios[1].from, bios[1].at, q, 1)
    <3> HIDE DEF q
    <3> QED BY <1>1, <1>3, <2>1, SplitBios
  <2>3. bios' = Aimed(cs, l, a) /\ cut' = Stripes(l, bios'[l].at, bios'[l].size)
    BY <1>2, <1>4 DEF Aim, Aimed
  <2> HIDE DEF cs, a, q
  <2>4. l \in DOMAIN cs /\ l \in Nat /\ DOMAIN bios = 1 .. Len(bios) /\ DOMAIN bios \subseteq DOMAIN cs
    BY <1>1, <2>2
  <2>5. /\ Aimed(cs, l, a) \in Seq(BioSet) /\ Len(Aimed(cs, l, a)) = Len(cs)
        /\ \A j \in DOMAIN cs \ {l} : Aimed(cs, l, a)[j] = cs[j]
        /\ Aimed(cs, l, a)[l] = [cs[l] EXCEPT !.at = a]
    BY <1>3, <2>2, <2>4, AimedBios
  <2>6. /\ bios' \in Seq(BioSet) /\ Len(bios') = l
        /\ \A j \in DOMAIN bios : bios'[j] = cs[j]
        /\ bios'[l] = [cs[l] EXCEPT !.at = a]
    BY <1>1, <2>2, <2>3, <2>4, <2>5
  <2>7. /\ bios'[l].at = a /\ bios'[l].from = bios[1].from /\ bios'[l].size = q
        /\ bios'[l].remaining = 1 /\ bios'[l].parent = 1 /\ bios'[l].state = "held"
    BY <2>2, <2>6 DEF Bio
  <2>8. /\ bios'[1].from = bios[1].from + q /\ bios'[1].size = bios[1].size - q
        /\ bios'[1].at = bios[1].at + q
        /\ bios'[1].remaining = bios[1].remaining + 1
        /\ bios'[1].parent = bios[1].parent /\ bios'[1].state = "held"
    <3>1. bios'[1] = [Rest(bios[1], q) EXCEPT !.remaining = bios[1].remaining + 1]
      BY <1>1, <2>2, <2>6
    <3> QED BY <1>1, <3>1 DEF Rest, BioSet
  <2>9. \A j \in DOMAIN bios \ {1} : bios'[j] = bios[j]
    BY <2>2, <2>6
  <2>10. CutOff(1, q)
    BY <1>1, <1>3, <2>1, <2>6, <2>7, <2>8, <2>9 DEF CutOff
  <2>11. cut' \in [bio : Nat, left : Nat, tail : BOOLEAN] /\ cut'.bio = l
    <3>1. bios'[l].at \in Int /\ bios'[l].size \in Nat /\ l \in Nat
      BY <1>3, <2>4, <2>7
    <3> QED BY <2>3, <3>1, StripesTypes, ZenonT(40)
  <2> QED BY <1>2, <1>4, <2>6, <2>7, <2>8, <2>10, <2>11 DEF a, q
<1>5. CASE ~ IsCut(n)
  <2>1. bios' = Aimed(bios, 1, a) /\ cut' = Stripes(1, bios'[1].at, bios'[1].size)
    BY <1>2, <1>5 DEF Aim, Aimed
  <2> HIDE DEF a, q
  <2>2. /\ Aimed(bios, 1, a) \in Seq(BioSet) /\ DOMAIN Aimed(bios, 1, a) = DOMAIN bios
        /\ \A j \in DOMAIN bios \ {1} : Aimed(bios, 1, a)[j] = bios[j]
        /\ Aimed(bios, 1, a)[1] = [bios[1] EXCEPT !.at = a]
    BY <1>1, <1>3, AimedBios
  <2>3. Onward(bios[1], bios'[1]) /\ bios'[1].at = a /\ bios'[1].size = bios[1].size /\ bios'[1].state = "held"
    BY <1>1, <2>1, <2>2 DEF Onward, Alike, BioSet
  <2>4. Onwards
    BY <2>1, <2>2, <2>3 DEF Onwards, Onward, Alike
  <2>5. cut' \in [bio : Nat, left : Nat, tail : BOOLEAN] /\ cut'.bio = 1
    <3>1. bios'[1].at \in Int /\ bios'[1].size \in Nat /\ 1 \in Nat
      BY <1>1, <1>3, <2>3, BioTypes
    <3> QED BY <2>1, <3>1, StripesTypes, ZenonT(40)
  <2> QED BY <1>2, <1>5, <2>1, <2>2, <2>3, <2>4, <2>5 DEF a
<1> QED BY <1>4, <1>5

LEMMA AreaEnd ==
  ASSUME EndInv, Area
  PROVE  EndInv'
<1>1. PICK n \in At(blk) :
        /\ blk' = n.ori + n.cnt
        /\ bios' \in Seq(BioSet)
        /\ IsCut(n) => /\ CutOff(1, n.cnt * K)
                       /\ cut'.bio = Len(bios) + 1
                       /\ bios'[Len(bios) + 1].state = "held"
        /\ ~ IsCut(n) => /\ Onwards
                         /\ cut'.bio = 1
                         /\ bios'[1].state = "held"
        /\ cut' \in [bio : Nat, left : Nat, tail : BOOLEAN]
  BY AreaCut
<1>2. n.ori \in Nat /\ n.cnt \in Nat \ {0}
  BY AreaTypes DEF EndInv
<1>3. TypeOK'
  <2>1. /\ pc' = "stripe" /\ sector' = 0
        /\ UNCHANGED <<table, user, moved, ended, fault>>
    BY DEF Area, done
  <2>2. blk' \in Nat
    BY <1>1, <1>2
  <2> QED BY <1>1, <2>1, <2>2 DEF EndInv, TypeOK
<1>4. pc = "area" /\ pc' = "stripe" /\ blk <= EndBlk /\ UNCHANGED <<user, moved, ended, fault>>
  BY DEF Area, done
<1>5. EndBlk' = EndBlk /\ EndBlk \in Int
  BY <1>4, UserTypes DEF EndBlk, EndInv, TypeOK
<1>6. ~ ended /\ ~ fault
  BY <1>4 DEF EndInv, Held, EndedOver
<1>7. CASE IsCut(n)
  <2>1. Tree'
    BY <1>1, <1>3, <1>4, <1>7, CutTree DEF EndInv
  <2>2. Len(bios) + 1 \in DOMAIN bios' /\ Len(bios) + 1 # 1
    BY <1>1, <1>7 DEF CutOff, EndInv, TypeOK
  <2>3. bios'[1].state = "held" /\ bios'[Len(bios) + 1].parent = 1
    BY <1>1, <1>7 DEF CutOff
  <2>4. Held'
    BY <1>1, <1>4, <1>6, <1>7, <2>2, <2>3 DEF Held, Piece
  <2> QED BY <1>3, <1>4, <1>6, <2>1, <2>4 DEF EndInv, EndedOver
<1>8. CASE ~ IsCut(n)
  <2>1. Tree'
    BY <1>1, <1>4, <1>8, OnwardsTree DEF EndInv
  <2>2. blk' > EndBlk'
    BY <1>1, <1>2, <1>5, <1>8 DEF IsCut
  <2>3. ~ (blk' <= EndBlk')
    BY <1>3, <1>5, <2>2 DEF TypeOK
  <2>4. 1 \in DOMAIN bios'
    BY <2>1 DEF Tree, Family
  <2>5. Held'
    BY <1>1, <1>4, <1>6, <1>8, <2>2, <2>3, <2>4 DEF Held
  <2> QED BY <1>3, <1>4, <1>6, <2>1, <2>5 DEF EndInv, EndedOver
<1> QED BY <1>7, <1>8

(* A stripe's piece is cut off the bio of the area and sent.               *)
LEMMA StripeCut ==
  ASSUME EndInv, Stripe
  PROVE  /\ bios' \in Seq(BioSet)
         /\ CutOff(cut.bio, T * K)
         /\ bios'[cut.bio].at = bios[cut.bio].at + T * K
         /\ bios'[Len(bios) + 1].at = bios[cut.bio].at
<1> DEFINE i == cut.bio
           q == T * K
           l == Len(bios) + 1
           cs == Split(bios, i, q)
<1>1. /\ bios \in Seq(BioSet) /\ i \in DOMAIN bios /\ bios[i].state = "held" /\ bios[i] \in BioSet
      /\ Len(bios) \in Nat /\ q \in Nat \ {0} /\ q < bios[i].size
  BY Lengths DEF EndInv, TypeOK, Held, Stripe, CanSplit
<1>2. bios' = Sent(cs, l)
  BY DEF Stripe
<1> HIDE DEF i, q
<1>3. /\ cs \in Seq(BioSet) /\ Len(cs) = l
      /\ \A j \in DOMAIN bios \ {i} : cs[j] = bios[j]
      /\ cs[i] = [Rest(bios[i], q) EXCEPT !.remaining = bios[i].remaining + 1]
      /\ cs[l] = Bio(bios[i].from, bios[i].at, q, i)
  BY <1>1, SplitBios
<1> HIDE DEF cs
<1>4. l \in DOMAIN cs /\ DOMAIN bios \subseteq DOMAIN cs /\ l \notin DOMAIN bios
  BY <1>1, <1>3
<1>5. /\ Sent(cs, l) \in Seq(BioSet) /\ Len(Sent(cs, l)) = Len(cs)
      /\ \A j \in DOMAIN cs \ {l} : Sent(cs, l)[j] = cs[j]
      /\ Sent(cs, l)[l] = [cs[l] EXCEPT !.state = "sent"]
  BY <1>3, <1>4, SentBios
<1>6. /\ bios'[l].at = bios[i].at /\ bios'[l].from = bios[i].from /\ bios'[l].size = q
      /\ bios'[l].remaining = 1 /\ bios'[l].parent = i /\ bios'[l].state = "sent"
  BY <1>2, <1>3, <1>5 DEF Bio
<1>7. /\ bios'[i].from = bios[i].from + q /\ bios'[i].size = bios[i].size - q
      /\ bios'[i].at = bios[i].at + q
      /\ bios'[i].remaining = bios[i].remaining + 1
      /\ bios'[i].parent = bios[i].parent /\ bios'[i].state = "held"
  <2>1. bios'[i] = [Rest(bios[i], q) EXCEPT !.remaining = bios[i].remaining + 1]
    BY <1>1, <1>2, <1>3, <1>4, <1>5
  <2> QED BY <1>1, <2>1 DEF Rest, BioSet
<1>8. \A j \in DOMAIN bios \ {i} : bios'[j] = bios[j]
  BY <1>2, <1>3, <1>4, <1>5
<1>9. CutOff(i, q)
  BY <1>1, <1>2, <1>3, <1>5, <1>6, <1>7, <1>8 DEF CutOff
<1> QED BY <1>2, <1>5, <1>6, <1>7, <1>9 DEF i, q

LEMMA StripeEnd ==
  ASSUME EndInv, Stripe
  PROVE  EndInv'
<1> DEFINE q == T * K
<1>1. bios' \in Seq(BioSet) /\ CutOff(cut.bio, q)
  BY StripeCut
<1>2. /\ pc = "stripe" /\ UNCHANGED <<table, user, pc, blk, sector, moved, ended, fault>>
      /\ cut' = [cut EXCEPT !.left = @ - 1] /\ cut.left > 0
  BY DEF Stripe, done
<1> HIDE DEF q
<1>3. cut' \in [bio : Nat, left : Nat, tail : BOOLEAN] /\ cut'.bio = cut.bio
  BY <1>2 DEF EndInv, TypeOK
<1>4. TypeOK'
  BY <1>1, <1>2, <1>3 DEF EndInv, TypeOK
<1>5. cut.bio = 1 \/ Piece(cut.bio)
  BY <1>2 DEF EndInv, Held
<1>6. Tree'
  BY <1>1, <1>2, <1>4, <1>5, CutTree DEF EndInv
<1>7. /\ \A j \in DOMAIN bios : bios'[j].state = bios[j].state /\ bios'[j].parent = bios[j].parent
      /\ DOMAIN bios \subseteq DOMAIN bios'
  <2>1. \A j \in DOMAIN bios : bios'[j].state = bios[j].state /\ bios'[j].parent = bios[j].parent
    BY <1>1 DEF CutOff
  <2>2. DOMAIN bios = 1 .. Len(bios) /\ DOMAIN bios' = 1 .. Len(bios')
    BY <1>1 DEF EndInv, TypeOK
  <2>3. Len(bios') = Len(bios) + 1 /\ Len(bios) \in Nat
    BY <1>1 DEF CutOff, EndInv, TypeOK
  <2> QED BY <2>1, <2>2, <2>3
<1>8. Held' /\ EndedOver'
  BY <1>2, <1>3, <1>7 DEF EndInv, Held, EndedOver, Tree, Family, Piece, EndBlk
<1> QED BY <1>4, <1>6, <1>8 DEF EndInv

LEMMA LastPartEnd ==
  ASSUME EndInv, LastPart
  PROVE  EndInv'
<1> DEFINE i == cut.bio
<1>1. /\ pc = "stripe" /\ pc' = "area" /\ UNCHANGED <<table, user, blk, sector, moved, ended, fault>>
      /\ bios' = IF cut.tail THEN Sent(bios, i) ELSE bios
      /\ cut' = NoCut
  BY DEF LastPart, done
<1>2. bios \in Seq(BioSet) /\ i \in DOMAIN bios /\ bios[i].state = "held" /\ bios[i] \in BioSet
  BY <1>1 DEF EndInv, TypeOK, Held
<1> HIDE DEF i
<1>3. /\ bios' \in Seq(BioSet) /\ DOMAIN bios' = DOMAIN bios
      /\ \A j \in DOMAIN bios \ {i} : bios'[j] = bios[j]
      /\ bios'[i] \in {bios[i], [bios[i] EXCEPT !.state = "sent"]}
  <2>1. CASE cut.tail
    <3>1. bios' = Sent(bios, i)
      BY <1>1, <2>1
    <3> QED BY <1>2, <3>1, SentBios, ZenonT(40)
  <2>2. CASE ~ cut.tail
    BY <1>1, <1>2, <2>2
  <2> QED BY <2>1, <2>2
<1>4. TypeOK'
  BY <1>1, <1>3 DEF EndInv, TypeOK, NoCut
<1>5. Onward(bios[i], bios'[i])
  BY <1>2, <1>3 DEF Onward, Alike, BioSet
<1>6. Onwards
  BY <1>3, <1>5 DEF Onwards, Onward, Alike
<1>7. Tree'
  BY <1>1, <1>6, OnwardsTree DEF EndInv
<1>8. blk <= EndBlk => i # 1 /\ bios[1].state = "held"
  BY <1>1, UserTypes DEF EndInv, TypeOK, Held, i
<1>9. ~ fault /\ EndBlk' = EndBlk
  BY <1>1 DEF EndInv, Held, EndBlk
<1>10. Held'
  BY <1>1, <1>3, <1>8, <1>9 DEF EndInv, Tree, Family, Held
<1>11. EndedOver'
  <2>1. ended => i # 1
    BY <1>2 DEF EndInv, EndedOver
  <2> QED BY <1>1, <1>3, <2>1 DEF EndInv, EndedOver, Tree, Family
<1> QED BY <1>4, <1>7, <1>10, <1>11 DEF EndInv

-----------------------------------------------------------------------------
(* The device's steps.                                                     *)
LEMMA TransferEffect ==
  ASSUME EndInv, NEW i \in DOMAIN bios, Transfer(i)
  PROVE  /\ bios' \in Seq(BioSet) /\ DOMAIN bios' = DOMAIN bios
         /\ \A j \in DOMAIN bios \ {i} : bios'[j] = bios[j]
         /\ /\ bios'[i].from = bios[i].from /\ bios'[i].size = bios[i].size
            /\ bios'[i].at = bios[i].at
            /\ bios'[i].remaining = bios[i].remaining - 1 /\ bios'[i].parent = bios[i].parent
            /\ bios[i].state = "sent" /\ bios'[i].state = "moved"
         /\ moved' = moved \union
              { <<bios[i].from + k, bios[i].at + k>> : k \in 0 .. (bios[i].size - 1) }
         /\ UNCHANGED <<table, user, pc, blk, sector, cut, ended, fault>>
<1> DEFINE b == bios[i]
           r == [[b EXCEPT !.state = "moved"] EXCEPT !.remaining = b.remaining - 1]
<1>1. /\ bios \in Seq(BioSet) /\ b \in BioSet /\ b.state = "sent" /\ i \in 1 .. Len(bios)
      /\ b.remaining = 1 + Cardinality(Waits(i))
  BY DEF EndInv, TypeOK, Tree, Counted, Own, Transfer
<1>2. bios' = [bios EXCEPT ![i] = r]
  BY <1>1 DEF Transfer
<1>3. b.remaining - 1 \in Nat
  BY <1>1, WaitsFinite DEF EndInv
<1> HIDE DEF b
<1>4. /\ r \in BioSet
      /\ r.from = b.from /\ r.size = b.size /\ r.at = b.at /\ r.remaining = b.remaining - 1
      /\ r.parent = b.parent /\ r.state = "moved"
  BY <1>1, <1>3 DEF BioSet
<1> HIDE DEF r
<1>5. /\ bios' \in Seq(BioSet) /\ DOMAIN bios' = DOMAIN bios /\ bios'[i] = r
      /\ \A j \in DOMAIN bios \ {i} : bios'[j] = bios[j]
  BY <1>1, <1>2, <1>4, ExceptSeq
<1>6. /\ moved' = moved \union
              { <<bios[i].from + k, bios[i].at + k>> : k \in 0 .. (bios[i].size - 1) }
      /\ UNCHANGED <<table, user, pc, blk, sector, cut, ended, fault>>
  BY DEF Transfer, loop
<1> QED BY <1>1, <1>4, <1>5, <1>6 DEF b

LEMMA TransferEnd ==
  ASSUME EndInv, NEW i \in DOMAIN bios, Transfer(i)
  PROVE  EndInv'
<1> USE TransferEffect
<1>1. bios[i] \in BioSet /\ bios'[i] \in BioSet
  BY DEF EndInv, TypeOK
<1> DEFINE f == bios[i].from
           s == bios[i].size
           a == bios[i].at
           new == { <<f + k, a + k>> : k \in 0 .. (s - 1) }
<1>2. f \in Nat /\ s \in Nat \ {0} /\ a \in Int
  BY <1>1, BioTypes
<1>3. moved' = moved \union new
  OBVIOUS
<1> HIDE DEF f, s, a
<1>4. new \subseteq Nat \X Int
  BY <1>2
<1>5. TypeOK'
  BY <1>3, <1>4 DEF EndInv, TypeOK
<1>6. \A j \in DOMAIN bios : bios'[j].parent = bios[j].parent
  OBVIOUS
<1>7. Family' /\ Held' /\ EndedOver'
  <2>1. Family'
    BY <1>6 DEF EndInv, Tree, Family, Piece
  <2>2. EndBlk' = EndBlk
    BY DEF EndBlk
  <2>3. \A j \in DOMAIN bios : bios[j].state = "held" => bios'[j].state = "held"
    OBVIOUS
  <2>4. Held'
    BY <1>6, <2>2, <2>3 DEF EndInv, Tree, Family, Held, Piece
  <2>5. EndedOver'
    BY DEF EndInv, Tree, Family, EndedOver
  <2> QED BY <2>1, <2>4, <2>5
<1>8. Counted'
  <2>1. \A j : Waits(j)' = Waits(j)
    BY DEF Waits
  <2>2. \A j \in DOMAIN bios \ {i} : Own(j)' = Own(j)
    BY DEF Own
  <2>3. Own(i) = 1 /\ Own(i)' = 0
    BY DEF Own
  <2>4. bios[i].remaining = Own(i) + Cardinality(Waits(i))
    BY DEF EndInv, Tree, Counted
  <2>5. bios'[i].remaining = Own(i)' + Cardinality(Waits(i)')
    <3>1. Cardinality(Waits(i)) \in Nat
      BY WaitsFinite DEF EndInv
    <3> QED BY <2>1, <2>3, <2>4, <3>1
  <2>6. ASSUME NEW j \in DOMAIN bios'
        PROVE  /\ bios'[j].remaining = Own(j)' + Cardinality(Waits(j)')
               /\ bios'[j].state = "over" => bios'[j].remaining = 0
    <3>1. CASE j = i
      BY <2>5, <3>1
    <3>2. CASE j # i
      BY <2>1, <2>2, <3>2 DEF EndInv, Tree, Counted
    <3> QED BY <3>1, <3>2
  <2> QED BY <2>6 DEF Counted
<1>9. Covering'
  BY SMTT(30) DEF EndInv, Tree, Covering, Sectors
<1>10. Sectors(bios[i]) = f .. (f + s - 1)
  BY DEF Sectors, f, s
<1>11. { m[1] : m \in new } = f .. (f + s - 1)
  <2>1. ASSUME NEW k \in f .. (f + s - 1) PROVE k \in { m[1] : m \in new }
    <3>1. k - f \in 0 .. (s - 1) /\ f + (k - f) = k
      BY <1>2
    <3>2. <<f + (k - f), a + (k - f)>> \in new
      BY <3>1
    <3>3. <<f + (k - f), a + (k - f)>>[1] = k
      BY <3>1
    <3> HIDE DEF new
    <3> QED BY <3>2, <3>3
  <2>2. ASSUME NEW m \in new PROVE m[1] \in f .. (f + s - 1)
    BY <1>2
  <2> QED BY <2>1, <2>2
<1> HIDE DEF new
<1>12. Done' = Done \union (f .. (f + s - 1))
  BY <1>3, <1>11 DEF Done
<1>13. f .. (f + s - 1) \subseteq 0 .. (user.size - 1)
  <2>1. f + s <= user.size
    BY DEF EndInv, Tree, Covering, f, s
  <2> QED BY <1>2, <2>1, UserTypes DEF EndInv, TypeOK
<1>14. Transferred'
  <2>1. Done' \subseteq 0 .. (user'.size - 1)
    BY <1>12, <1>13 DEF EndInv, Tree, Transferred
  <2>2. ASSUME NEW j \in DOMAIN bios', bios'[j].state \in {"moved", "over"}
        PROVE  Sectors(bios'[j]) \subseteq Done'
    <3>1. CASE j = i
      BY <1>10, <1>12, <3>1 DEF Sectors
    <3>2. CASE j # i
      BY <1>12, <2>2, <3>2 DEF EndInv, Tree, Transferred
    <3> QED BY <3>1, <3>2
  <2> QED BY <2>1, <2>2 DEF Transferred
<1> QED BY <1>5, <1>7, <1>8, <1>9, <1>14 DEF EndInv, Tree

LEMMA EndEffect ==
  ASSUME EndInv, NEW i \in DOMAIN bios, End(i)
  PROVE  /\ bios' \in Seq(BioSet) /\ DOMAIN bios' = DOMAIN bios
         /\ Waits(i) = {} /\ Own(i) = 0 /\ bios[i].state = "moved"
         /\ \A j \in DOMAIN bios :
              /\ bios'[j].from = bios[j].from /\ bios'[j].size = bios[j].size
              /\ bios'[j].at = bios[j].at /\ bios'[j].parent = bios[j].parent
              /\ bios'[j].state = IF j = i THEN "over" ELSE bios[j].state
              /\ bios'[j].remaining = bios[j].remaining - (IF j = bios[i].parent THEN 1 ELSE 0)
         /\ bios[i].parent \in DOMAIN bios \union {0}
         /\ bios[i].parent = 0 <=> i = 1
         /\ ended' = (ended \/ i = 1)
         /\ UNCHANGED <<table, user, pc, blk, sector, cut, moved, fault>>
<1> DEFINE b == bios[i]
           p == b.parent
           bs == [bios EXCEPT ![i].state = "over"]
           r == [b EXCEPT !.state = "over"]
<1>1. /\ bios \in Seq(BioSet) /\ b \in BioSet /\ i \in 1 .. Len(bios)
      /\ DOMAIN bios = 1 .. Len(bios)
      /\ b.remaining = 0 /\ b.state # "over"
      /\ b.remaining = Own(i) + Cardinality(Waits(i))
  BY DEF EndInv, TypeOK, Tree, Counted, End
<1>2. Own(i) = 0 /\ Cardinality(Waits(i)) = 0
  <2>1. Own(i) \in Nat
    BY DEF Own
  <2> HIDE DEF b
  <2> QED BY <1>1, <2>1, WaitsFinite DEF EndInv
<1>3. Waits(i) = {}
  BY <1>2, WaitsFinite, FS_EmptySet DEF EndInv
<1>4. b.state = "moved"
  BY <1>1, <1>2 DEF Own, BioSet
<1>5. /\ p \in DOMAIN bios \union {0}
      /\ p = 0 <=> i = 1
      /\ p # i
  <2>1. 0 \notin DOMAIN bios
    BY <1>1
  <2> QED BY <2>1 DEF EndInv, Tree, Family, Piece
<1>6. bs = [bios EXCEPT ![i] = r]
  OBVIOUS
<1> HIDE DEF b
<1>7. /\ r \in BioSet /\ r.from = b.from /\ r.size = b.size /\ r.at = b.at
      /\ r.remaining = b.remaining /\ r.parent = b.parent /\ r.state = "over"
  BY <1>1 DEF BioSet
<1>8. /\ IF p = 0 THEN bios' = bs /\ ended' = TRUE
         ELSE bios' = [bs EXCEPT ![p].remaining = @ - 1] /\ ended' = ended
      /\ UNCHANGED <<table, user, pc, blk, sector, cut, moved, fault>>
  BY DEF End, loop, b
<1> HIDE DEF r, bs
<1>9. /\ bs \in Seq(BioSet) /\ DOMAIN bs = DOMAIN bios /\ bs[i] = r
      /\ \A j \in DOMAIN bios \ {i} : bs[j] = bios[j]
  BY <1>1, <1>6, <1>7, ExceptSeq
<1>10. ended' = (ended \/ i = 1)
  BY <1>5, <1>8 DEF EndInv, TypeOK
<1>11. CASE p = 0
  <2>1. bios' = bs
    BY <1>8, <1>11
  <2>2. \A j \in DOMAIN bios : j # p /\ bios[j].remaining \in Nat
    <3>1. \A j \in DOMAIN bios : j # 0 /\ bios[j] \in BioSet
      BY <1>1
    <3> QED BY <1>11, <3>1, BioTypes
  <2>3. \A j \in DOMAIN bios :
          /\ bios'[j].from = bios[j].from /\ bios'[j].size = bios[j].size
          /\ bios'[j].at = bios[j].at /\ bios'[j].parent = bios[j].parent
          /\ bios'[j].state = IF j = i THEN "over" ELSE bios[j].state
          /\ bios'[j].remaining = bios[j].remaining
    BY <1>7, <1>9, <2>1 DEF b
  <2>4. \A j \in DOMAIN bios : bios'[j].remaining = bios[j].remaining - (IF j = p THEN 1 ELSE 0)
    BY <2>2, <2>3
  <2> QED BY <1>3, <1>2, <1>4, <1>5, <1>8, <1>9, <1>10, <2>1, <2>3, <2>4 DEF b
<1>12. CASE p # 0
  <2> DEFINE t == [bs[p] EXCEPT !.remaining = bs[p].remaining - 1]
  <2>1. p \in DOMAIN bios /\ p \in 1 .. Len(bs) /\ bs[p] = bios[p] /\ bios[p] \in BioSet
    BY <1>1, <1>5, <1>9, <1>12
  <2>2. i \in Waits(p)
    BY <1>4 DEF Waits, b
  <2>3. bios[p].remaining = Own(p) + Cardinality(Waits(p)) /\ Own(p) \in Nat
    BY <2>1 DEF EndInv, Tree, Counted, Own
  <2>4. Cardinality(Waits(p)) # 0 /\ Cardinality(Waits(p)) \in Nat
    BY <2>2, WaitsFinite, FS_EmptySet DEF EndInv
  <2>5. bios[p].remaining - 1 \in Nat
    BY <2>3, <2>4
  <2>6. bios' = [bs EXCEPT ![p] = t]
    BY <1>8, <1>12
  <2>7. /\ t \in BioSet /\ t.from = bios[p].from /\ t.size = bios[p].size /\ t.at = bios[p].at
        /\ t.remaining = bios[p].remaining - 1 /\ t.parent = bios[p].parent
        /\ t.state = bios[p].state
    <3> DEFINE c == bios[p]
    <3>1. c \in BioSet /\ c.remaining - 1 \in Nat /\ t = [c EXCEPT !.remaining = c.remaining - 1]
      BY <2>1, <2>5
    <3> HIDE DEF c, t
    <3>2. t \in BioSet /\ t.from = c.from /\ t.size = c.size /\ t.at = c.at
          /\ t.remaining = c.remaining - 1 /\ t.parent = c.parent /\ t.state = c.state
      BY <3>1 DEF BioSet
    <3> QED BY <3>2 DEF c
  <2> HIDE DEF t, p
  <2>8. /\ bios' \in Seq(BioSet) /\ DOMAIN bios' = DOMAIN bios /\ bios'[p] = t
        /\ \A j \in DOMAIN bios \ {p} : bios'[j] = bs[j]
    BY <1>9, <2>1, <2>6, <2>7, ExceptSeq
  <2>9. \A j \in DOMAIN bios : bios[j].remaining \in Nat
    BY <1>1, BioTypes
  <2>10. \A j \in DOMAIN bios :
          /\ bios'[j].from = bios[j].from /\ bios'[j].size = bios[j].size
          /\ bios'[j].at = bios[j].at /\ bios'[j].parent = bios[j].parent
          /\ bios'[j].state = IF j = i THEN "over" ELSE bios[j].state
          /\ j # p => bios'[j].remaining = bios[j].remaining
          /\ j = p => bios'[j].remaining = bios[j].remaining - 1
    <3> SUFFICES ASSUME NEW j \in DOMAIN bios
                 PROVE  /\ bios'[j].from = bios[j].from /\ bios'[j].size = bios[j].size
                        /\ bios'[j].at = bios[j].at /\ bios'[j].parent = bios[j].parent
                        /\ bios'[j].state = IF j = i THEN "over" ELSE bios[j].state
                        /\ j # p => bios'[j].remaining = bios[j].remaining
                        /\ j = p => bios'[j].remaining = bios[j].remaining - 1
      OBVIOUS
    <3>1. CASE j = p
      BY <1>5, <2>7, <2>8, <3>1
    <3>2. CASE j = i
      BY <1>5, <1>7, <1>9, <2>8, <3>2 DEF b
    <3>3. CASE j # p /\ j # i
      BY <1>9, <2>8, <3>3
    <3> QED BY <3>1, <3>2, <3>3
  <2>11. \A j \in DOMAIN bios : bios'[j].remaining = bios[j].remaining - (IF j = p THEN 1 ELSE 0)
    BY <2>9, <2>10
  <2> QED BY <1>3, <1>2, <1>4, <1>5, <1>8, <1>10, <2>8, <2>10, <2>11 DEF b, p
<1> QED BY <1>11, <1>12

LEMMA OneLess ==
  ASSUME NEW S, IsFiniteSet(S), NEW x \in S
  PROVE  /\ Cardinality(S) \in Nat \ {0}
         /\ Cardinality(S \ {x}) = Cardinality(S) - 1
<1>1. Cardinality(S) \in Nat /\ Cardinality(S) # 0
  BY FS_CardinalityType, FS_EmptySet
<1>2. Cardinality(S \ {x}) = Cardinality(S) - 1
  BY FS_RemoveElement
<1> QED BY <1>1, <1>2

(* A piece that is over counts no more in the bio it is cut from.          *)
LEMMA EndEnd ==
  ASSUME EndInv, NEW i \in DOMAIN bios, End(i)
  PROVE  EndInv'
<1>1. TypeOK'
  <2>1. bios' \in Seq(BioSet) /\ UNCHANGED <<table, user, pc, blk, sector, cut, moved, fault>>
    BY EndEffect
  <2>2. ended' = (ended \/ i = 1)
    BY EndEffect
  <2> QED BY <2>1, <2>2 DEF EndInv, TypeOK
<1> USE EndEffect
<1>2. \A j \in DOMAIN bios : bios'[j].parent = bios[j].parent
  OBVIOUS
<1>3. Family'
  BY <1>2 DEF EndInv, Tree, Family, Piece
<1>4. \A j \in DOMAIN bios : bios[j].state = "held" => bios'[j].state = "held"
  OBVIOUS
<1>5. EndBlk' = EndBlk
  BY DEF EndBlk
<1>6. Held'
  BY <1>2, <1>4, <1>5 DEF EndInv, Tree, Family, Held, Piece
<1>7. EndedOver'
  BY DEF EndInv, Tree, Family, EndedOver
<1> DEFINE p == bios[i].parent
<1>8. /\ \A j \in DOMAIN bios \ {p} : Waits(j)' = Waits(j)
      /\ p \in DOMAIN bios => Waits(p)' = Waits(p) \ {i} /\ i \in Waits(p)
  BY DEF Waits
<1>9. \A j \in DOMAIN bios : Own(j)' = Own(j)
  BY DEF Own
<1>10. Counted'
  <2> SUFFICES ASSUME NEW j \in DOMAIN bios
               PROVE  /\ bios'[j].remaining = Own(j)' + Cardinality(Waits(j)')
                      /\ bios'[j].state = "over" => bios'[j].remaining = 0
    BY DEF Counted
  <2>1. /\ bios[j].remaining = Own(j) + Cardinality(Waits(j)) /\ Own(j) \in Nat
        /\ bios[j].state = "over" => bios[j].remaining = 0
    BY DEF EndInv, Tree, Counted, Own
  <2>2. Cardinality(Waits(j)) \in Nat /\ IsFiniteSet(Waits(j))
    BY WaitsFinite DEF EndInv
  <2>3. CASE j = p
    <3>1. Waits(j)' = Waits(j) \ {i} /\ i \in Waits(j)
      BY <1>8, <2>3
    <3>2. Cardinality(Waits(j)') = Cardinality(Waits(j)) - 1 /\ Cardinality(Waits(j)) # 0
      BY <2>2, <3>1, OneLess
    <3>3. bios'[j].remaining = bios[j].remaining - 1
      BY <2>3
    <3>4. bios[j].state # "over" /\ j # i
      BY <2>1, <2>2, <3>1, <3>2
    <3>5. bios'[j].state # "over"
      BY <3>4
    <3>6. Own(j)' = Own(j)
      BY <1>9
    <3>7. Cardinality(Waits(j)') = Cardinality(Waits(j)) - 1
      BY <3>2
    <3> DEFINE c == Cardinality(Waits(j))
    <3>8. bios[j].remaining = Own(j) + c /\ c \in Nat /\ Own(j) \in Nat /\ Cardinality(Waits(j)') = c - 1
      BY <2>1, <2>2, <3>7
    <3> HIDE DEF c
    <3> QED BY <3>3, <3>5, <3>6, <3>8
  <2>4. CASE j # p
    <3>1. Waits(j)' = Waits(j) /\ Own(j)' = Own(j)
      BY <1>8, <1>9, <2>4
    <3>2. bios'[j].remaining = bios[j].remaining
      BY <2>1, <2>2, <2>4
    <3>3. j = i => bios[j].remaining = 0
      BY DEF End
    <3>4. bios'[j].state = "over" => j = i \/ bios[j].state = "over"
      OBVIOUS
    <3> QED BY <2>1, <3>1, <3>2, <3>3, <3>4
  <2> QED BY <2>3, <2>4
<1>11. \A j \in DOMAIN bios : Sectors(bios'[j]) = Sectors(bios[j])
  BY DEF Sectors
<1>12. Covering'
  BY <1>11 DEF EndInv, Tree, Covering
<1>13. Transferred'
  BY <1>11 DEF EndInv, Tree, Transferred, Done
<1> QED BY <1>1, <1>3, <1>6, <1>7, <1>10, <1>12, <1>13 DEF EndInv, Tree

-----------------------------------------------------------------------------
(* A bio that has just been submitted: one, whole and held.                *)
LEMMA FreshBio ==
  ASSUME user \in Bios, bios = << Bio(0, user.sector, user.size, 0) >>, moved = {},
         ended = FALSE, pc = "collect", fault = FALSE
  PROVE  Held /\ Tree /\ EndedOver /\ bios \in Seq(BioSet)
<1>1. /\ DOMAIN bios = {1} /\ Len(bios) = 1
      /\ bios[1].from = 0 /\ bios[1].size = user.size /\ bios[1].remaining = 1
      /\ bios[1].parent = 0 /\ bios[1].state = "held"
  BY DEF Bio
<1>2. user.size \in Nat \ {0} /\ user.sector \in Nat
  BY UserTypes
<1>3. bios \in Seq(BioSet)
  BY <1>2, NewBio
<1>4. Waits(1) = {} /\ Own(1) = 1
  BY <1>1 DEF Waits, Own
<1>5. Counted
  BY <1>1, <1>4, FS_EmptySet DEF Counted
<1>6. Family
  BY <1>1 DEF Family
<1>7. Covering
  <2>1. Sectors(bios[1]) = 0 .. (user.size - 1)
    BY <1>1, <1>2 DEF Sectors
  <2> QED BY <1>1, <1>2, <2>1 DEF Covering
<1>8. Transferred
  BY <1>1 DEF Transferred, Done
<1>9. Held /\ EndedOver
  BY <1>1 DEF Held, EndedOver
<1> QED BY <1>3, <1>5, <1>6, <1>7, <1>8, <1>9 DEF Tree

LEMMA InitEnd == Init => EndInv
<1> SUFFICES ASSUME Init PROVE EndInv
  OBVIOUS
<1>1. Held /\ Tree /\ EndedOver /\ bios \in Seq(BioSet)
  BY FreshBio DEF Init
<1> QED BY <1>1 DEF EndInv, TypeOK, Init, NoCut

LEMMA SubmitEnd ==
  ASSUME EndInv, Submit
  PROVE  EndInv'
<1>1. ~ fault
  BY DEF EndInv, Held, EndedOver, Submit
<1>2. /\ user' \in Bios /\ bios' = << Bio(0, user'.sector, user'.size, 0) >> /\ moved' = {}
      /\ ended' = FALSE /\ pc' = "collect" /\ fault' = FALSE
      /\ blk' = 0 /\ sector' = 0 /\ cut' = NoCut /\ table' = table
  BY <1>1 DEF Submit, EndInv, TypeOK
<1>3. (user \in Bios /\ bios = << Bio(0, user.sector, user.size, 0) >> /\ moved = {} /\ ended = FALSE
        /\ pc = "collect" /\ fault = FALSE => Held /\ Tree /\ EndedOver /\ bios \in Seq(BioSet))'
  BY FreshBio, PTL
<1>4. Held' /\ Tree' /\ EndedOver' /\ bios' \in Seq(BioSet)
  BY <1>2, <1>3
<1> QED BY <1>2, <1>4 DEF EndInv, TypeOK, NoCut

LEMMA NextEnd == EndInv /\ [Next]_vars => EndInv'
<1> SUFFICES ASSUME EndInv, [Next]_vars PROVE EndInv'
  OBVIOUS
<1>1. CASE Loops
  BY <1>1, ThroughEnd, CollectEnd, AreaEnd, ReturnEnd, StripeEnd, LastPartEnd DEF Loops
<1>2. CASE Device
  BY <1>2, TransferEnd, EndEnd DEF Device
<1>3. CASE Submit
  BY <1>3, SubmitEnd
<1>4. CASE Wait \/ UNCHANGED vars
  BY <1>4, ReturnEnd DEF Wait
<1> QED BY <1>1, <1>2, <1>3, <1>4 DEF Next

(* When the user's bio is over, all bios are: each counts in the one it is *)
(* cut from, which cannot be over before it.                               *)
LEMMA AllOver ==
  ASSUME EndInv, ended, NEW i \in DOMAIN bios
  PROVE  bios[i].state = "over"
<1>1. \A j \in DOMAIN bios : bios[j].state = "over" => Waits(j) = {}
  <2> SUFFICES ASSUME NEW j \in DOMAIN bios, bios[j].state = "over" PROVE Waits(j) = {}
    OBVIOUS
  <2>1. bios[j].remaining = 0 /\ bios[j].remaining = Own(j) + Cardinality(Waits(j)) /\ Own(j) \in Nat
    BY DEF EndInv, Tree, Counted, Own
  <2>2. Cardinality(Waits(j)) = 0
    BY <2>1, WaitsFinite DEF EndInv
  <2> QED BY <2>2, WaitsFinite, FS_EmptySet DEF EndInv
<1>2. \A j \in DOMAIN bios : Piece(j) => bios[j].state = "over"
  BY <1>1 DEF EndInv, EndedOver, Tree, Family, Piece, Waits
<1>3. \A j \in DOMAIN bios : bios[j].parent \in DOMAIN bios /\ Piece(bios[j].parent)
                               => bios[j].state = "over"
  BY <1>1, <1>2 DEF Waits
<1> QED BY <1>2, <1>3 DEF EndInv, EndedOver, Tree, Family

(* The submitter is told only when all of its bio has been transferred: at *)
(* the end every bio is over, and together they have all of its sectors.   *)
THEOREM TellsInTheEnd == Spec => []EndsAfterTransfers
<1>1. EndInv => EndsAfterTransfers
  <2> SUFFICES ASSUME EndInv, ended PROVE Done = 0 .. (user.size - 1)
    BY DEF EndsAfterTransfers, Done
  <2>1. \A i \in DOMAIN bios : Sectors(bios[i]) \subseteq Done
    BY AllOver DEF EndInv, Tree, Transferred
  <2> QED BY <2>1 DEF EndInv, Tree, Covering, Transferred
<1>2. QED BY InitEnd, NextEnd, <1>1, PTL DEF Spec

-----------------------------------------------------------------------------
(* Where the sectors go.  Every table that is used maps a block once: that *)
(* is what g_rep_area_tree sees to (TreeOnce in BlockAreaTreeProofs).      *)
MapsOnce ==
  \A t \in Tables : \A n, m \in t : \A b \in Nat :
    n.ori <= b /\ b < n.ori + n.cnt /\ m.ori <= b /\ b < m.ori + m.cnt => n = m

Straight == ~ PassedAsIs /\ WholeBlocks /\ StartsClean

OneArea == ~ PassedAsIs /\ \E n \in At(StartBlk) : EndBlk < n.ori + n.cnt

(* Sector p of the device is the right one for sector s of the user's bio. *)
Right(s, p) ==
  /\ Straight => p \in HomeOf(user.sector + s)
  /\ OneArea => \A n \in At(StartBlk) : p = (n.rep - n.ori) * K + (user.sector + s)

Goes(b) == \A k \in 0 .. (b.size - 1) : Right(b.from + k, b.at + k)

(* The user's bio is placed when the last area has been found for it.      *)
Placed(i) == i = 1 => pc # "collect" /\ blk > EndBlk

Homed ==
  /\ \A i \in DOMAIN bios : Placed(i) => Goes(bios[i])
  /\ \A m \in moved : Right(m[1], m[2])

(* Until then, what is left of a bio begins where the next area begins.    *)
Begun ==
  /\ pc = "collect" => bios[1].from = 0 /\ bios[1].size = user.size
  /\ pc = "done" => PassedAsIs \/ fault \/ blk > EndBlk
  /\ pc \in {"area", "stripe"} /\ blk <= EndBlk =>
       /\ Straight => /\ user.sector + bios[1].from = blk * K
                      /\ bios[1].size = (EndBlk + 1 - blk) * K
                      /\ sector = 0
                      /\ \A n \in At(blk) : n.ori = blk \/ EndBlk < n.ori + n.cnt
       /\ OneArea => /\ pc = "area"
                     /\ blk = StartBlk
                     /\ sector = user.sector % K
                     /\ bios[1].from = 0
  /\ Straight \/ OneArea => ~ fault

HomeInv == EndInv /\ Begun /\ Homed

-----------------------------------------------------------------------------
(* Division with remainder, and products.                                  *)
LEMMA DivBounds ==
  ASSUME NEW s \in Nat, NEW k \in Nat \ {0}
  PROVE  /\ s \div k \in Nat
         /\ (s \div k) * k <= s
         /\ s < (s \div k + 1) * k
         /\ s = (s \div k) * k + (s % k)
  OBVIOUS

LEMMA Monotonic ==
  ASSUME NEW a \in Int, NEW b \in Int, NEW k \in Nat, a <= b
  PROVE  a * k <= b * k
  OBVIOUS

LEMMA Distributive ==
  ASSUME NEW a \in Int, NEW b \in Int, NEW k \in Int
  PROVE  /\ (a + b) * k = a * k + b * k /\ (a - b) * k = a * k - b * k
         /\ a * k \in Int /\ b * k \in Int
  OBVIOUS

(* A sector between the first of block lo and that of hi is in a block     *)
(* between them.                                                           *)
LEMMA BlockBetween ==
  ASSUME NEW s \in Nat, NEW lo \in Int, NEW hi \in Int, lo * K <= s, s < hi * K
  PROVE  s \div K \in Nat /\ lo <= s \div K /\ s \div K < hi
<1> DEFINE d == s \div K
<1>1. K \in Nat \ {0} /\ K \in Nat
  BY Lengths
<1>2. d \in Nat /\ d * K <= s /\ s < (d + 1) * K
  BY <1>1, DivBounds
<1> HIDE DEF d
<1>3. /\ d * K \in Int /\ (d + 1) * K \in Int /\ lo * K \in Int /\ hi * K \in Int
  BY <1>1, <1>2, Distributive
<1>4. lo <= d
  <2> SUFFICES ASSUME d + 1 <= lo PROVE FALSE
    BY <1>2
  <2>1. (d + 1) * K <= lo * K
    BY <1>1, <1>2, Monotonic
  <2> DEFINE x == (d + 1) * K
             y == lo * K
  <2>2. x \in Int /\ y \in Int /\ x <= y /\ y <= s /\ s < x
    BY <1>2, <1>3, <2>1
  <2> HIDE DEF x, y
  <2> QED BY <2>2
<1>5. d < hi
  <2> SUFFICES ASSUME hi <= d PROVE FALSE
    BY <1>2
  <2>1. hi * K <= d * K
    BY <1>1, <1>2, Monotonic
  <2> DEFINE x == d * K
             y == hi * K
  <2>2. x \in Int /\ y \in Int /\ y <= x /\ x <= s /\ s < y
    BY <1>2, <1>3, <2>1
  <2> HIDE DEF x, y
  <2> QED BY <2>2
<1> QED BY <1>2, <1>4, <1>5 DEF d

(* An aimed bio's sector k is at the home of the k-th sector of block q.   *)
LEMMA AimIsHome ==
  ASSUME TypeOK, NEW q \in Nat, NEW n \in At(q), NEW z \in Nat, NEW k \in 0 .. (z - 1),
         q * K + z <= (n.ori + n.cnt) * K
  PROVE  (n.rep + (q - n.ori)) * K + k \in HomeOf(q * K + k)
<1> DEFINE s == q * K + k
<1>1. /\ n.ori \in Nat /\ n.rep \in Nat /\ n.cnt \in Nat \ {0}
      /\ n.ori <= q /\ q < n.ori + n.cnt
  BY AreaTypes
<1>2. K \in Nat \ {0} /\ K \in Nat /\ K \in Int
  BY Lengths
<1>3. q * K \in Nat /\ (n.ori + n.cnt) * K \in Int /\ (n.rep - n.ori) * K \in Int
      /\ n.ori * K <= q * K /\ n.ori * K \in Int
  <2>1. n.rep - n.ori \in Int /\ n.ori + n.cnt \in Int /\ n.ori \in Int /\ q \in Int
    BY <1>1
  <2>2. q * K \in Nat
    BY <1>2
  <2> QED BY <1>1, <1>2, <2>1, <2>2, Distributive, Monotonic
<1>4. s \in Nat /\ n.ori * K <= s /\ s < (n.ori + n.cnt) * K
  <2> DEFINE a == q * K
             b == n.ori * K
             c == (n.ori + n.cnt) * K
  <2>1. a \in Nat /\ b \in Int /\ c \in Int /\ b <= a /\ a + z <= c
    BY <1>3
  <2> HIDE DEF a, b, c
  <2>2. a + k \in Nat /\ b <= a + k /\ a + k < c
    BY <2>1
  <2> QED BY <2>2 DEF a, b, c
<1>5. s \div K \in Nat /\ n.ori <= s \div K /\ s \div K < n.ori + n.cnt
  BY <1>1, <1>4, BlockBetween
<1>6. n \in At(s \div K)
  BY <1>5 DEF At
<1>7. (n.rep + (q - n.ori)) * K + k = (n.rep - n.ori) * K + s
  <2>1. n.rep + (q - n.ori) = (n.rep - n.ori) + q /\ n.rep - n.ori \in Int /\ q \in Int
    BY <1>1
  <2>2. (n.rep + (q - n.ori)) * K = (n.rep - n.ori) * K + q * K
    BY <1>2, <2>1, Distributive
  <2> DEFINE x == (n.rep + (q - n.ori)) * K
             y == (n.rep - n.ori) * K
             w == q * K
  <2>3. x = y + w /\ y \in Int /\ w \in Int
    BY <1>3, <2>2
  <2> HIDE DEF x, y, w
  <2>4. x + k = y + (w + k)
    BY <2>3
  <2> QED BY <2>4 DEF x, y, w
<1> HIDE DEF s
<1> QED BY <1>6, <1>7 DEF HomeOf, s

(* The only area of a block.                                               *)
LEMMA OnlyArea ==
  ASSUME MapsOnce, TypeOK, NEW b \in Nat, NEW m \in At(b), NEW n \in At(b)
  PROVE  m = n
  BY DEF MapsOnce, TypeOK, At

-----------------------------------------------------------------------------
(* What is right depends on the bio and the table only.                    *)
LEMMA SameRight ==
  ASSUME UNCHANGED <<user, table>>
  PROVE  /\ \A s, p : Right(s, p)' <=> Right(s, p)
         /\ Straight' <=> Straight
         /\ OneArea' <=> OneArea
         /\ EndBlk' = EndBlk /\ StartBlk' = StartBlk
         /\ PassedAsIs' <=> PassedAsIs
<1>1. EndBlk' = EndBlk /\ StartBlk' = StartBlk
  BY DEF EndBlk, StartBlk
<1>2. \A b : At(b)' = At(b)
  BY DEF At
<1>3. PassedAsIs' <=> PassedAsIs
  BY <1>1 DEF PassedAsIs
<1>4. Straight' <=> Straight
  BY <1>1, <1>2, <1>3 DEF Straight, WholeBlocks, StartsClean
<1>5. OneArea' <=> OneArea
  BY <1>1, <1>2, <1>3 DEF OneArea
<1>6. \A s : HomeOf(s)' = HomeOf(s)
  BY <1>2 DEF HomeOf
<1>7. \A s, p : Right(s, p)' <=> Right(s, p)
  BY <1>1, <1>2, <1>4, <1>5, <1>6 DEF Right
<1> QED BY <1>1, <1>3, <1>4, <1>5, <1>7

(* Bios that stay what they are and where they go.                         *)
InPlace ==
  /\ DOMAIN bios' = DOMAIN bios
  /\ \A j \in DOMAIN bios :
       bios'[j].from = bios[j].from /\ bios'[j].at = bios[j].at /\ bios'[j].size = bios[j].size
  /\ UNCHANGED <<user, table>>

LEMMA InPlaceHomed ==
  ASSUME Homed, InPlace, Placed(1)' => Placed(1), UNCHANGED moved
  PROVE  Homed'
<1>1. \A s, p : Right(s, p)' <=> Right(s, p)
  BY SameRight DEF InPlace
<1>2. \A m \in moved' : Right(m[1], m[2])'
  BY <1>1 DEF Homed
<1>3. ASSUME NEW j \in DOMAIN bios', Placed(j)'
      PROVE  \A k \in 0 .. (bios'[j].size - 1) : Right(bios'[j].from + k, bios'[j].at + k)
  <2>1. j \in DOMAIN bios /\ Placed(j)
    BY <1>3 DEF InPlace, Placed
  <2> QED BY <2>1 DEF Homed, Goes, InPlace
<1> QED BY <1>1, <1>2, <1>3 DEF Homed, Goes

(* The two parts of a bio that goes where it should do so, too.            *)
LEMMA PartsGo ==
  ASSUME NEW b \in BioSet, Goes(b), NEW n \in Nat \ {0}, n < b.size
  PROVE  /\ \A k \in 0 .. (n - 1) : Right(b.from + k, b.at + k)
         /\ \A k \in 0 .. (b.size - n - 1) : Right(b.from + n + k, b.at + n + k)
<1> DEFINE f == b.from
           a == b.at
           s == b.size
<1>1. f \in Nat /\ a \in Int /\ s \in Nat /\ n < s
  BY BioTypes
<1>2. \A k \in 0 .. (s - 1) : Right(f + k, a + k)
  BY DEF Goes
<1> HIDE DEF f, a, s
<1>3. \A k \in 0 .. (n - 1) : Right(f + k, a + k)
  BY <1>1, <1>2
<1>4. ASSUME NEW k \in 0 .. (s - n - 1) PROVE Right(f + n + k, a + n + k)
  <2>1. n + k \in 0 .. (s - 1) /\ f + (n + k) = f + n + k /\ a + (n + k) = a + n + k
    BY <1>1
  <2>2. Right(f + (n + k), a + (n + k))
    BY <1>2, <2>1
  <2> QED BY <2>1, <2>2
<1> QED BY <1>3, <1>4 DEF f, a, s

LEMMA CutHomed ==
  ASSUME TypeOK, Homed, NEW i, NEW n, CutOff(i, n), Placed(i), bios' \in Seq(BioSet),
         bios'[i].at = bios[i].at + n, bios'[Len(bios) + 1].at = bios[i].at,
         Placed(1)' => Placed(1), UNCHANGED <<user, table, moved>>
  PROVE  Homed'
<1>0. PICK l : l = Len(bios) + 1
  OBVIOUS
<1>1. /\ DOMAIN bios = 1 .. Len(bios) /\ DOMAIN bios' = DOMAIN bios \union {l}
      /\ i \in DOMAIN bios /\ bios[i] \in BioSet /\ n \in Nat \ {0} /\ n < bios[i].size
      /\ Len(bios) \in Nat /\ l # 1
  BY <1>0 DEF TypeOK, CutOff
<1>2. \A s, p : Right(s, p)' <=> Right(s, p)
  BY SameRight
<1>3. \A m \in moved' : Right(m[1], m[2])'
  BY <1>2 DEF Homed
<1>4. Goes(bios[i])
  BY <1>1 DEF Homed
<1>5. /\ \A k \in 0 .. (n - 1) : Right(bios[i].from + k, bios[i].at + k)
      /\ \A k \in 0 .. (bios[i].size - n - 1) :
           Right(bios[i].from + n + k, bios[i].at + n + k)
  BY <1>1, <1>4, PartsGo
<1>6. /\ bios'[l].from = bios[i].from /\ bios'[l].size = n /\ bios'[l].at = bios[i].at
      /\ bios'[i].from = bios[i].from + n /\ bios'[i].size = bios[i].size - n
      /\ bios'[i].at = bios[i].at + n
      /\ \A j \in DOMAIN bios \ {i} : bios'[j] = bios[j]
  BY <1>0 DEF CutOff
<1>7. ASSUME NEW j \in DOMAIN bios', Placed(j)'
      PROVE  \A k \in 0 .. (bios'[j].size - 1) : Right(bios'[j].from + k, bios'[j].at + k)
  <2>1. CASE j = l
    BY <1>5, <1>6, <2>1
  <2>2. CASE j = i
    BY <1>5, <1>6, <2>2
  <2>3. CASE j # l /\ j # i
    <3>1. j \in DOMAIN bios /\ Placed(j) /\ bios'[j] = bios[j]
      BY <1>1, <1>6, <1>7, <2>3 DEF Placed
    <3> QED BY <3>1 DEF Homed, Goes
  <2> QED BY <2>1, <2>2, <2>3
<1> QED BY <1>2, <1>3, <1>7 DEF Homed, Goes

-----------------------------------------------------------------------------
(* The loops.  A bio of whole blocks begins at a block's first sector and  *)
(* has as many sectors as its blocks.                                      *)
LEMMA WholeBlocksAre ==
  ASSUME user \in Bios, WholeBlocks
  PROVE  /\ user.sector = StartBlk * K
         /\ user.size = (EndBlk + 1 - StartBlk) * K
<1> DEFINE s == user.sector
           z == user.size
           a == s \div K
           c == z \div K
<1>1. s \in Nat /\ z \in Nat /\ K \in Nat \ {0} /\ s % K = 0 /\ z % K = 0
  BY UserTypes, Lengths DEF WholeBlocks
<1>2. (s + z) \div K = EndBlk + 1 /\ StartBlk = a
  <2>1. (s + z) \div K \in Int
    BY <1>1
  <2> QED BY <2>1 DEF EndBlk, StartBlk
<1> HIDE DEF s, z
<1>3. /\ a \in Nat /\ s = a * K + (s % K)
      /\ c \in Nat /\ z = c * K + (z % K)
  BY <1>1, DivBounds
<1> HIDE DEF a, c
<1>4. a * K \in Int /\ c * K \in Int /\ (a + c) * K = a * K + c * K
  BY <1>1, <1>3, Distributive
<1>5. s = a * K /\ z = c * K
  BY <1>1, <1>3, <1>4
<1>6. s + z = (a + c) * K
  BY <1>4, <1>5
<1>7. ((a + c) * K) \div K = a + c
  BY <1>1, <1>3
<1>8. EndBlk + 1 - StartBlk = c
  <2>1. EndBlk + 1 = a + c
    BY <1>2, <1>6, <1>7
  <2>2. EndBlk \in Int
    BY UserTypes
  <2> QED BY <1>2, <1>3, <2>1, <2>2
<1> QED BY <1>2, <1>5, <1>8 DEF s, z

LEMMA CollectHome ==
  ASSUME HomeInv, MapsOnce, Collect
  PROVE  HomeInv'
<1>1. EndInv'
  BY CollectEnd DEF HomeInv
<1>2. /\ pc = "collect" /\ ~ PassedAsIs /\ blk' = StartBlk /\ sector' = user.sector % K
      /\ pc' = "area" /\ UNCHANGED <<table, user, bios, cut, moved, ended, fault>>
  BY DEF Collect, done
<1>3. EndBlk \in Int /\ StartBlk \in Nat /\ ~ (blk' > EndBlk)
  BY <1>2, UserTypes DEF HomeInv, EndInv, TypeOK, PassedAsIs
<1>4. /\ Straight' <=> Straight
      /\ OneArea' <=> OneArea
      /\ EndBlk' = EndBlk /\ StartBlk' = StartBlk
  BY <1>2, SameRight
<1>5. Homed'
  BY <1>2, <1>3, <1>4, InPlaceHomed DEF HomeInv, InPlace, Placed
<1>6. ASSUME Straight
      PROVE  /\ user.sector + bios[1].from = StartBlk * K
             /\ bios[1].size = (EndBlk + 1 - StartBlk) * K
             /\ user.sector % K = 0
             /\ \A n \in At(StartBlk) : n.ori = StartBlk \/ EndBlk < n.ori + n.cnt
  <2>1. bios[1].from = 0 /\ bios[1].size = user.size /\ user.sector \in Nat
    BY <1>2, UserTypes DEF HomeInv, Begun, EndInv, TypeOK
  <2>2. user.sector = StartBlk * K /\ user.size = (EndBlk + 1 - StartBlk) * K
    BY <1>6, WholeBlocksAre DEF HomeInv, EndInv, TypeOK, Straight
  <2>3. PICK m \in At(StartBlk) : m.ori = StartBlk \/ EndBlk < m.ori + m.cnt
    BY <1>6 DEF Straight, StartsClean
  <2>4. \A n \in At(StartBlk) : n = m
    BY <1>3, OnlyArea DEF HomeInv, EndInv
  <2>5. user.sector % K = 0
    BY <1>6 DEF Straight, WholeBlocks
  <2>6. user.sector + bios[1].from = user.sector
    BY <2>1
  <2> QED BY <2>1, <2>2, <2>3, <2>4, <2>5, <2>6
<1>7. \A b : At(b)' = At(b)
  BY <1>2 DEF At
<1>8. Begun'
  <2>1. Straight' \/ OneArea' => ~ fault'
    BY <1>2, <1>4 DEF HomeInv, Begun
  <2>2. Straight' => /\ user'.sector + bios'[1].from = blk' * K
                     /\ bios'[1].size = (EndBlk' + 1 - blk') * K
                     /\ sector' = 0
                     /\ \A n \in At(blk)' : n.ori = blk' \/ EndBlk' < n.ori + n.cnt
    <3>1. At(blk)' = At(StartBlk)
      BY <1>2 DEF At
    <3> QED BY <1>2, <1>4, <1>6, <3>1
  <2>3. bios'[1].from = 0
    BY <1>2 DEF HomeInv, Begun
  <2> QED BY <1>2, <1>4, <2>1, <2>2, <2>3 DEF Begun
<1> QED BY <1>1, <1>5, <1>8 DEF HomeInv

(* An area that is cut off is aimed at its blocks, and what is left of the *)
(* bio begins behind it.                                                   *)
LEMMA AreaCutHome ==
  ASSUME HomeInv, MapsOnce, Area, NEW n \in At(blk), IsCut(n),
         blk' = n.ori + n.cnt, bios' \in Seq(BioSet), CutOff(1, n.cnt * K),
         bios'[Len(bios) + 1].at = (n.rep + (blk - n.ori)) * K + sector, EndInv'
  PROVE  HomeInv'
<1>1. /\ n.ori \in Nat /\ n.rep \in Nat /\ n.cnt \in Nat \ {0}
      /\ n.ori <= blk /\ blk < n.ori + n.cnt /\ n.cnt * K \in Nat \ {0}
  BY AreaTypes DEF HomeInv, EndInv
<1>2. /\ pc = "area" /\ blk <= EndBlk /\ pc' = "stripe" /\ sector' = 0
      /\ UNCHANGED <<table, user, moved, ended, fault>>
  BY DEF Area, done
<1>3. /\ EndBlk \in Int /\ StartBlk \in Nat /\ user.sector \in Nat /\ blk \in Nat
      /\ n.ori + n.cnt <= EndBlk
  <2>1. EndBlk \in Int /\ StartBlk \in Nat /\ user.sector \in Nat /\ blk \in Nat
    BY UserTypes DEF HomeInv, EndInv, TypeOK
  <2> QED BY <1>1, <2>1 DEF IsCut
<1>4. /\ Straight' <=> Straight
      /\ OneArea' <=> OneArea
      /\ EndBlk' = EndBlk /\ StartBlk' = StartBlk
      /\ \A s, p : Right(s, p)' <=> Right(s, p)
  BY <1>2, SameRight
<1>5. ~ OneArea
  <2> SUFFICES ASSUME OneArea PROVE FALSE
    OBVIOUS
  <2>1. blk = StartBlk
    BY <1>2 DEF HomeInv, Begun
  <2>2. PICK m \in At(blk) : EndBlk < m.ori + m.cnt
    BY <2>1 DEF OneArea
  <2>3. m = n
    BY <1>3, OnlyArea DEF HomeInv, EndInv
  <2> QED BY <1>1, <1>3, <2>2, <2>3
<1>6. /\ bios[1] \in BioSet /\ bios[1].from \in Nat /\ bios[1].size \in Nat /\ Len(bios) \in Nat
      /\ DOMAIN bios = 1 .. Len(bios) /\ DOMAIN bios' = 1 .. Len(bios') /\ 1 \in DOMAIN bios
  <2>1. bios[1] \in BioSet /\ 1 \in DOMAIN bios
    BY DEF HomeInv, EndInv, TypeOK, Tree, Family
  <2> QED BY <2>1, BioTypes DEF HomeInv, EndInv, TypeOK
<1> DEFINE q == n.cnt * K
<1>7. /\ bios'[1].from = bios[1].from + q /\ bios'[1].size = bios[1].size - q
      /\ Len(bios') = Len(bios) + 1
      /\ \A j \in DOMAIN bios \ {1} : bios'[j] = bios[j]
      /\ bios'[Len(bios) + 1].from = bios[1].from /\ bios'[Len(bios) + 1].size = q
      /\ q \in Nat \ {0}
  BY DEF CutOff
<1>8. ASSUME Straight
      PROVE  /\ user.sector + bios[1].from = blk * K
             /\ bios[1].size = (EndBlk + 1 - blk) * K
             /\ sector = 0 /\ n.ori = blk
  <2>1. n.ori = blk \/ EndBlk < n.ori + n.cnt
    BY <1>2, <1>8 DEF HomeInv, Begun
  <2> QED BY <1>1, <1>2, <1>3, <1>8, <2>1 DEF HomeInv, Begun
<1>9. (blk + n.cnt) * K = blk * K + q /\ blk * K \in Nat /\ K \in Nat \ {0}
      /\ ((EndBlk + 1 - blk) - n.cnt) * K = (EndBlk + 1 - blk) * K - q
      /\ (EndBlk + 1 - blk) * K \in Int
  <2>1. K \in Nat \ {0} /\ blk \in Int /\ n.cnt \in Int /\ EndBlk + 1 - blk \in Int /\ K \in Int
    BY <1>1, <1>3, Lengths
  <2>2. blk * K \in Nat
    BY <1>3, <2>1
  <2>3. (blk + n.cnt) * K = blk * K + q
    BY <2>1, Distributive
  <2> DEFINE e == EndBlk + 1 - blk
             c == n.cnt
  <2>4. e \in Int /\ c \in Int /\ K \in Int
    BY <2>1
  <2> HIDE DEF e, c
  <2>5. (e - c) * K = e * K - c * K /\ e * K \in Int
    BY <2>4, Distributive
  <2>6. ((EndBlk + 1 - blk) - n.cnt) * K = (EndBlk + 1 - blk) * K - q
    <3>1. \A x, y \in Int : (x - y) * K = x * K - y * K
      BY <2>1, Distributive
    <3> QED BY <2>1, <3>1, Zenon
  <2>7. (EndBlk + 1 - blk) * K \in Int
    BY <2>5, Zenon DEF e
  <2> HIDE DEF q
  <2> QED BY <2>1, <2>2, <2>3, <2>6, <2>7, Zenon
<1> HIDE DEF q
<1>10. Begun'
  <2>1. ASSUME Straight
        PROVE  /\ user.sector + bios'[1].from = blk' * K
               /\ bios'[1].size = (EndBlk + 1 - blk') * K
    <3> DEFINE x == blk * K
               y == (EndBlk + 1 - blk) * K
               u == (blk + n.cnt) * K
               v == ((EndBlk + 1 - blk) - n.cnt) * K
               f == bios[1].from
               s == user.sector
    <3>1. s + f = x /\ s \in Nat /\ f \in Nat /\ x \in Nat /\ bios[1].size = y /\ y \in Int
      BY <1>3, <1>6, <1>8, <1>9, <2>1
    <3>2. u = x + q /\ v = y - q /\ q \in Nat
      BY <1>7, <1>9
    <3>3. blk' = blk + n.cnt /\ EndBlk + 1 - blk' = (EndBlk + 1 - blk) - n.cnt
      <4>1. blk' = blk + n.cnt
        BY <1>8, <2>1
      <4> QED BY <1>1, <1>3, <4>1
    <3>4. u = blk' * K /\ v = (EndBlk + 1 - blk') * K
      BY <3>3
    <3> HIDE DEF x, y, u, v, f, s
    <3>5. s + (f + q) = u /\ y - q = v
      BY <3>1, <3>2
    <3> QED BY <1>7, <3>1, <3>4, <3>5 DEF f, s
  <2>2. ASSUME Straight, NEW m \in At(blk')
        PROVE  m.ori = blk' \/ EndBlk < m.ori + m.cnt
    <3>1. /\ m.ori \in Nat /\ m.cnt \in Nat \ {0} /\ m.ori <= blk' /\ blk' < m.ori + m.cnt
      BY AreaTypes DEF HomeInv, EndInv
    <3>2. CASE m.ori < blk'
      <4>1. blk' - 1 \in Nat /\ m \in At(blk' - 1) /\ n \in At(blk' - 1)
        <5>1. /\ blk' - 1 \in Nat /\ m.ori <= blk' - 1 /\ blk' - 1 < m.ori + m.cnt
              /\ n.ori <= blk' - 1 /\ blk' - 1 < n.ori + n.cnt
          <6> DEFINE o == n.ori
                     c == n.cnt
          <6>1. o \in Nat /\ c \in Nat \ {0} /\ blk' = o + c
            BY <1>1
          <6> HIDE DEF o, c
          <6>2. blk' - 1 \in Nat /\ o <= blk' - 1 /\ blk' - 1 < o + c
            BY <6>1
          <6>3. m.ori <= blk' - 1 /\ blk' - 1 < m.ori + m.cnt
            BY <3>1, <3>2, <6>1
          <6> QED BY <6>2, <6>3 DEF o, c
        <5> QED BY <5>1 DEF At
      <4>2. m = n
        BY <4>1, OnlyArea DEF HomeInv, EndInv
      <4> QED BY <1>1, <3>1, <4>2
    <3> QED BY <1>1, <3>1, <3>2
  <2>3. At(blk)' = At(blk')
    BY <1>2 DEF At
  <2>4. Straight => ~ fault
    BY DEF HomeInv, Begun
  <2> QED BY <1>2, <1>4, <1>5, <2>1, <2>2, <2>3, <2>4 DEF Begun
<1>11. Homed'
  <2>1. \A m \in moved' : Right(m[1], m[2])
    BY <1>2 DEF HomeInv, Homed
  <2>2. ~ Placed(1)'
    BY <1>1, <1>3, <1>4 DEF Placed
  <2>3. ASSUME NEW j \in DOMAIN bios', Placed(j)'
        PROVE  \A k \in 0 .. (bios'[j].size - 1) : Right(bios'[j].from + k, bios'[j].at + k)
    <3>1. CASE j = Len(bios) + 1
      <4> SUFFICES ASSUME NEW k \in 0 .. (q - 1), Straight
                   PROVE  bios'[j].at + k \in HomeOf(user.sector + (bios'[j].from + k))
        BY <1>5, <1>7, <3>1 DEF Right
      <4>1. /\ user.sector + bios[1].from = blk * K /\ sector = 0 /\ n.ori = blk
            /\ bios'[j].at = (n.rep + (blk - n.ori)) * K + sector
            /\ bios'[j].from = bios[1].from
        BY <1>7, <1>8, <3>1
      <4>2. blk * K + q <= (n.ori + n.cnt) * K /\ q \in Nat
        BY <1>7, <1>9, <4>1
      <4>3. (n.rep + (blk - n.ori)) * K + k \in HomeOf(blk * K + k)
        BY <1>3, <4>2, AimIsHome DEF HomeInv, EndInv
      <4> DEFINE c == (n.rep + (blk - n.ori)) * K
                 x == blk * K
                 f == bios[1].from
                 s == user.sector
      <4>4. /\ c \in Int /\ x \in Nat /\ f \in Nat /\ s \in Nat /\ s + f = x
            /\ bios'[j].at = c + 0 /\ bios'[j].from = f /\ c + k \in HomeOf(x + k)
        <5>1. n.rep + (blk - n.ori) \in Int /\ K \in Int
          <6>1. n.rep \in Nat /\ n.ori \in Nat /\ blk \in Nat
            BY <1>1, <1>3
          <6>2. K \in Int
            BY Lengths
          <6> QED BY <6>1, <6>2
        <5>2. c \in Int
          BY <5>1, Distributive
        <5> QED BY <1>3, <1>6, <1>9, <4>1, <4>3, <5>2
      <4> HIDE DEF c, x, f, s
      <4>5. s + (f + k) = x + k /\ c + 0 + k = c + k
        BY <4>4
      <4> QED BY <4>4, <4>5 DEF s
    <3>2. CASE j # Len(bios) + 1
      <4>1. j # 1
        BY <2>2, <2>3
      <4>2. j \in DOMAIN bios /\ bios'[j] = bios[j]
        BY <1>6, <1>7, <3>2, <4>1
      <4>3. Placed(j)
        BY <4>1 DEF Placed
      <4> QED BY <4>2, <4>3 DEF HomeInv, Homed, Goes
    <3> QED BY <3>1, <3>2
  <2> QED BY <1>4, <2>1, <2>3 DEF Homed, Goes
<1> QED BY <1>10, <1>11 DEF HomeInv

(* The last area of a bio: the rest is aimed, and is placed from now on.   *)
LEMMA AreaLastHome ==
  ASSUME HomeInv, MapsOnce, Area, NEW n \in At(blk), ~ IsCut(n),
         blk' = n.ori + n.cnt, Onwards,
         \A j \in DOMAIN bios \ {1} : bios'[j] = bios[j],
         bios'[1].at = (n.rep + (blk - n.ori)) * K + sector, EndInv'
  PROVE  HomeInv'
<1>1. /\ n.ori \in Nat /\ n.rep \in Nat /\ n.cnt \in Nat \ {0}
      /\ n.ori <= blk /\ blk < n.ori + n.cnt
  BY AreaTypes DEF HomeInv, EndInv
<1>2. /\ pc = "area" /\ blk <= EndBlk /\ pc' = "stripe" /\ sector' = 0
      /\ UNCHANGED <<table, user, moved, ended, fault>>
  BY DEF Area, done
<1>3. /\ EndBlk \in Int /\ StartBlk \in Nat /\ user.sector \in Nat /\ blk \in Nat
      /\ K \in Nat \ {0} /\ user.sector % K \in Nat
  BY UserTypes, Lengths DEF HomeInv, EndInv, TypeOK
<1>4. EndBlk + 1 <= n.ori + n.cnt /\ ~ (blk' <= EndBlk)
  BY <1>1, <1>3 DEF IsCut
<1>5. /\ Straight' <=> Straight
      /\ OneArea' <=> OneArea
      /\ EndBlk' = EndBlk /\ StartBlk' = StartBlk
      /\ \A s, p : Right(s, p)' <=> Right(s, p)
  BY <1>2, SameRight
<1>6. Begun'
  BY <1>2, <1>4, <1>5 DEF HomeInv, Begun
<1>7. /\ bios[1].from \in Nat /\ bios[1].size \in Nat /\ 1 \in DOMAIN bios
      /\ bios'[1].from = bios[1].from /\ bios'[1].size = bios[1].size
      /\ DOMAIN bios' = DOMAIN bios
  <2>1. bios[1] \in BioSet /\ 1 \in DOMAIN bios
    BY DEF HomeInv, EndInv, TypeOK, Tree, Family
  <2> QED BY <2>1, BioTypes DEF Onwards, Onward, Alike
<1> DEFINE f == bios[1].from
           z == bios[1].size
           c == (n.rep + (blk - n.ori)) * K
           s == user.sector
           x == blk * K
<1>8. c \in Int /\ x \in Nat
  <2>1. n.rep + (blk - n.ori) \in Int /\ K \in Int
    BY <1>1, <1>3
  <2>2. c \in Int
    BY <2>1, Distributive
  <2>3. x \in Nat
    BY <1>3
  <2> QED BY <2>2, <2>3
<1>9. ASSUME Straight, NEW k \in 0 .. (z - 1)
      PROVE  bios'[1].at + k \in HomeOf(user.sector + (bios'[1].from + k))
  <2>1. s + f = x /\ z = (EndBlk + 1 - blk) * K /\ sector = 0
    BY <1>2, <1>9 DEF HomeInv, Begun
  <2>2. x + z <= (n.ori + n.cnt) * K
    <3>1. x + z = (EndBlk + 1) * K
      <4>1. EndBlk + 1 - blk \in Int /\ blk \in Int /\ K \in Int /\ EndBlk + 1 = blk + (EndBlk + 1 - blk)
        BY <1>3
      <4>2. (blk + (EndBlk + 1 - blk)) * K = blk * K + (EndBlk + 1 - blk) * K
        BY <4>1, Distributive
      <4> QED BY <2>1, <4>1, <4>2, Zenon
    <3>2. (EndBlk + 1) * K <= (n.ori + n.cnt) * K
      <4>1. EndBlk + 1 \in Int /\ n.ori + n.cnt \in Int /\ K \in Nat
        BY <1>1, <1>3
      <4> QED BY <1>4, <4>1, Monotonic
    <3> HIDE DEF x, z
    <3> QED BY <3>1, <3>2
  <2>3. c + k \in HomeOf(x + k)
    BY <1>3, <1>7, <2>2, AimIsHome DEF HomeInv, EndInv
  <2>4. s \in Nat /\ f \in Nat /\ bios'[1].at = c + 0 /\ bios'[1].from = f
    BY <1>3, <1>7, <2>1
  <2> HIDE DEF c, x, f, s, z
  <2>5. s + (f + k) = x + k /\ c + 0 + k = c + k
    BY <1>8, <2>1, <2>4
  <2> QED BY <2>3, <2>4, <2>5 DEF s
<1>10. ASSUME OneArea, NEW k \in 0 .. (z - 1), NEW m \in At(StartBlk)
       PROVE  bios'[1].at + k = (m.rep - m.ori) * K + (user.sector + (bios'[1].from + k))
  <2>1. blk = StartBlk /\ sector = s % K /\ f = 0
    BY <1>2, <1>10 DEF HomeInv, Begun
  <2>2. m = n
    BY <1>3, <2>1, OnlyArea DEF HomeInv, EndInv
  <2>3. s = x + (s % K)
    BY <1>3, <2>1, DivBounds DEF StartBlk
  <2> DEFINE y == (n.rep - n.ori) * K
  <2>4. c = y + x /\ y \in Int
    <3>1. /\ n.rep - n.ori \in Int /\ blk \in Int /\ K \in Int
          /\ n.rep + (blk - n.ori) = (n.rep - n.ori) + blk
      BY <1>1, <1>3
    <3>2. ((n.rep - n.ori) + blk) * K = y + x /\ y \in Int
      BY <3>1, Distributive
    <3> QED BY <3>1, <3>2
  <2>5. bios'[1].at = c + (s % K) /\ bios'[1].from = 0 /\ s % K \in Nat /\ s \in Nat
    BY <1>3, <1>7, <2>1
  <2> DEFINE r == s % K
  <2>6. s = x + r /\ c = y + x /\ bios'[1].at = c + r /\ r \in Nat /\ s \in Nat /\ y \in Int
    BY <2>3, <2>4, <2>5
  <2> HIDE DEF c, x, y, s, r
  <2>7. bios'[1].at + k = y + (s + (0 + k))
    BY <1>8, <2>6
  <2> QED BY <2>2, <2>5, <2>7 DEF y, s
<1>11. Goes(bios'[1])
  <2> SUFFICES ASSUME NEW k \in 0 .. (z - 1)
               PROVE  Right(bios'[1].from + k, bios'[1].at + k)
    BY <1>7 DEF Goes
  <2> QED BY <1>9, <1>10 DEF Right
<1>12. Homed'
  <2>1. \A m \in moved' : Right(m[1], m[2])
    BY <1>2 DEF HomeInv, Homed
  <2>2. ASSUME NEW j \in DOMAIN bios', Placed(j)'
        PROVE  \A k \in 0 .. (bios'[j].size - 1) : Right(bios'[j].from + k, bios'[j].at + k)
    <3>1. CASE j = 1
      BY <1>11, <3>1 DEF Goes
    <3>2. CASE j # 1
      <4>1. j \in DOMAIN bios /\ bios'[j] = bios[j] /\ Placed(j)
        BY <1>7, <3>2 DEF Placed
      <4> QED BY <4>1 DEF HomeInv, Homed, Goes
    <3> QED BY <3>1, <3>2
  <2> QED BY <1>5, <2>1, <2>2 DEF Homed, Goes
<1> QED BY <1>6, <1>12 DEF HomeInv

LEMMA AreaHome ==
  ASSUME HomeInv, MapsOnce, Area
  PROVE  HomeInv'
<1>1. EndInv'
  BY AreaEnd DEF HomeInv
<1>2. PICK n \in At(blk) :
           /\ blk' = n.ori + n.cnt
           /\ bios' \in Seq(BioSet)
           /\ IsCut(n) => /\ CutOff(1, n.cnt * K)
                          /\ bios'[Len(bios) + 1].at = (n.rep + (blk - n.ori)) * K + sector
           /\ ~ IsCut(n) => /\ Onwards
                            /\ \A j \in DOMAIN bios \ {1} : bios'[j] = bios[j]
                            /\ bios'[1].at = (n.rep + (blk - n.ori)) * K + sector
  BY AreaCut DEF HomeInv
<1>3. CASE IsCut(n)
  <2>1. /\ blk' = n.ori + n.cnt /\ bios' \in Seq(BioSet) /\ CutOff(1, n.cnt * K)
        /\ bios'[Len(bios) + 1].at = (n.rep + (blk - n.ori)) * K + sector
    BY <1>2, <1>3, Zenon
  <2> QED BY <1>1, <1>3, <2>1, AreaCutHome
<1>4. CASE ~ IsCut(n)
  <2>1. /\ blk' = n.ori + n.cnt /\ Onwards /\ \A j \in DOMAIN bios \ {1} : bios'[j] = bios[j]
        /\ bios'[1].at = (n.rep + (blk - n.ori)) * K + sector
    BY <1>2, <1>4, Zenon
  <2> QED BY <1>1, <1>4, <2>1, AreaLastHome
<1> QED BY <1>3, <1>4

(* An area that begins in the middle is the last, so that bio_split has    *)
(* more than the area's sectors.                                           *)
LEMMA AreaBugHome ==
  ASSUME HomeInv, MapsOnce, AreaBug
  PROVE  HomeInv'
<1>1. EndInv'
  BY ReturnEnd DEF HomeInv
<1>2. /\ pc = "area" /\ blk <= EndBlk /\ pc' = "done" /\ fault'
      /\ UNCHANGED <<table, user, bios, blk, sector, cut, moved>>
  BY DEF AreaBug, Bug, loop, done
<1>3. PICK n \in At(blk) : IsCut(n) /\ ~ CanSplit(1, n.cnt * K)
  BY DEF AreaBug
<1>4. /\ n.ori \in Nat /\ n.rep \in Nat /\ n.cnt \in Nat \ {0}
      /\ n.ori <= blk /\ blk < n.ori + n.cnt
  BY AreaTypes DEF HomeInv, EndInv
<1>5. EndBlk \in Int /\ blk \in Nat /\ StartBlk \in Nat /\ K \in Nat \ {0}
  BY UserTypes, Lengths DEF HomeInv, EndInv, TypeOK
<1>6. n.ori + n.cnt <= EndBlk
  BY <1>3, <1>4, <1>5 DEF IsCut
<1>7. ~ Straight
  <2> SUFFICES ASSUME Straight PROVE FALSE
    OBVIOUS
  <2>1. /\ bios[1].size = (EndBlk + 1 - blk) * K
        /\ n.ori = blk \/ EndBlk < n.ori + n.cnt
    BY <1>2 DEF HomeInv, Begun
  <2>2. n.cnt + 1 <= EndBlk + 1 - blk
    BY <1>4, <1>5, <1>6, <2>1
  <2>3. (n.cnt + 1) * K <= (EndBlk + 1 - blk) * K
    <3>1. n.cnt + 1 \in Int /\ EndBlk + 1 - blk \in Int /\ K \in Nat
      BY <1>4, <1>5
    <3> QED BY <2>2, <3>1, Monotonic
  <2>4. (n.cnt + 1) * K = n.cnt * K + 1 * K /\ n.cnt * K \in Int /\ 1 * K = K
    BY <1>4, <1>5, Distributive
  <2> DEFINE x == (n.cnt + 1) * K
             y == n.cnt * K
             w == (EndBlk + 1 - blk) * K
  <2>5. ~ (y < w)
    BY <1>3, <2>1 DEF CanSplit
  <2>6. x <= w /\ x = y + K /\ y \in Int /\ w \in Int
    <3>1. w \in Int
      <4>1. EndBlk + 1 - blk \in Int /\ K \in Int
        BY <1>5
      <4> QED BY <4>1, Distributive
    <3> QED BY <2>3, <2>4, <3>1
  <2> HIDE DEF x, y, w
  <2> QED BY <1>5, <2>5, <2>6
<1>8. ~ OneArea
  <2> SUFFICES ASSUME OneArea PROVE FALSE
    OBVIOUS
  <2>1. blk = StartBlk
    BY <1>2 DEF HomeInv, Begun
  <2>2. PICK m \in At(blk) : EndBlk < m.ori + m.cnt
    BY <2>1 DEF OneArea
  <2>3. m = n
    BY <1>5, OnlyArea DEF HomeInv, EndInv
  <2> QED BY <1>4, <1>5, <1>6, <2>2, <2>3
<1>9. /\ Straight' <=> Straight
      /\ OneArea' <=> OneArea
      /\ EndBlk' = EndBlk
  BY <1>2, SameRight
<1>10. Begun'
  BY <1>2, <1>7, <1>8, <1>9 DEF Begun
<1>11. Homed'
  BY <1>2, <1>9, InPlaceHomed DEF HomeInv, InPlace, Placed
<1> QED BY <1>1, <1>10, <1>11 DEF HomeInv

LEMMA StripeHome ==
  ASSUME HomeInv, Stripe
  PROVE  HomeInv'
<1>1. EndInv'
  BY StripeEnd DEF HomeInv
<1> DEFINE q == T * K
           i == cut.bio
<1>2. /\ bios' \in Seq(BioSet) /\ CutOff(i, q)
      /\ bios'[i].at = bios[i].at + q /\ bios'[Len(bios) + 1].at = bios[i].at
  BY StripeCut DEF HomeInv
<1> HIDE DEF q
<1>3. pc = "stripe" /\ UNCHANGED <<table, user, pc, blk, sector, moved, ended, fault>>
  BY DEF Stripe, done
<1>4. Placed(i) /\ (blk <= EndBlk => i # 1)
  BY <1>3, UserTypes DEF HomeInv, EndInv, TypeOK, Held, Placed
<1>5. /\ Straight' <=> Straight
      /\ OneArea' <=> OneArea
      /\ EndBlk' = EndBlk /\ StartBlk' = StartBlk
  BY <1>3, SameRight
<1>6. Placed(1)' => Placed(1)
  BY <1>3, <1>5 DEF Placed
<1> HIDE DEF i
<1>7. Homed'
  BY <1>2, <1>3, <1>4, <1>6, CutHomed DEF HomeInv, EndInv
<1>8. blk <= EndBlk => bios'[1] = bios[1]
  BY <1>2, <1>4 DEF CutOff, HomeInv, EndInv, Tree, Family
<1>9. At(blk)' = At(blk)
  BY <1>3 DEF At
<1>10. Begun'
  BY <1>3, <1>5, <1>8, <1>9 DEF HomeInv, Begun
<1> QED BY <1>1, <1>7, <1>10 DEF HomeInv

(* The steps that cut and aim nothing.                                     *)
LEMMA LeaveHome ==
  ASSUME HomeInv, Through \/ Return \/ LastPart \/ UNCHANGED vars
  PROVE  HomeInv'
<1>1. EndInv'
  BY ThroughEnd, ReturnEnd, LastPartEnd DEF HomeInv
<1>2. UNCHANGED <<table, user, blk, sector, moved, fault>>
  BY DEF Through, Return, LastPart, vars, loop, done
<1>3. InPlace
  <2>1. Through \/ LastPart => \E i \in DOMAIN bios : bios' = Sent(bios, i) \/ bios' = bios
    BY DEF Through, LastPart, HomeInv, EndInv, Tree, Family, Held
  <2>2. CASE bios' = bios
    BY <1>2, <2>2 DEF InPlace
  <2>3. CASE \E i \in DOMAIN bios : bios' = Sent(bios, i)
    <3>1. PICK i \in DOMAIN bios : bios' = Sent(bios, i)
      BY <2>3
    <3>2. bios \in Seq(BioSet) /\ bios[i] \in BioSet
      BY DEF HomeInv, EndInv, TypeOK
    <3>3. /\ DOMAIN bios' = DOMAIN bios
          /\ \A j \in DOMAIN bios \ {i} : bios'[j] = bios[j]
          /\ bios'[i] = [bios[i] EXCEPT !.state = "sent"]
      BY <3>1, <3>2, SentBios
    <3>4. bios'[i].from = bios[i].from /\ bios'[i].at = bios[i].at /\ bios'[i].size = bios[i].size
      BY <3>2, <3>3 DEF BioSet
    <3> QED BY <1>2, <3>3, <3>4 DEF InPlace
  <2> QED BY <2>1, <2>2, <2>3 DEF Return, vars
<1>4. /\ \A s, p : Right(s, p)' <=> Right(s, p)
      /\ Straight' <=> Straight
      /\ OneArea' <=> OneArea
      /\ EndBlk' = EndBlk /\ StartBlk' = StartBlk
      /\ PassedAsIs' <=> PassedAsIs
  BY <1>2, SameRight
<1>5. Homed'
  <2>1. CASE Through
    <3>1. ~ Straight /\ ~ OneArea
      BY <2>1 DEF Through, Straight, OneArea
    <3>2. \A s, p : Right(s, p)'
      BY <1>4, <3>1 DEF Right
    <3> QED BY <3>2 DEF Homed, Goes
  <2>2. CASE ~ Through
    <3>1. Placed(1)' => Placed(1)
      BY <1>2, <1>4, <2>2 DEF Placed, Return, LastPart, vars
    <3> QED BY <1>2, <1>3, <3>1, InPlaceHomed DEF HomeInv
  <2> QED BY <2>1, <2>2
<1>6. At(blk)' = At(blk)
  BY <1>2 DEF At
<1>7. bios'[1].from = bios[1].from /\ bios'[1].size = bios[1].size
  BY <1>3 DEF InPlace, HomeInv, EndInv, Tree, Family
<1>8. Begun'
  <2>1. CASE Through
    BY <1>2, <1>4, <2>1 DEF HomeInv, Begun, Through
  <2>2. CASE Return
    BY <1>2, <1>4, <2>2 DEF HomeInv, Begun, Return
  <2>3. CASE LastPart
    <3>1. pc = "stripe" /\ pc' = "area"
      BY <2>3 DEF LastPart
    <3> QED BY <1>2, <1>4, <1>6, <1>7, <3>1 DEF HomeInv, Begun
  <2>4. CASE UNCHANGED vars
    BY <1>2, <1>4, <1>6, <1>7, <2>4 DEF HomeInv, Begun, vars
  <2> QED BY <2>1, <2>2, <2>3, <2>4
<1> QED BY <1>1, <1>5, <1>8 DEF HomeInv

(* The device transfers only what is placed.                               *)
LEMMA TransferHome ==
  ASSUME HomeInv, NEW i \in DOMAIN bios, Transfer(i)
  PROVE  HomeInv'
<1>1. EndInv'
  BY TransferEnd DEF HomeInv
<1>2. /\ DOMAIN bios' = DOMAIN bios
      /\ \A j \in DOMAIN bios :
           bios'[j].from = bios[j].from /\ bios'[j].at = bios[j].at /\ bios'[j].size = bios[j].size
      /\ moved' = moved \union
              { <<bios[i].from + k, bios[i].at + k>> : k \in 0 .. (bios[i].size - 1) }
      /\ bios[i].state = "sent"
      /\ UNCHANGED <<table, user, pc, blk, sector, cut, ended, fault>>
  BY TransferEffect DEF HomeInv
<1>3. /\ \A s, p : Right(s, p)' <=> Right(s, p)
      /\ Straight' <=> Straight
      /\ OneArea' <=> OneArea
      /\ EndBlk' = EndBlk /\ StartBlk' = StartBlk
      /\ PassedAsIs' <=> PassedAsIs
  BY <1>2, SameRight
<1>4. At(blk)' = At(blk)
  BY <1>2 DEF At
<1>5. Begun'
  BY <1>2, <1>3, <1>4 DEF HomeInv, Begun, EndInv, Tree, Family
<1>6. PassedAsIs \/ Placed(i)
  <2>1. i = 1 => pc # "collect" /\ ~ (pc \in {"area", "stripe"} /\ blk <= EndBlk) /\ ~ fault
    BY <1>2 DEF HomeInv, EndInv, Held
  <2>2. blk \in Nat /\ EndBlk \in Int /\ pc \in {"collect", "area", "stripe", "done"}
    BY UserTypes DEF HomeInv, EndInv, TypeOK
  <2>3. i = 1 /\ pc = "done" => PassedAsIs \/ blk > EndBlk
    BY <2>1 DEF HomeInv, Begun
  <2>4. i = 1 /\ pc # "done" => blk > EndBlk
    BY <2>1, <2>2
  <2> QED BY <2>1, <2>3, <2>4 DEF Placed
<1>7. \A k \in 0 .. (bios[i].size - 1) : Right(bios[i].from + k, bios[i].at + k)
  <2>1. CASE Placed(i)
    BY <2>1 DEF HomeInv, Homed, Goes
  <2>2. CASE PassedAsIs
    <3>1. ~ Straight /\ ~ OneArea
      BY <2>2 DEF Straight, OneArea
    <3> QED BY <3>1 DEF Right
  <2> QED BY <1>6, <2>1, <2>2
<1>8. Homed'
  <2>1. ASSUME NEW m \in moved' PROVE Right(m[1], m[2])
    <3>1. CASE m \in moved
      BY <3>1 DEF HomeInv, Homed
    <3>2. CASE m \notin moved
      <4>1. PICK k \in 0 .. (bios[i].size - 1) : m = <<bios[i].from + k, bios[i].at + k>>
        BY <1>2, <2>1, <3>2
      <4> QED BY <1>7, <4>1
    <3> QED BY <3>1, <3>2
  <2>2. ASSUME NEW j \in DOMAIN bios', Placed(j)'
        PROVE  \A k \in 0 .. (bios'[j].size - 1) : Right(bios'[j].from + k, bios'[j].at + k)
    <3>1. j \in DOMAIN bios /\ Placed(j)
      BY <1>2, <1>3, <2>2 DEF Placed
    <3> QED BY <1>2, <3>1 DEF HomeInv, Homed, Goes
  <2> QED BY <1>3, <2>1, <2>2 DEF Homed, Goes
<1> QED BY <1>1, <1>5, <1>8 DEF HomeInv

LEMMA EndHome ==
  ASSUME HomeInv, NEW i \in DOMAIN bios, End(i)
  PROVE  HomeInv'
<1>1. EndInv'
  BY EndEnd DEF HomeInv
<1>2. InPlace /\ UNCHANGED <<pc, blk, sector, moved, fault>>
  BY EndEffect DEF HomeInv, InPlace
<1>3. /\ Straight' <=> Straight
      /\ OneArea' <=> OneArea
      /\ EndBlk' = EndBlk /\ StartBlk' = StartBlk
      /\ PassedAsIs' <=> PassedAsIs
  BY <1>2, SameRight DEF InPlace
<1>4. Homed'
  BY <1>2, <1>3, InPlaceHomed DEF HomeInv, Placed
<1>5. At(blk)' = At(blk)
  BY <1>2 DEF At, InPlace
<1>6. Begun'
  BY <1>2, <1>3, <1>5 DEF HomeInv, Begun, InPlace, EndInv, Tree, Family
<1> QED BY <1>1, <1>4, <1>6 DEF HomeInv

LEMMA FreshHome ==
  ASSUME EndInv, bios = << Bio(0, user.sector, user.size, 0) >>, pc = "collect", moved = {},
         fault = FALSE
  PROVE  HomeInv
  BY DEF HomeInv, Begun, Homed, Placed, Bio

LEMMA SubmitHome ==
  ASSUME HomeInv, Submit
  PROVE  HomeInv'
<1>1. EndInv'
  BY SubmitEnd DEF HomeInv
<1>2. ~ fault
  BY DEF HomeInv, EndInv, Held, EndedOver, Submit
<1>3. /\ bios' = << Bio(0, user'.sector, user'.size, 0) >> /\ pc' = "collect" /\ moved' = {}
      /\ fault' = FALSE
  BY <1>2 DEF Submit, HomeInv, EndInv, TypeOK
<1>4. (EndInv /\ bios = << Bio(0, user.sector, user.size, 0) >> /\ pc = "collect" /\ moved = {}
        /\ fault = FALSE => HomeInv)'
  BY FreshHome, PTL
<1> QED BY <1>1, <1>3, <1>4

LEMMA NextHome ==
  ASSUME HomeInv, MapsOnce, [Next]_vars
  PROVE  HomeInv'
<1>1. CASE Loops
  BY <1>1, LeaveHome, CollectHome, AreaHome, AreaBugHome, StripeHome DEF Loops
<1>2. CASE Device
  BY <1>2, TransferHome, EndHome DEF Device
<1>3. CASE Submit
  BY <1>3, SubmitHome
<1>4. CASE Wait \/ UNCHANGED vars
  BY <1>4, LeaveHome DEF Wait
<1> QED BY <1>1, <1>2, <1>3, <1>4 DEF Next

LEMMA HomeInvariant == ASSUME MapsOnce PROVE Spec => []HomeInv
<1>1. Init => HomeInv
  BY InitEnd, FreshHome DEF Init
<1>2. HomeInv /\ [Next]_vars => HomeInv'
  BY NextHome
<1> QED BY <1>1, <1>2, PTL DEF Spec

(* A bio of whole blocks that begins with an area, or lies in one, goes to *)
(* its blocks' homes, whatever the areas and the stripes cut it into.      *)
THEOREM WholeBiosGoHome == ASSUME MapsOnce PROVE Spec => []GoesHome
<1>1. HomeInv => GoesHome
  BY DEF HomeInv, Begun, Homed, GoesHome, Right, Straight
<1> QED BY <1>1, HomeInvariant, PTL

(* A bio that lies in one area is transferred in one piece of the device,  *)
(* counted from the area's first block: also what is behind its last whole *)
(* block, which goes to the physical block behind.                         *)
THEOREM OneAreaIsStraight == ASSUME MapsOnce PROVE Spec => []SpillsBehind
<1>1. HomeInv => SpillsBehind
  <2> SUFFICES ASSUME HomeInv, OneArea, NEW m \in moved, NEW n \in At(StartBlk)
               PROVE  m[2] = (n.rep - n.ori) * K + (user.sector + m[1])
    BY DEF SpillsBehind, OneArea
  <2> QED BY DEF HomeInv, Homed, Right
<1> QED BY <1>1, HomeInvariant, PTL
=============================================================================
