--------------------------- MODULE StripesProofs ---------------------------
(***************************************************************************)
(* The stripe loops move what they should, for every start and length:     *)
(* the pages sent so far are the first ones, in step with the blocks, and  *)
(* the parts still to come add up to what is left.                         *)
(***************************************************************************)
EXTENDS Stripes, TLAPS

Prefix(n) == { <<k, start + k>> : k \in 0 .. (n - 1) }

(* What the two loops know of their cursor, and how far they get.          *)
MoveInv ==
  /\ phase \in {"first", "whole", "done"}
  /\ phase = "first" => page = 0 /\ i = 0
  /\ phase = "whole" => i <= WholeStripes /\ page + (WholeStripes - i) * 16 + ET = cnt
  /\ phase = "done" => page = cnt

OneStripe == start \div T = Last \div T

BioInv ==
  /\ phase \in {"whole", "uncut", "done"}
  /\ phase = "uncut" => page = 0 /\ OneStripe
  /\ phase = "whole" => ~ OneStripe /\ i <= BioWholeStripes /\ page = i * 16
  /\ phase = "done" =>
       page = IF OneStripe \/ Last % T # 0 THEN cnt ELSE BioWholeStripes * 16

IInv ==
  /\ pc \in {"ready", "move", "bio"}
  /\ pc = "ready" => phase = "none"
  /\ start \in Nat /\ cnt \in Nat /\ page \in Nat /\ i \in Nat
  /\ blk = start + page
  /\ pc # "ready" => cnt > 0
  /\ sent = Prefix(page)
  /\ pc = "move" => MoveInv
  /\ pc = "bio" => BioInv

-----------------------------------------------------------------------------
(* A cursor that starts at the range's first block.                        *)
LEMMA PlusZero == ASSUME NEW n \in Nat PROVE n + 0 = n
  OBVIOUS

(* The first part and the whole stripes leave exactly the last part.       *)
LEMMA MoveParts ==
  ASSUME start \in Nat, cnt \in Nat, cnt > 0
  PROVE  /\ ST \in 1 .. cnt /\ ET \in Nat /\ WholeStripes \in Nat
         /\ ST + WholeStripes * 16 + ET = cnt
<1>1. CASE SameStripe
  BY <1>1 DEF ST, ET, WholeStripes, SameStripe, End, T
<1>2. CASE ~ SameStripe
  BY <1>2 DEF ST, ET, WholeStripes, SameStripe, End, T
<1> QED BY <1>1, <1>2

(* The whole stripes of a bio that spans a boundary are fewer blocks than  *)
(* it has.                                                                 *)
LEMMA WholeStripesFit ==
  ASSUME NEW s \in Nat, NEW n \in Nat, n > 0, s \div 16 # (s + n - 1) \div 16
  PROVE  LET w == (n - (16 - (s % 16) + ((s + n - 1) % 16))) \div 16
         IN  w \in Nat /\ w * 16 < n
  OBVIOUS

(* The same in the terms of the loop of hypraid_make_request.              *)
LEMMA BioParts ==
  ASSUME start \in Nat, cnt \in Nat, cnt > 0, ~ OneStripe
  PROVE  BioWholeStripes \in Nat /\ BioWholeStripes * 16 < cnt
  BY DEF OneStripe, BioWholeStripes, Last, T

(* One more bio from the cursors makes the prefix longer.                  *)
LEMMA Extend ==
  ASSUME start \in Nat, page \in Nat, blk = start + page, sent = Prefix(page),
         NEW n \in Nat, SendFrom(n), UNCHANGED start
  PROVE  page' = page + n /\ blk' = start' + page' /\ sent' = Prefix(page)' /\ page' \in Nat
<1>1. page' = page + n /\ blk' = start' + page' /\ page' \in Nat
  BY DEF SendFrom
<1>2. ASSUME NEW k \in 0 .. (page + n - 1)
      PROVE  <<k, start + k>> \in sent'
  <2>1. CASE k < page
    BY <2>1 DEF SendFrom, Prefix
  <2>2. CASE k >= page
    <3>1. k - page \in 0 .. (n - 1) /\ page + (k - page) = k /\ blk + (k - page) = start + k
      BY <2>2
    <3> QED BY <3>1 DEF SendFrom
  <2> QED BY <2>1, <2>2
<1>3. ASSUME NEW x \in sent'
      PROVE  \E k \in 0 .. (page + n - 1) : x = <<k, start + k>>
  <2>1. CASE x \in sent
    BY <2>1 DEF Prefix
  <2>2. CASE x \notin sent
    <3>1. PICK k \in 0 .. (n - 1) : x = <<page + k, blk + k>>
      BY <2>2 DEF SendFrom
    <3>2. page + k \in 0 .. (page + n - 1) /\ blk + k = start + (page + k)
      BY <3>1
    <3> QED BY <3>1, <3>2
  <2> QED BY <2>1, <2>2
<1>4. sent' = { <<k, start + k>> : k \in 0 .. (page + n - 1) }
  BY <1>2, <1>3
<1> QED BY <1>1, <1>4 DEF Prefix

-----------------------------------------------------------------------------
LEMMA InitIInv == Init => IInv
  BY DEF Init, IInv, Prefix

(* A step of either loop keeps its half of the invariant.                  *)
LEMMA NextIInv == IInv /\ [Next]_vars => IInv'
<1> SUFFICES ASSUME IInv, [Next]_vars PROVE IInv'
  OBVIOUS
<1>1. CASE Move
  <2>1. /\ pc' = "move" /\ phase' = "first" /\ start' \in Nat /\ cnt' \in Nat
        /\ cnt' > 0 /\ blk' = start' /\ page' = 0 /\ i' = 0 /\ sent' = {}
    BY <1>1 DEF Move, Begin
  <2>2. sent' = Prefix(page)'
    BY <2>1 DEF Prefix
  <2>3. MoveInv'
    BY <2>1 DEF MoveInv
  <2>4. blk' = start' + page' /\ page' \in Nat /\ i' \in Nat
    <3>1. start' \in Nat
      BY <2>1
    <3>2. start' + 0 = start'
      BY <3>1, PlusZero
    <3> QED BY <2>1, <3>2
  <2>5. pc' = "move" /\ start' \in Nat /\ cnt' \in Nat /\ cnt' > 0
    BY <2>1
  <2> QED BY <2>2, <2>3, <2>4, <2>5 DEF IInv
<1>2. CASE MoveFirst
  <2>1. pc = "move" /\ page = 0 /\ i = 0 /\ start \in Nat /\ cnt \in Nat /\ cnt > 0
    BY <1>2 DEF MoveFirst, IInv, MoveInv
  <2>2. /\ ST \in Nat /\ ET \in Nat /\ WholeStripes \in Nat
        /\ ST + WholeStripes * 16 + ET = cnt
    BY <2>1, MoveParts
  <2>3. UNCHANGED <<pc, start, cnt, i>> /\ SendFrom(ST) /\ phase' = "whole"
    BY <1>2 DEF MoveFirst, input
  <2>4. /\ page' = page + ST /\ blk' = start' + page'
        /\ sent' = Prefix(page)' /\ page' \in Nat
    BY <2>2, <2>3, Extend DEF IInv
  <2>5. WholeStripes' = WholeStripes /\ ET' = ET
    BY <2>3 DEF WholeStripes, ET, SameStripe, End
  <2>6. MoveInv'
    BY <2>1, <2>2, <2>3, <2>4, <2>5 DEF MoveInv
  <2> QED BY <2>1, <2>3, <2>4, <2>6 DEF IInv
<1>3. CASE MoveWhole
  <2>1. /\ pc = "move" /\ phase = "whole" /\ i < WholeStripes /\ i \in Nat
        /\ page + (WholeStripes - i) * 16 + ET = cnt
        /\ start \in Nat /\ cnt \in Nat /\ cnt > 0 /\ page \in Nat
    BY <1>3 DEF MoveWhole, IInv, MoveInv
  <2>2. ET \in Nat /\ WholeStripes \in Nat
    BY <2>1, MoveParts
  <2>3. UNCHANGED <<pc, phase, start, cnt>> /\ SendFrom(16) /\ i' = i + 1
    BY <1>3 DEF MoveWhole, input, T
  <2>4. /\ page' = page + 16 /\ blk' = start' + page'
        /\ sent' = Prefix(page)' /\ page' \in Nat
    BY <2>1, <2>3, Extend DEF IInv
  <2>5. WholeStripes' = WholeStripes /\ ET' = ET
    BY <2>3 DEF WholeStripes, ET, SameStripe, End
  <2>6. page' + (WholeStripes' - i') * 16 + ET' = cnt' /\ i' <= WholeStripes'
    BY <2>1, <2>2, <2>3, <2>4, <2>5
  <2>7. MoveInv'
    BY <2>1, <2>3, <2>6 DEF MoveInv
  <2> QED BY <2>1, <2>3, <2>4, <2>7 DEF IInv
<1>4. CASE MoveLast
  <2>1. /\ pc = "move" /\ phase = "whole" /\ i >= WholeStripes /\ i <= WholeStripes
        /\ page + (WholeStripes - i) * 16 + ET = cnt /\ i \in Nat
        /\ start \in Nat /\ cnt \in Nat /\ cnt > 0 /\ page \in Nat
    BY <1>4 DEF MoveLast, IInv, MoveInv
  <2>2. ET \in Nat /\ WholeStripes \in Nat
    BY <2>1, MoveParts
  <2>3. page + ET = cnt
    BY <2>1, <2>2
  <2>4. UNCHANGED <<pc, start, cnt, i>> /\ phase' = "done"
    BY <1>4 DEF MoveLast, input
  <2>5. CASE ET # 0
    <3>1. /\ page' = page + ET /\ blk' = start' + page'
          /\ sent' = Prefix(page)' /\ page' \in Nat
      BY <1>4, <2>1, <2>2, <2>4, <2>5, Extend DEF MoveLast, IInv
    <3> QED BY <2>1, <2>3, <2>4, <3>1 DEF IInv, MoveInv
  <2>6. CASE ET = 0
    <3>1. UNCHANGED <<blk, page, sent>>
      BY <1>4, <2>6 DEF MoveLast
    <3>2. Prefix(page)' = Prefix(page)
      BY <3>1, <2>4 DEF Prefix
    <3> QED BY <2>1, <2>3, <2>4, <2>6, <3>1, <3>2 DEF IInv, MoveInv
  <2> QED BY <2>5, <2>6
<1>5. CASE Bio
  <2>1. /\ pc' = "bio" /\ start' \in Nat /\ cnt' \in Nat
        /\ cnt' > 0 /\ blk' = start' /\ page' = 0 /\ i' = 0 /\ sent' = {}
        /\ phase' = IF OneStripe' THEN "uncut" ELSE "whole"
    BY <1>5 DEF Bio, Begin, OneStripe, T
  <2>2. sent' = Prefix(page)'
    BY <2>1 DEF Prefix
  <2>3. pc' = "bio" /\ start' \in Nat /\ cnt' \in Nat /\ cnt' > 0
    BY <2>1
  <2>4. ~ OneStripe' => BioWholeStripes' \in Nat
    BY <2>3, WholeStripesFit DEF OneStripe, BioWholeStripes, Last, T
  <2>5. BioInv'
    BY <2>1, <2>4 DEF BioInv
  <2>6. blk' = start' + page' /\ page' \in Nat /\ i' \in Nat
    <3>1. start' \in Nat
      BY <2>1
    <3>2. start' + 0 = start'
      BY <3>1, PlusZero
    <3> QED BY <2>1, <3>2
  <2> QED BY <2>2, <2>3, <2>5, <2>6 DEF IInv
<1>6. CASE BioWhole
  <2>1. /\ pc = "bio" /\ phase = "whole" /\ i < BioWholeStripes /\ i \in Nat
        /\ page = i * 16 /\ ~ OneStripe
        /\ start \in Nat /\ cnt \in Nat /\ cnt > 0 /\ page \in Nat
    BY <1>6 DEF BioWhole, IInv, BioInv
  <2>2. BioWholeStripes \in Nat
    BY <2>1, BioParts
  <2>3. UNCHANGED <<pc, phase, start, cnt>> /\ SendFrom(16) /\ i' = i + 1
    BY <1>6 DEF BioWhole, input, T
  <2>4. /\ page' = page + 16 /\ blk' = start' + page'
        /\ sent' = Prefix(page)' /\ page' \in Nat
    BY <2>1, <2>3, Extend DEF IInv
  <2>5. BioWholeStripes' = BioWholeStripes /\ OneStripe' = OneStripe
    BY <2>3 DEF BioWholeStripes, Last, OneStripe
  <2>6. BioInv'
    BY <2>1, <2>2, <2>3, <2>4, <2>5 DEF BioInv
  <2> QED BY <2>1, <2>3, <2>4, <2>6 DEF IInv
<1>7. CASE BioTail
  <2>1. /\ pc = "bio" /\ phase = "whole" /\ i = BioWholeStripes /\ i \in Nat
        /\ page = i * 16 /\ ~ OneStripe
        /\ start \in Nat /\ cnt \in Nat /\ cnt > 0 /\ page \in Nat
    <3>1. i >= BioWholeStripes /\ i <= BioWholeStripes /\ i \in Nat
      BY <1>7 DEF BioTail, IInv, BioInv
    <3>2. /\ pc = "bio" /\ phase = "whole" /\ page = i * 16 /\ ~ OneStripe
          /\ start \in Nat /\ cnt \in Nat /\ cnt > 0 /\ page \in Nat
      BY <1>7 DEF BioTail, IInv, BioInv
    <3>3. BioWholeStripes \in Nat
      BY <3>2, BioParts
    <3> QED BY <3>1, <3>2, <3>3
  <2>2. BioWholeStripes \in Nat /\ page < cnt
    BY <2>1, BioParts
  <2>3. UNCHANGED <<pc, start, cnt, i>> /\ phase' = "done"
    BY <1>7 DEF BioTail, input
  <2>4. /\ BioWholeStripes' = BioWholeStripes /\ OneStripe' = OneStripe
        /\ Last' = Last
    BY <2>3 DEF BioWholeStripes, Last, OneStripe
  <2>5. CASE Last % T # 0
    <3>1. cnt - page \in Nat /\ SendFrom(cnt - page)
      BY <1>7, <2>1, <2>2, <2>5 DEF BioTail
    <3>2. /\ page' = page + (cnt - page) /\ blk' = start' + page'
          /\ sent' = Prefix(page)' /\ page' \in Nat
      BY <2>1, <2>3, <3>1, Extend DEF IInv
    <3> QED BY <2>1, <2>3, <2>4, <2>5, <3>2 DEF IInv, BioInv, T
  <2>6. CASE Last % T = 0
    <3>1. UNCHANGED <<blk, page, sent>>
      BY <1>7, <2>6 DEF BioTail
    <3>2. Prefix(page)' = Prefix(page)
      BY <3>1, <2>3 DEF Prefix
    <3> QED BY <2>1, <2>3, <2>4, <2>6, <3>1, <3>2 DEF IInv, BioInv, T
  <2> QED BY <2>5, <2>6
<1>8. CASE BioUncut
  <2>1. /\ pc = "bio" /\ page = 0 /\ OneStripe /\ start \in Nat /\ cnt \in Nat
        /\ cnt > 0 /\ i \in Nat
    BY <1>8 DEF BioUncut, IInv, BioInv
  <2>2. UNCHANGED <<pc, start, cnt, i>> /\ SendFrom(cnt) /\ phase' = "done"
    BY <1>8 DEF BioUncut, input
  <2>3. /\ page' = page + cnt /\ blk' = start' + page'
        /\ sent' = Prefix(page)' /\ page' \in Nat
    BY <2>1, <2>2, Extend DEF IInv
  <2>4. OneStripe' = OneStripe
    BY <2>2 DEF OneStripe, Last
  <2> QED BY <2>1, <2>2, <2>3, <2>4 DEF IInv, BioInv
<1>9. CASE Return
  BY <1>9 DEF Return, IInv, Prefix
<1>10. CASE UNCHANGED vars
  BY <1>10 DEF vars, IInv, MoveInv, BioInv, OneStripe, Last, BioWholeStripes,
               WholeStripes, ET, SameStripe, End, Prefix
<1> QED BY <1>1, <1>2, <1>3, <1>4, <1>5, <1>6, <1>7, <1>8, <1>9, <1>10 DEF Next

-----------------------------------------------------------------------------
(* Every page of a demoted extent is moved, to its own block, and nothing  *)
(* else is: __hypraid_block_replacement_operation_wait leaves no gap.      *)
THEOREM MoveIsComplete == Spec => []MoveComplete
<1>1. IInv => MoveComplete
  BY DEF IInv, MoveInv, MoveComplete, Prefix
<1> QED BY InitIInv, NextIInv, <1>1, PTL DEF Spec

(* hypraid_make_request passes on the blocks that Sent says, which is what *)
(* BlockArea takes it to do.                                               *)
THEOREM BioSentIsSent == Spec => []BioSent
<1>1. ASSUME IInv, pc = "bio", phase = "done"
      PROVE  sent = { <<p - start, p>> : p \in Sent(start, Last, T) }
  <2>1. start \in Nat /\ cnt \in Nat /\ cnt > 0 /\ page \in Nat /\ sent = Prefix(page)
    BY <1>1 DEF IInv
  <2>2. page = IF OneStripe \/ Last % T # 0 THEN cnt ELSE BioWholeStripes * 16
    BY <1>1 DEF IInv, BioInv
  <2>3. Sent(start, Last, T) = start .. (start + page - 1)
    <3>1. CASE OneStripe \/ Last % T # 0
      BY <2>1, <2>2, <3>1 DEF Sent, OneStripe, Last, T
    <3>2. CASE ~ (OneStripe \/ Last % T # 0)
      BY <2>1, <2>2, <3>2 DEF Sent, OneStripe, Last, T, BioWholeStripes
    <3> QED BY <3>1, <3>2
  <2>4. ASSUME NEW x \in Prefix(page)
        PROVE  \E p \in start .. (start + page - 1) : x = <<p - start, p>>
    <3>1. PICK k \in 0 .. (page - 1) : x = <<k, start + k>>
      BY <2>4 DEF Prefix
    <3>2. start + k \in start .. (start + page - 1) /\ (start + k) - start = k
      BY <2>1, <3>1
    <3> QED BY <3>1, <3>2
  <2>5. ASSUME NEW p \in start .. (start + page - 1)
        PROVE  <<p - start, p>> \in Prefix(page)
    <3>1. p - start \in 0 .. (page - 1) /\ start + (p - start) = p
      BY <2>1
    <3> QED BY <3>1 DEF Prefix
  <2> QED BY <2>1, <2>3, <2>4, <2>5
<1>2. IInv => BioSent
  BY <1>1 DEF BioSent
<1> QED BY InitIInv, NextIInv, <1>2, PTL DEF Spec


-----------------------------------------------------------------------------
(* Where the loops of a move stand: at a boundary, once the first part is  *)
(* out.                                                                    *)
LEMMA FirstPart ==
  ASSUME start \in Nat, cnt \in Nat, cnt > 0
  PROVE  start \div 16 = (start + ST - 1) \div 16
<1>1. CASE SameStripe
  BY <1>1 DEF ST, SameStripe, End, T
<1>2. CASE ~ SameStripe
  BY <1>2 DEF ST, T
<1> QED BY <1>1, <1>2

LEMMA AtBoundary ==
  ASSUME start \in Nat, cnt \in Nat, cnt > 0, page \in Nat, NEW k \in Nat,
         page + k * 16 + ET = cnt, ~ SameStripe
  PROVE  (start + page) % 16 = 0 /\ ET \in 0 .. 15
  BY DEF ET, End, T

(* Every bio of a demotion has at least one block and stays within one     *)
(* stripe, for every start and length.                                     *)
THEOREM MovesStayInStripes == Spec => MoveInStripe
<1>1. ASSUME IInv, Next, pc = "move"
      PROVE  /\ phase = "first" => blk < blk'
             /\ blk < blk' => blk \div T = (blk' - 1) \div T
  <2>1. start \in Nat /\ cnt \in Nat /\ cnt > 0 /\ page \in Nat /\ blk = start + page /\ MoveInv
    BY <1>1 DEF IInv
  <2>2. ST \in 1 .. cnt /\ ET \in Nat /\ WholeStripes \in Nat
    BY <2>1, MoveParts
  <2>3. CASE MoveFirst
    <3>1. page = 0 /\ blk' = blk + ST
      BY <2>1, <2>3 DEF MoveFirst, MoveInv, SendFrom
    <3>2. blk = start /\ blk' = start + ST
      BY <2>1, <3>1
    <3>3. start \div 16 = (start + ST - 1) \div 16
      BY <2>1, FirstPart
    <3> QED BY <2>1, <2>2, <3>2, <3>3 DEF T
  <2>4. CASE MoveWhole
    <3>1. /\ phase = "whole" /\ i < WholeStripes /\ i \in Nat /\ blk' = blk + 16
          /\ page + (WholeStripes - i) * 16 + ET = cnt
      BY <1>1, <2>1, <2>4 DEF MoveWhole, MoveInv, SendFrom, T, IInv
    <3>2. ~ SameStripe
      BY <3>1 DEF WholeStripes
    <3>3. WholeStripes - i \in Nat
      BY <2>2, <3>1
    <3>4. (start + page) % 16 = 0
      BY <2>1, <3>1, <3>2, <3>3, AtBoundary
    <3>5. blk \in Nat /\ blk % 16 = 0
      BY <2>1, <3>4
    <3>6. blk \div 16 = (blk + 16 - 1) \div 16
      BY <3>5
    <3> QED BY <3>1, <3>5, <3>6 DEF T
  <2>5. CASE MoveLast
    <3>1. /\ phase = "whole" /\ i = WholeStripes /\ i \in Nat
          /\ page + (WholeStripes - i) * 16 + ET = cnt
      BY <1>1, <2>1, <2>2, <2>5 DEF MoveLast, MoveInv, IInv
    <3>2. CASE ET = 0
      BY <2>1, <2>5, <3>1, <3>2 DEF MoveLast
    <3>3. CASE ET # 0
      <4>1. ~ SameStripe /\ blk' = blk + ET
        BY <2>5, <3>3 DEF MoveLast, SendFrom, ET
      <4>2. page + 0 * 16 + ET = cnt
        BY <2>1, <2>2, <3>1
      <4>3. (start + page) % 16 = 0 /\ ET \in 0 .. 15
        BY <2>1, <4>1, <4>2, AtBoundary
      <4>4. blk \in Nat /\ blk % 16 = 0 /\ ET \in 1 .. 15
        BY <2>1, <3>3, <4>3
      <4>5. blk \div 16 = (blk + ET - 1) \div 16
        BY <4>4
      <4> QED BY <3>1, <4>1, <4>4, <4>5 DEF T
    <3> QED BY <3>2, <3>3
  <2>6. CASE Return
    BY <1>1, <2>1, <2>6 DEF Return, MoveInv
  <2>7. ~ (Move \/ Bio \/ BioWhole \/ BioTail \/ BioUncut)
    BY <1>1 DEF Move, Bio, Begin, BioWhole, BioTail, BioUncut
  <2> QED BY <1>1, <2>3, <2>4, <2>5, <2>6, <2>7 DEF Next
<1>2. IInv /\ [Next]_vars =>
        [pc = "move" => /\ phase = "first" => blk < blk'
                        /\ blk < blk' => blk \div T = (blk' - 1) \div T]_vars
  BY <1>1
<1> QED BY InitIInv, NextIInv, <1>2, PTL DEF Spec, MoveInStripe
=============================================================================
