------------------------------ MODULE Reissue ------------------------------
(***************************************************************************)
(* One bio on its way through re_request_bio and hypraid_make_request, in  *)
(* sectors: how it is cut at the areas that map its blocks and then at the *)
(* stripes, where the pieces go, and when its submitter hears of its end.  *)
(* The pieces are chained to the bio they are cut from, the device does    *)
(* them in any order, even while the loops still cut, and a bio ends when  *)
(* it and all that were chained to it have been done.                      *)
(*                                                                         *)
(* hypraid_insert_block_area has run: the table maps every block of the    *)
(* bio that re_request_bio looks for.                                      *)
(***************************************************************************)
EXTENDS Integers, Sequences

CONSTANTS
  K,       \* SECTS_PER_BLK
  T,       \* DM_HYRAID_TARGET_SIZE
  Tables,  \* tables of areas: which logical blocks are on which physical ones
  Bios     \* the bios: their first sector, their sectors, discard or not

Areas == [ori : Nat, rep : Nat, cnt : Nat \ {0}]

ASSUME ReissueAssumption ==
  /\ K \in Nat \ {0} /\ T \in Nat \ {0}
  /\ Tables \subseteq SUBSET Areas
  /\ Bios \subseteq [sector : Nat, size : Nat \ {0}, discard : BOOLEAN]

VARIABLES
  table,  \* the areas
  user,   \* the bio as it was submitted
  bios,   \* it and the pieces cut from it, each a record as below
  pc,     \* the function that runs
  blk,    \* i in re_request_bio
  sector, \* sector in re_request_bio
  cut,    \* hypraid_make_request: its bio, its nT - i, and whether it has a tail
  moved,  \* pairs of a sector of the bio and where it was transferred
  ended,  \* the submitter has been told
  fault   \* bio_split's BUG_ON

loop == <<blk, sector, cut>>
done == <<moved, ended>>
vars == <<table, user, bios, pc, loop, done, fault>>

(* A bio: sectors from .. from+size-1 of the user's, to be transferred to  *)
(* the sectors from at; remaining and parent are those of bio_chain.       *)
Bio(f, a, n, p) ==
  [from |-> f, at |-> a, size |-> n, remaining |-> 1, parent |-> p, state |-> "held"]

NoCut == [bio |-> 0, left |-> 0, tail |-> FALSE]

StartBlk == user.sector \div K

EndBlk == (user.sector + user.size) \div K - 1

At(b) == { n \in table : n.ori <= b /\ b < n.ori + n.cnt }

-----------------------------------------------------------------------------
(* A submitter has a bio for blocks that the table maps.                   *)
Init ==
  /\ table \in Tables
  /\ user \in Bios
  /\ \A b \in StartBlk .. EndBlk : At(b) # {}
  /\ bios = << Bio(0, user.sector, user.size, 0) >>
  /\ pc = "collect"
  /\ blk = 0 /\ sector = 0 /\ cut = NoCut
  /\ moved = {}
  /\ ended = FALSE
  /\ fault = FALSE

(* g_make_request_fn                                                       *)
Sent(bs, i) == [bs EXCEPT ![i].state = "sent"]

(* bio_split of n sectors off the front of bio i, and bio_chain, which     *)
(* counts the piece in remaining; without it the pieces end on their own.  *)
Rest(b, n) == [b EXCEPT !.from = b.from + n, !.at = b.at + n, !.size = b.size - n]

SplitUnchained(bs, i, n) ==
  Append([bs EXCEPT ![i] = Rest(bs[i], n)], Bio(bs[i].from, bs[i].at, n, i))

Split(bs, i, n) ==
  Append([bs EXCEPT ![i] = [Rest(bs[i], n) EXCEPT !.remaining = bs[i].remaining + 1]],
         Bio(bs[i].from, bs[i].at, n, i))

CanSplit(i, n) == n < bios[i].size

Bug ==
  /\ fault' = TRUE
  /\ pc' = "done"
  /\ UNCHANGED <<table, user, bios, loop, done>>

(* hypraid_bio_collect: discards, and bios that hold no whole block, go to *)
(* the device as they are.                                                 *)
PassedAsIs == user.discard \/ EndBlk < StartBlk

Through ==
  /\ pc = "collect" /\ PassedAsIs
  /\ bios' = Sent(bios, 1)
  /\ pc' = "done"
  /\ UNCHANGED <<table, user, loop, done, fault>>

Collect ==
  /\ pc = "collect" /\ ~ PassedAsIs
  /\ blk' = StartBlk
  /\ sector' = user.sector % K
  /\ pc' = "area"
  /\ UNCHANGED <<table, user, bios, cut, done, fault>>

-----------------------------------------------------------------------------
(* re_request_bio, one area: unless it is the last, as many sectors as the *)
(* area has are split off; the piece, or what is left of the bio, is aimed *)
(* at the area's blocks.  Slips: at the area's first block, or without the *)
(* offset of a bio that begins within a block.                             *)
IsCut(n) == n.ori + n.cnt - 1 < EndBlk

AimAtFirst(bs, i, n) == [bs EXCEPT ![i].at = n.rep * K + sector]

AimAligned(bs, i, n) == [bs EXCEPT ![i].at = (n.rep + (blk - n.ori)) * K]

Aim(bs, i, n) == [bs EXCEPT ![i].at = (n.rep + (blk - n.ori)) * K + sector]

(* What hypraid_make_request does with a bio of n sectors at a.  Its rest  *)
(* goes out when its last block is not the first of a stripe; with a last  *)
(* block for a count of blocks, the ones at the end of a stripe would not. *)
LastBlk(a, n) == (a + n) \div K - 1

HasTailBehind(E) == (E + 1) % T # 0

HasTail(E) == E % T # 0

Stripes(i, a, n) ==
  LET S    == a \div K
      E    == LastBlk(a, n)
      one  == S \div T = E \div T
      rest == (E - S + 1) - (T - (S % T) + (E % T))
  IN  [ bio  |-> i,
        left |-> IF one \/ rest < 0 THEN 0 ELSE rest \div T,
        tail |-> one \/ HasTail(E) ]

Area ==
  /\ pc = "area" /\ blk <= EndBlk
  /\ \E n \in At(blk) :
       /\ IsCut(n) => CanSplit(1, n.cnt * K)
       /\ LET i  == IF IsCut(n) THEN Len(bios) + 1 ELSE 1
              bs == Aim(IF IsCut(n) THEN Split(bios, 1, n.cnt * K) ELSE bios, i, n)
          IN  /\ bios' = bs
              /\ cut' = Stripes(i, bs[i].at, bs[i].size)
       /\ blk' = n.ori + n.cnt
  /\ pc' = "stripe"
  /\ sector' = 0
  /\ UNCHANGED <<table, user, done, fault>>

AreaBug ==
  /\ pc = "area" /\ blk <= EndBlk
  /\ \E n \in At(blk) : IsCut(n) /\ ~ CanSplit(1, n.cnt * K)
  /\ Bug

Return ==
  /\ pc = "area" /\ blk > EndBlk
  /\ pc' = "done"
  /\ UNCHANGED <<table, user, bios, loop, done, fault>>

(* hypraid_make_request: whole stripes are split off and sent, and then    *)
(* the rest, unless its last block begins a stripe: then it is kept.  Here *)
(* the pieces are always shorter than the bio: otherwise it would be stuck.*)
Stripe ==
  /\ pc = "stripe" /\ cut.left > 0
  /\ CanSplit(cut.bio, T * K)
  /\ bios' = Sent(Split(bios, cut.bio, T * K), Len(bios) + 1)
  /\ cut' = [cut EXCEPT !.left = @ - 1]
  /\ UNCHANGED <<table, user, pc, blk, sector, done, fault>>

LastPart ==
  /\ pc = "stripe" /\ cut.left = 0
  /\ bios' = IF cut.tail THEN Sent(bios, cut.bio) ELSE bios
  /\ cut' = NoCut
  /\ pc' = "area"
  /\ UNCHANGED <<table, user, blk, sector, done, fault>>

-----------------------------------------------------------------------------
(* The device transfers a bio, and bio_endio counts: who comes to zero is  *)
(* over and counts in the bio it was cut from, up to the submitter's.      *)
Transfer(i) ==
  /\ bios[i].state = "sent"
  /\ moved' = moved \union
       { <<bios[i].from + k, bios[i].at + k>> : k \in 0 .. (bios[i].size - 1) }
  /\ bios' = [bios EXCEPT ![i].state = "moved", ![i].remaining = @ - 1]
  /\ UNCHANGED <<table, user, pc, loop, ended, fault>>

End(i) ==
  /\ bios[i].remaining = 0 /\ bios[i].state # "over"
  /\ LET bs == [bios EXCEPT ![i].state = "over"]
         p  == bios[i].parent
     IN  IF p = 0 THEN bios' = bs /\ ended' = TRUE
         ELSE bios' = [bs EXCEPT ![p].remaining = @ - 1] /\ ended' = ended
  /\ UNCHANGED <<table, user, pc, loop, moved, fault>>

(* The submitter's next bio.                                               *)
Submit ==
  /\ pc = "done" /\ ended
  /\ user' \in Bios
  /\ \A b \in StartBlk' .. EndBlk' : At(b) # {}
  /\ bios' = << Bio(0, user'.sector, user'.size, 0) >>
  /\ pc' = "collect"
  /\ blk' = 0 /\ sector' = 0 /\ cut' = NoCut
  /\ moved' = {} /\ ended' = FALSE
  /\ UNCHANGED <<table, fault>>

(* hypraid_make_request has kept the rest of a bio: it stays for ever.     *)
Kept ==
  \E i \in DOMAIN bios :
    /\ pc = "done" /\ bios[i].state = "held" /\ bios[i].remaining = 1
    /\ LastBlk(bios[i].at, bios[i].size) % T = 0

(* The submitter waits.                                                    *)
Wait == pc = "done" /\ ~ ended /\ UNCHANGED vars

Loops == Through \/ Collect \/ Area \/ AreaBug \/ Return \/ Stripe \/ LastPart

Device == \E i \in DOMAIN bios : Transfer(i) \/ End(i)

Next == Loops \/ Device \/ Submit \/ Wait

Spec == Init /\ [][Next]_vars

(* The thread runs on, and the device does what it is sent.                *)
FairSpec == Spec /\ WF_vars(Loops) /\ WF_vars(Device)

-----------------------------------------------------------------------------
(* The submitter is told only when every sector of its bio has been        *)
(* transferred, however the pieces overtake each other.                    *)
EndsAfterTransfers ==
  ended => { m[1] : m \in moved } = 0 .. (user.size - 1)

(* Where a sector of a logical block is.                                   *)
HomeOf(s) == { (n.rep - n.ori) * K + s : n \in At(s \div K) }

WholeBlocks == user.sector % K = 0 /\ user.size % K = 0

StartsClean ==
  \E n \in At(StartBlk) : n.ori = StartBlk \/ EndBlk < n.ori + n.cnt

(* A bio of whole blocks that begins with an area, or lies in one, is      *)
(* transferred to its blocks' homes, over all the cuts.                    *)
GoesHome ==
  ~ PassedAsIs /\ WholeBlocks /\ StartsClean =>
    /\ ~ fault
    /\ \A m \in moved : m[2] \in HomeOf(user.sector + m[1])

(* A bio that begins or ends within a block and stays in one area: its     *)
(* whole blocks and the begun first one go home, and what is behind the    *)
(* last whole block goes to the physical block behind that, whoever has it *)
SpillsBehind ==
  ~ PassedAsIs /\ (\E n \in At(StartBlk) : EndBlk < n.ori + n.cnt) =>
    \A m \in moved :
      LET s == user.sector + m[1]
      IN  \A n \in At(StartBlk) : m[2] = (n.rep - n.ori) * K + s

(* Every bio ends, unless its cutting failed or the rest of a piece whose  *)
(* last block begins a stripe was kept.                                    *)
BiosEnd == pc = "collect" ~> (ended \/ Kept \/ fault)
=============================================================================
