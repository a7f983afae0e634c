------------------------------ MODULE Demotion ------------------------------
(***************************************************************************)
(* Several threads in the block area manager at once.  block_area.c has no *)
(* lock, and a thread that demotes an area sleeps in                       *)
(* hypraid_submit_bio_wait until its copy is read and again until it is    *)
(* written.  This module takes the mildest schedule there is: one          *)
(* processor, no preemption, so that a thread runs until it sleeps, and    *)
(* what other threads do while it sleeps is all the concurrency there is.  *)
(* Allocations of memory are taken not to sleep: vmalloc does when memory  *)
(* is short, also between the pop of an area and its copy and while a free *)
(* extent is being filed.                                                  *)
(*                                                                         *)
(* Requests are of one block, so that an area is a pair of a logical and a *)
(* physical block and no area is split; module BlockArea has the rest.     *)
(***************************************************************************)
EXTENDS Extents, Lists

CONSTANTS
  Clients,    \* threads that submit bios, each one at a time
  Callers,    \* threads that call the REPLACEMENT_TEST ioctl
  Requests,   \* bios: the logical blocks they read or write
  Deletes,    \* logical blocks the DELETE ioctl is called with
  Evictions,  \* block counts the REPLACEMENT_TEST ioctl is called with
  Deferrals   \* whether what a thread submits inside a bio waits for its end

ASSUME DemotionAssumption ==
  /\ Clients \intersect Callers = {}
  /\ Requests \subseteq [blk : Block, write : BOOLEAN]
  /\ Deletes \subseteq Block
  /\ Evictions \subseteq Nat
  /\ Deferrals \subseteq BOOLEAN

Threads == Clients \union Callers

VARIABLES
  avail,   \* free blocks filed in each tier
  pri,     \* each tier's pri_areas list, most recently used first
  repTree, \* the areas in g_rep_area_tree
  bits,    \* blocks marked in the bitmap
  pc,      \* what each thread does next
  bio,     \* the bio each client is in
  ev,      \* each thread's active loops of hypraid_block_replacement_operation
  at,      \* the physical block a client's bio has gone to
  buf,     \* the page of each thread's copy
  fault,   \* "none", or what stopped the machine
  deferred, \* which of Deferrals this kernel does
  disk,    \* disk[p] = l: p holds the current contents of logical block l
  written, \* history: logical blocks written and not deleted
  raced,   \* history: logical blocks met by a race since they were last written
  foreign  \* history: pri list 0 was asked to unlink an area of another tier

space  == <<avail, pri, repTree, bits>>
thread == <<pc, bio, ev, at, buf>>
ghost  == <<raced, foreign>>
vars   == <<space, thread, fault, deferred, disk, written, ghost>>

NoData == -1
NoBlk  == -1
NoBio  == [blk |-> NoBlk, write |-> FALSE]

Area(l, p) == [ori |-> l, rep |-> p]
NoArea == Area(NoBlk, NoBlk)

Frame(t, n) == [src |-> t, want |-> n, area |-> NoArea, dst |-> NoBlk]

-----------------------------------------------------------------------------
(* The data structures, for areas of one block.                            *)
Listed(t) == Range(pri[t])

AllListed == UNION { Listed(t) : t \in Tiers }

At(l) == { n \in repTree : n.ori = l }

AreaFreeTight(t, n) ==
  AreaBlocks[t] - Cardinality(bits \intersect TierBlocks(t)) - n - 1

AreaFree(t, n) == AreaBlocks[t] - Cardinality(bits \intersect TierBlocks(t)) - n

PriExtract(p, n) == [t \in Tiers |-> Unlink(p[t], n)]

PriInsert(p, t, n) == [p EXCEPT ![t] = Cons(n, @)]

(* replacement_area_insert: refused when the block is mapped already, and, *)
(* with <= for < in area_insert, when the one next to it is.               *)
RepInsertClose(R, n) ==
  IF \E m \in R : m.ori \in (n.ori - 1) .. (n.ori + 1) THEN R ELSE R \union {n}

RepInsert(R, n) == IF \E m \in R : m.ori = n.ori THEN R ELSE R \union {n}

(* The erasure from tier 0's tree of an area linked in another tier's: see *)
(* module BlockArea.                                                       *)
Home(n) == { t \in Tiers : n \in Listed(t) }

Stray(n) == 0 \notin Home(n)

MayUnlink(n) == \A t \in Home(n) : t = 0 \/ Len(pri[t]) > 1

(* The first block of a free extent that available_search finds; a slip    *)
(* would take the block behind it.                                         *)
FreeBehind(t) == { x.end + 1 : x \in FirstFit(avail[t], 1) }

Free(t) == { x.start : x \in FirstFit(avail[t], 1) }

-----------------------------------------------------------------------------
(* The threads.  A thread gives up the processor only in a sleep, which it *)
(* enters with a copy's read or write and leaves, when that has landed, as *)
(* soon as no other thread runs.  A bio on the device needs no thread.     *)
Asleep == {"idle", "bio", "read", "readDone", "write", "writeDone"}

Now(c, p) ==
  /\ pc[c] = p
  /\ fault = "none"
  /\ \A d \in Threads \ {c} : pc[d] \in Asleep

Goes(c, p) == pc' = [pc EXCEPT ![c] = p]

Top(c) == Last(ev[c])

Under(c) == Front(ev[c])

Popping(c) == Now(c, "evict") /\ Top(c).area = NoArea /\ Top(c).want > 0

Placing(c) == Now(c, "evict") /\ Top(c).area # NoArea

Inside(c) == bio[c] # NoBio

(* The block a copy is under way to; areas popped and not yet placed.      *)
Copying(c) == pc[c] \in {"read", "readDone", "write"}

Filling(p) == \E c \in Threads : Copying(c) /\ Top(c).dst = p

InTransit ==
  { f.area : f \in { f \in UNION { Range(ev[c]) : c \in Threads } :
                       f.area # NoArea /\ f.dst = NoBlk } }

Loose(l) == \E m \in InTransit : m.ori = l

(* Whose contents a copy or a bio for l that lands on p destroys: if l is  *)
(* not there any more, those of whoever is there now, or is read from it.  *)
Strikes(p, l) ==
  LET read == { Top(c).area : c \in { c \in Threads : pc[c] = "read" } }
  IN  IF Area(l, p) \in repTree THEN {}
      ELSE { n.ori : n \in { n \in AllListed \union InTransit \union read : n.rep = p } }

-----------------------------------------------------------------------------
Stop(cause) ==
  /\ fault' = cause
  /\ UNCHANGED <<space, thread, disk, written, ghost>>

Init ==
  /\ avail = [t \in Tiers |-> TierBlocks(t)]
  /\ pri = [t \in Tiers |-> <<>>]
  /\ repTree = {}
  /\ bits = {}
  /\ pc = [c \in Threads |-> "idle"]
  /\ bio = [c \in Threads |-> NoBio]
  /\ ev = [c \in Threads |-> <<>>]
  /\ at = [c \in Threads |-> NoBlk]
  /\ buf = [c \in Threads |-> NoData]
  /\ fault = "none"
  /\ deferred \in Deferrals
  /\ disk = [p \in Block |-> NoData]
  /\ written = {}
  /\ raced = {}
  /\ foreign = FALSE

(* hypraid_bio_collect                                                     *)
Submit(c) ==
  /\ Now(c, "idle") /\ c \in Clients
  /\ \E r \in Requests : bio' = [bio EXCEPT ![c] = r]
  /\ Goes(c, "search")
  /\ UNCHANGED <<space, ev, at, buf, fault, disk, written, ghost>>

(* hypraid_insert_block_area: a mapped block becomes the most recent,      *)
Touch(c) ==
  /\ Now(c, "search")
  /\ \E n \in At(bio[c].blk) :
       /\ MayUnlink(n)
       /\ pri' = PriInsert(PriExtract(pri, n), 0, n)
       /\ foreign' = (foreign \/ Stray(n))
  /\ Goes(c, "issue")
  /\ UNCHANGED <<avail, repTree, bits, bio, ev, at, buf, fault, disk, written, raced>>

(* another one needs room,                                                 *)
MakeRoom(c) ==
  /\ Now(c, "search")
  /\ At(bio[c].blk) = {}
  /\ IF AreaFree(0, 1) < 0
     THEN ev' = [ev EXCEPT ![c] = <<Frame(0, -AreaFree(0, 1))>>] /\ Goes(c, "evict")
     ELSE ev' = ev /\ Goes(c, "alloc")
  /\ UNCHANGED <<space, bio, at, buf, fault, disk, written, ghost>>

(* and gets a free block, though another thread may have mapped it while   *)
(* this one slept, or hold the area that maps it.                          *)
Alloc(c) ==
  /\ Now(c, "alloc")
  /\ \E p \in Free(0) :
       LET n == Area(bio[c].blk, p)
       IN  /\ avail' = [avail EXCEPT ![0] = @ \ {p}]
           /\ bits' = bits \union {p}
           /\ pri' = PriInsert(pri, 0, n)
           /\ repTree' = RepInsert(repTree, n)
           /\ raced' = IF Loose(n.ori) THEN raced \union {n.ori} ELSE raced
  /\ Goes(c, "issue")
  /\ UNCHANGED <<bio, ev, at, buf, fault, disk, written, foreign>>

(* re_request_bio: the bio goes to where its block is by now, even if the  *)
(* contents are still on their way.                                        *)
Issue(c) ==
  /\ Now(c, "issue")
  /\ \E n \in At(bio[c].blk) :
       at' = [at EXCEPT ![c] = n.rep]
  /\ Goes(c, "bio")
  /\ UNCHANGED <<space, bio, ev, buf, fault, disk, written, ghost>>

(* The block layer keeps what a thread submits inside a bio on a list of   *)
(* the thread's until the bio is through with make_request_fn, and so for  *)
(* as long as the thread sleeps there; one list for all clients would keep *)
(* their bios, too.                                                        *)
WaitsForItself(c) == Inside(c) /\ pc[c] \in {"read", "write"}

SubmittedIfNoneWaits(c) ==
  /\ fault = "none"
  /\ ~ (deferred /\ Inside(c) /\ \E d \in Threads : WaitsForItself(d))

Submitted(c) == fault = "none" /\ ~ (deferred /\ WaitsForItself(c))

(* The device has done a bio, at any time and in any order.                *)
BioLands(c) ==
  /\ pc[c] = "bio" /\ Submitted(c)
  /\ LET l == bio[c].blk
         p == at[c]
     IN  IF bio[c].write
         THEN /\ disk' = [q \in Block |-> IF q = p THEN l
                                          ELSE IF disk[q] = l THEN NoData ELSE disk[q]]
              /\ buf' = [d \in Threads |-> IF buf[d] = l THEN NoData ELSE buf[d]]
              /\ written' = written \union {l}
              /\ raced' = IF Area(l, p) \notin repTree THEN raced \union Strikes(p, l) \union {l}
                          ELSE IF Filling(p) \/ Loose(l) THEN raced \union {l}
                          ELSE raced \ {l}
         ELSE UNCHANGED <<disk, buf, written, raced>>
  /\ bio' = [bio EXCEPT ![c] = NoBio]
  /\ at' = [at EXCEPT ![c] = NoBlk]
  /\ Goes(c, "idle")
  /\ UNCHANGED <<space, ev, fault, foreign>>

-----------------------------------------------------------------------------
(* The REPLACEMENT_TEST ioctl.                                             *)
Evict(c) ==
  /\ Now(c, "idle") /\ c \in Callers
  /\ \E n \in Evictions : ev' = [ev EXCEPT ![c] = <<Frame(0, n)>>]
  /\ Goes(c, "evict")
  /\ UNCHANGED <<space, bio, at, buf, fault, disk, written, ghost>>

Victim(c) == Last(pri[Top(c).src])

(* hypraid_pop_priority_area, and room for the area in the next tier: from *)
(* here until it is placed nothing maps its logical block.                 *)
Pop(c) ==
  /\ Popping(c)
  /\ LET t == Top(c).src
         top == [Top(c) EXCEPT !.area = Victim(c), !.want = @ - 1]
     IN  /\ pri[t] # <<>>
         /\ Victim(c) \in repTree
         /\ pri' = PriExtract(pri, Victim(c))
         /\ repTree' = repTree \ {Victim(c)}
         /\ ev' = [ev EXCEPT ![c] =
                     IF t = 0 /\ AreaFree(1, 1) < 0
                     THEN Under(c) \o <<top, Frame(1, -AreaFree(1, 1))>>
                     ELSE Append(Under(c), top)]
  /\ UNCHANGED <<avail, bits, pc, bio, at, buf, fault, disk, written, ghost>>

(* The area is filed under its new block before the copy begins; a slip    *)
(* would give its old block back at once.                                  *)
SourceFreed(n) == {n.rep}

FreedAtPlace(n) == {}

Place(c) ==
  /\ Placing(c)
  /\ \E p \in Free(Top(c).src + 1) :
       LET t == Top(c).src
           s == Top(c).area
           n == Area(s.ori, p)
       IN  /\ avail' = [avail EXCEPT ![t + 1] = @ \ {p},
                                     ![t] = @ \union FreedAtPlace(s)]
           /\ bits' = (bits \union {p}) \ {s.rep}
           /\ pri' = PriInsert(pri, t + 1, n)
           /\ repTree' = RepInsert(repTree, n)
           /\ ev' = [ev EXCEPT ![c] = Append(Under(c), [Top(c) EXCEPT !.dst = p])]
           /\ raced' = IF Filling(s.rep) \/ Filling(p) THEN raced \union {s.ori} ELSE raced
  /\ Goes(c, "read")
  /\ UNCHANGED <<bio, at, buf, fault, disk, written, foreign>>

(* The copy's two bios.  hypraid_end_bio_wait wakes the thread after each. *)
WokenByReads(c) == IF pc[c] = "read" THEN "readDone" ELSE pc[c]

Woken(c) == IF pc[c] = "read" THEN "readDone" ELSE "writeDone"

ReadLands(c) ==
  /\ pc[c] = "read" /\ Submitted(c)
  /\ buf' = [buf EXCEPT ![c] = disk[Top(c).area.rep]]
  /\ Goes(c, Woken(c))
  /\ UNCHANGED <<space, bio, ev, at, fault, disk, written, ghost>>

WriteOut(c) ==
  /\ Now(c, "readDone")
  /\ Goes(c, "write")
  /\ UNCHANGED <<space, bio, ev, at, buf, fault, disk, written, ghost>>

WriteLands(c) ==
  /\ pc[c] = "write" /\ Submitted(c)
  /\ disk' = [disk EXCEPT ![Top(c).dst] = buf[c]]
  /\ buf' = [buf EXCEPT ![c] = NoData]
  /\ raced' = raced \union Strikes(Top(c).dst, Top(c).area.ori)
  /\ Goes(c, Woken(c))
  /\ UNCHANGED <<space, bio, ev, at, fault, written, foreign>>

(* Now the old block is free, and the loop goes on.                        *)
GiveBack(c) ==
  /\ Now(c, "writeDone")
  /\ avail' = [avail EXCEPT ![Top(c).src] = @ \union {Top(c).area.rep}]
  /\ ev' = [ev EXCEPT ![c] = Append(Under(c), Frame(Top(c).src, Top(c).want))]
  /\ Goes(c, "evict")
  /\ UNCHANGED <<pri, repTree, bits, bio, at, buf, fault, disk, written, ghost>>

Evicted(c) ==
  /\ Now(c, "evict") /\ Top(c).area = NoArea /\ Top(c).want <= 0
  /\ ev' = [ev EXCEPT ![c] = Under(c)]
  /\ Goes(c, IF Under(c) # <<>> THEN "evict" ELSE IF Inside(c) THEN "alloc" ELSE "idle")
  /\ UNCHANGED <<space, bio, at, buf, fault, disk, written, ghost>>

-----------------------------------------------------------------------------
(* The DELETE ioctl for one block, which never sleeps.                     *)
Delete(c) ==
  /\ Now(c, "idle") /\ c \in Callers
  /\ \E l \in Deletes : \E n \in At(l) :
       /\ MayUnlink(n)
       /\ pri' = PriExtract(pri, n)
       /\ repTree' = repTree \ {n}
       /\ bits' = bits \ {n.rep}
       /\ avail' = [avail EXCEPT ![0] = @ \union {n.rep}]
       /\ disk' = [p \in Block |-> IF disk[p] = l THEN NoData ELSE disk[p]]
       /\ buf' = [d \in Threads |-> IF buf[d] = l THEN NoData ELSE buf[d]]
       /\ written' = written \ {l}
       /\ foreign' = (foreign \/ Stray(n))
  /\ UNCHANGED <<pc, bio, ev, at, fault, raced>>

-----------------------------------------------------------------------------
(* Where the machine stops: as in BlockArea, and "unlinked", the erasure   *)
(* of a victim that is not in the tree.                                    *)
PopEmpty(c) == Popping(c) /\ pri[Top(c).src] = <<>> /\ Stop("popEmpty")

PopUnlinked(c) ==
  Popping(c) /\ pri[Top(c).src] # <<>> /\ Victim(c) \notin repTree /\ Stop("unlinked")

NoAvail(c) ==
  /\ \/ Now(c, "alloc") /\ avail[0] = {}
     \/ Placing(c) /\ avail[Top(c).src + 1] = {}
  /\ Stop("noAvail")

EraseRoot(c) ==
  /\ Now(c, "search")
  /\ \E n \in At(bio[c].blk) : Stray(n)
  /\ fault' = "rbRoot"
  /\ foreign' = TRUE
  /\ UNCHANGED <<space, thread, disk, written, raced>>

DeleteRoot(c) ==
  /\ Now(c, "idle") /\ c \in Callers
  /\ \E l \in Deletes : \E n \in At(l) : Stray(n)
  /\ fault' = "rbRoot"
  /\ foreign' = TRUE
  /\ UNCHANGED <<space, thread, disk, written, raced>>

Halted == fault # "none" /\ UNCHANGED vars

(* What a thread does once it has begun, and what the device does.         *)
Run(c) ==
  \/ Touch(c) \/ MakeRoom(c) \/ Alloc(c) \/ Issue(c)
  \/ Pop(c) \/ Place(c) \/ WriteOut(c) \/ GiveBack(c) \/ Evicted(c)
  \/ PopEmpty(c) \/ PopUnlinked(c) \/ NoAvail(c) \/ EraseRoot(c)

Land(c) == BioLands(c) \/ ReadLands(c) \/ WriteLands(c)

Next ==
  /\ UNCHANGED deferred
  /\ \/ \E c \in Threads :
          Submit(c) \/ Evict(c) \/ Delete(c) \/ DeleteRoot(c) \/ Run(c) \/ Land(c)
     \/ Halted

Spec == Init /\ [][Next]_vars

(* The scheduler gets round to every thread that can run, and the device   *)
(* to every bio.  Nothing is assumed of new bios and ioctls.               *)
Fairness ==
  \A c \in Threads :
    /\ SF_vars(Run(c) /\ UNCHANGED deferred)
    /\ WF_vars(Land(c) /\ UNCHANGED deferred)

FairSpec == Spec /\ Fairness

-----------------------------------------------------------------------------
AreaIn == [ori : Block, rep : Block]

FrameIn ==
  [src : {0, 1}, want : Int, area : AreaIn \union {NoArea}, dst : Block \union {NoBlk}]

TypeOK ==
  /\ avail \in [Tiers -> SUBSET Block]
  /\ pri \in [Tiers -> Seq(AreaIn)]
  /\ repTree \subseteq AreaIn
  /\ bits \subseteq Block
  /\ pc \in [Threads -> Asleep \union {"search", "alloc", "issue", "evict"}]
  /\ bio \in [Threads -> [blk : Block, write : BOOLEAN] \union {NoBio}]
  /\ ev \in [Threads -> Seq(FrameIn)]
  /\ at \in [Threads -> Block \union {NoBlk}]
  /\ buf \in [Threads -> Block \union {NoData}]
  /\ fault \in {"none", "popEmpty", "unlinked", "noAvail", "rbRoot"}
  /\ disk \in [Block -> Block \union {NoData}]
  /\ deferred \in Deferrals
  /\ written \subseteq Block /\ raced \subseteq Block
  /\ foreign \in BOOLEAN

(* Who has physical block p, if threads sleep in the middle of demotions.  *)
Users(p) ==
  { <<"free", t>> : t \in { t \in Tiers : p \in avail[t] } }
    \union (UNION { { <<"area", t, n>> : n \in { n \in Listed(t) : n.rep = p } }
                    : t \in Tiers })
    \union (UNION { { <<"move", c, i>> : i \in { i \in DOMAIN ev[c] : ev[c][i].area.rep = p } }
                    : c \in Threads })

(* Sleeping between the steps of a demotion neither loses a block nor      *)
(* gives one out twice.                                                    *)
SpacePartition == \A p \in Block : \E u \in Users(p) : Users(p) = {u}

(* The counter hypraid_is_area_bitmap_free trusts runs ahead of the free   *)
(* list by exactly the blocks whose copies threads sleep on: their bits    *)
(* are cleared before the copy and their extents freed after it.           *)
Leaving(t) ==
  { c \in Threads : \E f \in Range(ev[c]) : f.src = t /\ f.dst # NoBlk }

CountersRunAhead ==
  ~ foreign => \A t \in Tiers :
    AreaFree(t, 0) = Cardinality(avail[t]) + Cardinality(Leaving(t))

(* A client's bio stops the machine for want of an area or a free extent   *)
(* only while another thread is in the middle of a demotion; or because    *)
(* the last group is full, when some area on a list maps nothing, for the  *)
(* tree refused it: otherwise there would be one for every logical block.  *)
RunsShortOnlyBesideOthers ==
  fault \in {"popEmpty", "noAvail"} /\ ~ foreign =>
    \A c \in Clients : pc[c] \notin Asleep =>
      \/ \E d \in Threads \ {c} : \E f \in Range(ev[d]) : f.area # NoArea
      \/ /\ fault = "noAvail" /\ pc[c] = "evict" /\ Top(c).src = 1
         /\ AllListed \ repTree # {}

(* An area the tree refused has a twin, mapped by another thread in the    *)
(* meantime, unless a DELETE may have taken that: only then is a victim    *)
(* not in the tree.                                                        *)
RefusedHasTwin ==
  \A n \in AllListed \ repTree :
    n.ori \notin Deletes => \E m \in repTree \union InTransit : m # n /\ m.ori = n.ori

(* Where the contents of area n are: on its block, or on their way there.  *)
Holds(n) ==
  \/ disk[n.rep] = n.ori
  \/ \E c \in Threads :
       /\ Copying(c) /\ Top(c).dst = n.rep
       /\ IF pc[c] = "read" THEN disk[Top(c).area.rep] = n.ori ELSE buf[c] = n.ori

(* No interleaving loses what was written, but for these races, the ones   *)
(* that add to raced: a write that lands after its block has moved away,   *)
(* for the block itself and for whatever is there now; a write that lands  *)
(* on a block a copy is still to fill; a copy that reads such a block, or  *)
(* is begun to one, or lands on one that serves another by now; and a      *)
(* block mapped anew while the area that maps it is in transit.            *)
LostOnlyInRaces ==
  \A l \in written \ raced :
    \E n \in repTree \union InTransit : n.ori = l /\ Holds(n)

(* And a block that no copy is still to fill holds the current contents of *)
(* the block that is mapped to it, so that a read sent there returns them. *)
MappedIsCurrent ==
  \A n \in repTree :
    n.ori \in written \ raced /\ ~ Filling(n.rep) => disk[n.rep] = n.ori

(* Every bio comes back or the machine stops; when submissions inside a    *)
(* bio are deferred, the only ones that stay for ever are those that sleep *)
(* on a copy of their own.                                                 *)
BiosReturn ==
  \A c \in Clients :
    Inside(c) ~> \/ ~ Inside(c)
                 \/ deferred /\ WaitsForItself(c)
                 \/ fault # "none"

(* Every ioctl returns, even beside bios that stay.                        *)
CallsReturn == \A c \in Callers : pc[c] = "evict" ~> (pc[c] = "idle" \/ fault # "none")
=============================================================================
