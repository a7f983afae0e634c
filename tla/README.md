# HyRAID in TLA+

HyRAID is a Linux kernel module (`src/hypraidk`) and a small command line tool
(`src/hypraidu`) for a device mapper array whose disks form three groups of
decreasing speed. The module hooks into the mapper, keeps the blocks used most
recently in group 0, and moves the least recently used ones down to groups 1
and 2 when a new request needs room above. This directory holds TLA+ models of
that program, their TLC configurations, and TLAPS proofs.

Run everything from this directory:

    tlc -config general.cfg MCBlockArea.tla      # a run
    tlapm BlockAreaProofs.tla                    # proofs

`PROJECT.json` lists the parts of the system, the runs, the source lines behind
every definition, the hazards, the mutated definitions that show that each
property can fail, the findings and the theorems.

## The system

| Part | Source | State | Operations |
| --- | --- | --- | --- |
| Block area manager | `block_area.c`, `hypraidk.h` | per group: free extents (`avails`, `avail_tree`, `area_tree`), used areas in order of use (`pri_areas`, `pri_area_tree`); for all groups: `g_rep_area_tree`, the areas by logical block | `hypraid_insert_block_area`, `hypraid_block_replacement`, `hypraid_pop_priority_area`, `hypraid_delete_block_area`, `re_request_bio`, `hypraid_make_request`, and the test and transform entries |
| Bitmap | `bitmap.c` | one bit per block; a pair of unsigned counters for the device and for each group | set, clear, "is there room" |
| Bio collector | `bio_collector.c` | none | decides what becomes of each bio: map it and re-issue it, pass a discard on, pass a bio of less than a block on |
| Asynchronous I/O | `block_area.c:561-735`, `block_area.c:1195-1275`, `replacement.c` | bio chains, a completion per copy | page reads and writes of a demotion, cut into stripes of 16 blocks; the pieces of a bio, chained to it |
| ioctls | `ioctl.c`, `hypraid_ioctl.h` | none | insert, delete, replace, copy, transform, print, set mode, get priority |
| Configuration | `configure.c`, `hypraidk_lib.c` | three group sizes | read once at load |
| Life cycle | `hypraidk-main.c`, the open and close functions of the other files | the hooks, and what they save | load and unload, each a sequence of steps |
| User tool | `hyraidu.c` | none | one ioctl per invocation |

How they interact. The device mapper hands a bio to the collector through a
function pointer; the collector calls `hypraid_insert_block_area` with the
bio's range of logical blocks. For each block in turn that either finds the
area that maps it, and makes it the most recent of group 0, or makes an area
for the rest of the range. For that it asks the bitmap how many blocks are
free in group 0, and runs `hypraid_block_replacement` for what is lacking. The
replacement pops the least recent area of the group (or the front of it), takes
a free extent of the next group, and copies; before that, if the next group is
too full as well, it calls itself for that group. Then `re_request_bio` walks
over the areas of the range, splits the bio at their ends, and sends the pieces
to the physical blocks. The ioctls call into the same functions from a user's
thread. Everything is shared through global variables, and there are no locks.

What is hard in this code:

- *Recursion and nested loops over shared lists.* Insertion recurs over the
  range; each level may start a loop of demotions, each pass of which may start
  one in the next group. They must end, must not take away what an outer level
  has just found, and must make enough room and no more.
- *Lists that have to agree.* A block is in a free list, an area list, a tree
  and the bitmap, which are updated one by one; areas are split in the middle
  of a demotion; insertions into a tree can be refused, and nobody looks.
- *Groups that mix.* An accessed area is filed in group 0 wherever its blocks
  are, and deletion frees blocks into group 0 wherever they are.
- *Boundaries.* Inclusive and exclusive ends, stripes, copies in passes of 16
  pages, unsigned counters whose differences are read as signed.
- *Concurrency.* Several bios at a time, ioctls beside them, and no lock. A
  demotion sleeps twice in every copy, and while it sleeps others change the
  lists under its loops; bios that were sent land when the device likes; and the
  block layer may keep what a thread submits inside a bio until the bio is
  through.
- *Order of set-up and removal.* Hooks that are live before or after what they
  need.

What makes each part correct:

- block area manager: every physical block has one user at any time; no
  physical block serves two logical ones; written data follow their block
  through every demotion; a bio goes to where its blocks are; room is made for
  what is allocated; a call returns;
- free extent index: the lists by size and the tree by block hold the same
  extents, neighbours are merged, and an allocation gets an exact or else a
  smallest extent;
- bitmap: each counter is the number of marked or free blocks it stands for,
  and "room left" is negative exactly when there is none;
- stripe loops: every page goes out once, to its own block, in bios that do not
  cross a stripe;
- several threads: what they do between each other's steps loses no block, gives
  none out twice, and loses no contents but in races that can be named; bios and
  ioctls return;
- chained bios: the submitter is told of the end after all pieces are done, and
  each sector goes where its block is;
- ioctls: the counters never promise more than there is, questions are answered
  in agreement with each other and with what evictions do;
- life cycle: a bio or an ioctl in the module finds all that it needs, and the
  disk has its own functions back after the removal.

## The modules

    Extents            extents, groups, free runs, first fit, what a bio sends
    Lists              unlinking from a kernel list
    |- FreeSpace       abstract: a set of free blocks
    |- AvailableAreas  size classes, lists and tree of free extents => FreeSpace
    |- Bitmap          map and counters
    |- Stripes         the two loops that cut ranges at stripes
    |- BlockArea       the block area manager with one client      => StorageMap
    |  `- Ioctls       INSERT, TRANSFORM, GET_PRIORITY, copies on top of it
    `- Demotion        the block area manager with several threads, areas of a block
    StorageMap         abstract: where blocks are, and what the user can read
    Reissue            one bio cut at areas and stripes, its chain and its end
    LifeCycle          load and unload beside threads that use the device

Each `MC` module gives the constants of the module it is named after their
values for TLC. `ExtentsProofs`, `FreeSpaceProofs`, `StripesProofs`,
`BlockAreaProofs`, `BlockAreaTreeProofs`, `DemotionProofs`, `ReissueProofs` and
`LifeCycleProofs` hold the theorems.

**BlockArea** is the core. Its variables are the manager's globals: `avail` (the
free blocks of each group's free extents), `pri` (the priority lists),
`repTree`, `bits`; the call that is running (`pc`, `req`, its cursor `blk`, and
`off`, what is left of the bio) and the C stack of its replacement loops (`ev`);
what the disks hold (`disk`); and three of the model's own: `fault`, `written`
and `foreign`. The code correspondence:

| Action | Code |
| --- | --- |
| `Submit`, `Discard` | `hypraid_bio_collect` |
| `Touch`, `MakeRoom`, `Alloc`, `Inserted` | one level of `hypraid_insert_block_area`: block found; block not found, before and after the replacement; end |
| `Issue`, `Issued` | one pass of `re_request_bio`, with `hypraid_make_request` |
| `Evict` | the REPLACEMENT_TEST ioctl |
| `Pop`, `Place`, `Evicted` | `hypraid_block_replacement_operation`: the pop with the decision to go down; one pass of the inner loop with its copy; the end |
| `Delete`, `DeleteArea`, `Deleted` | the DELETE ioctl and one level of `hypraid_delete_block_area` |
| `IssueUnmapped`, `IssueSplit`, `PopEmpty`, `PopUnlinked`, `PlaceNone`, `EraseRoot` | what the code runs into: a NULL area, the `BUG_ON` of `bio_split`, a pop from an empty list, the erasure of a node that is in no tree, an allocation from none, an erasure with the wrong root |

Where the model is coarser than the code, and why that is sound:

- The red-black trees only hold disjoint extents, so a tree is a set.
- A group's free extents are the maximal runs of a set of free blocks, and which
  extent of a size class comes first is left open. `AvailableAreas` models the
  classes, lists and tree, and is proved to implement that (`FreeSpaceSpec`).
- The group counter is computed from the bits. `Bitmap` models the counters in
  unsigned arithmetic, and it is proved that the answer is the same.
- `Sent` says what `hypraid_make_request` passes on in one operator. `Stripes`
  models its loop, and it is proved that it passes on exactly that.
- `rb_erase` is called with group 0's root for an area in another group's tree.
  That is harmless unless the erasure reaches that tree's root, which depends on
  the tree's shape: the model leaves both outcomes open, and forces the bad one
  where the tree has one node.
- `disk[p] = l` means that p holds the *current* contents of l. A new write of l
  makes all older copies stale, so contents need no version numbers.
- An I/O is done when it is issued. A fault stops the machine; `Halted` stutters
  there, so that the deadlock check still finds a state in which the modelled code
  has no step. What the properties say holds up to the first fault. Most faults are
  an oops or a `BUG`, where the thread really ends. Two are not: after an erasure of
  a node that no tree links (`unlinked`), and after one that replaced the root of
  another group's tree (`rbRoot`), the kernel runs on with trees that no longer
  hold what the lists do. Which nodes it then still finds depends on their colours
  and on freed memory, and the model does not say. The part of a bio that
  `hypraid_make_request` keeps is no fault: its blocks are not transferred, and
  the manager goes on; that its submitter waits for ever is in Stripes and Reissue.
- A copy is one pass of the loop in `_hypraid_block_replacement_operation`. The
  others repeat it at the same addresses, and an eviction's source and target
  have no block in common, so that they change nothing. In Ioctls the two may
  overlap, and `Passes` has them all.
- `HYPRAID_MAX_PAGES` and `DM_HYRAID_TARGET_SIZE`, both 16, are constants of
  the module, so that small instances reach them.

**StorageMap** is what the layer owes its user: a partial injective map from
logical to physical blocks and a disk, changed by allocations, relocations that
keep contents, writes and deletions.

**AvailableAreas** models `struct available_node` and its lists down to the link
order of the classes, with `available_extract_middle`, which INSERT_AREA cuts
with; **FreeSpace** is the set of free blocks it stands for. Both have a variable
`asked`, the count the last step was asked for: without it a step that took an
extent where another fits better could pass for a cut by number.
**Bitmap** models both counters of both levels with wrap-around, and what a block
behind the device does to them: its group is -1, and what lies at `area[-1]` are
the counters of the device. **Stripes** runs the two loops with their cursors.

**Demotion** is the manager with several threads. The source has no lock, so that
on a kernel with preemption or several processors everything may be interleaved
with everything. The model takes the mildest schedule there is: one processor,
no preemption. A thread then gives up the processor only where it sleeps, in
`hypraid_submit_bio_wait`, and what the model finds there any kernel has. It may
sleep elsewhere when memory is short, and is taken not to: in the `vmalloc` of
`area_alloc` and `available_alloc` (`block_area.c:28`, `57`), which a demotion
calls between the pop and its copy (`859`) and every list operation that splits a
free extent (`469`) in the middle of it, and in `bio_split` between two pieces of
a bio. Where others come in there, they meet lists half changed, and more races
than the four below are possible. The `alloc_page` before a copy's read (`789`)
adds nothing to the sleep that follows. A
client's `pc` goes from `search` (the look-up in `hypraid_insert_block_area`) to
`evict` (the replacement loops in `ev`, one stack per thread), `alloc`, `issue`
and `bio`, when its bio is on the device; in a copy it is at `read`, `readDone`,
`write`, `writeDone`. `Now` lets a thread run only while all others sleep;
`BioLands`, `ReadLands` and `WriteLands` are the device, which needs no thread.
With `deferred` the model does what `generic_make_request` does with submissions
made inside a `make_request_fn`: they wait on a list of the thread's, so that a
copy begun inside a bio waits for the end of the bio that waits for it. To keep
the state space small all areas are of one block, so that none is split;
BlockArea has the splits.

| Action | Code |
| --- | --- |
| `Submit`, `Touch`, `MakeRoom`, `Alloc`, `Issue` | `hypraid_bio_collect` and `hypraid_insert_block_area` up to the replacement, after it, and `re_request_bio` |
| `Pop`, `Place`, `WriteOut`, `GiveBack`, `Evicted` | the replacement loop between its sleeps: the pop; filing under the new block, up to the read; between read and write; the old block freed after the copy; the end |
| `Evict`, `Delete` | REPLACEMENT_TEST and DELETE_AREA |
| `PopEmpty`, `PopUnlinked`, `NoAvail`, `EraseRoot`, `DeleteRoot` | where the machine stops |

`raced` collects the logical blocks that a race has met since they were last
written, at the step where the race happens; `LostOnlyInRaces` then says that
there are no others. A write clears its block of that when it lands where the
block is mapped, no copy is under way to the place, and no area that maps the
block is in transit.

**Ioctls** extends BlockArea, whose steps it takes over unless they would pop an
area whose `blk_cnt` is not its size whole or cut it behind its end, with `hypraid_insert_block_area_no_rearray`
(`InsertFree`, `InsertMapped` and the ways it fails) and
`hypraid_block_replacement_area` (`CopyArea`); `TransformBlock` and `GetPriority`
are operators, for they change nothing. `loose` and `misfiled` remember that an
area was deleted with a count not its own, or filed with a foreign group. Three
more things stop the machine here, though the kernel runs on: an insertion that
ends behind the free extent it begins in, and the pop just named (`inverted`: from
then on an extent that ends before it begins is on the lists, or the loop clears
and copies blocks of other areas); and an insertion that marks blocks behind the
device (`beyond`), which Bitmap goes on with.

**Reissue** follows one bio in sectors through `re_request_bio` and
`hypraid_make_request`. `bios` holds the bio and its pieces with
`__bi_remaining` and parent, as `bio_chain` links them; the device transfers
pieces in any order while the loops still run (`Transfer`), and `End` is
`bio_endio`. `Collect` and `Through` are the collector's decision.

**LifeCycle** has one action per step of `blkdev_test_init` and
`blkdev_test_exit` and of the functions they call, each with its failures, and
threads that enter the module through whatever the hooks hold. What a thread
does inside is in BlockArea; here `Missing` is what it would not find.

## The runs

| Run | Instance | Shows |
| --- | --- | --- |
| `extents` | groups of 3, 2, 1 blocks; reads, writes and deletes of three fixed disjoint extents of 3, 2, 1 blocks; evictions of 1 and 3 | `StorageSpec` (BlockArea implements StorageMap), `Coherent`, `BioSafeAtHome`, `TypeOK` |
| `general` | groups of 2, 4, 1 blocks; bios for five overlapping extents, one of them also written; a discard, two deletes, evictions of 1 and 2; 2 pages per copy, stripes of 3 | `SpacePartition`, `BitsMatchAreas`, `TierPurity`, `Accounting`, `RoomWasMade`, `JustUsedStays`, `NoSharedBlock`, `VictimInTree`, `NullAreaWasRefused`, `AimedRightIfClean`, and with fairness `CallsReturn` |
| `available_areas` | groups of 5, 2, 1 blocks, any extent given back, taken or cut out | `ListsAgree`, `Unfragmented`, `FreeSpaceSpec` |
| `bitmap` | groups of 4, 3, 2 blocks, two bits behind them, a word of 32 values | `CountersMatchMap`, `AnswerIsSigned` |
| `stripes` | every start in two stripes of 16 blocks, every length up to three | `MoveComplete`, `MoveInStripe`, `BioSent` |
| `demotion` | groups of 1, 2, 1 blocks; two clients that write two blocks and read a third, a caller that evicts and deletes | `SpacePartition`, `CountersRunAhead`, `RunsShortOnlyBesideOthers`, `RefusedHasTwin`, `LostOnlyInRaces`, `MappedIsCurrent` |
| `demotion_returns` | groups of one block; two clients that read three, a caller; submissions sent at once, and deferred | `BiosReturn`, `CallsReturn` |
| `reissue` | two sectors a block, stripes of two blocks; six blocks in one, two, three and six areas; every bio of at most twelve sectors, and a discard | `EndsAfterTransfers`, `GoesHome`, `SpillsBehind`, `BiosEnd` |
| `ioctls` | groups of 3, 2, 1 blocks; three bios, a delete, an eviction; four extents inserted, one of them across two groups; a copy in two passes over extents that overlap | `CountersCautious`, `TransformInverts`, `PriorityForetells` |
| `life_cycle` | two threads, each kind of configuration file, any number of loads and unloads | `SafeWhileIn`, `HooksRestored` |
| `move_contents` | groups of 3, 3, 1, writes of 3 blocks, 2 pages per copy | violation of `MoveCarriesData` |
| `delete_range` | as `general` without discards and evictions | violation of `DeleteWithinRange` |

StorageMap has no run of its own: `extents` checks that BlockArea implements it,
which is proved for every size (`FixedExtentsAreStored`), and so are the two
invariants that BlockArea has from it (`WrittenIsReadable`).

Why these bounds are enough. Groups of 3, 2 and 1 blocks are the smallest for
which a demotion out of group 0 can force one out of group 1, an area can be
split by a demotion because the next group's free space is in pieces, and group
2 can be full. All six blocks can be in use at once. In `general` every action
and every fault is reached; the extents overlap in front, behind, inside and
around each other. Its group 1 is larger than group 0, so that extents found
there, and filed in group 0's list, can fill it: an area that the tree refused
then comes up as a victim of the request that made it, which no instance with
groups of 3, 2 and 1 blocks reaches. `extents` asks what a well-behaved user gets: one that always
uses the same extents. There is no state constraint: the state spaces are
finite as they are and explored completely. In `stripes` the loops run
through no, one and two whole stripes with every alignment at both ends; in
`bitmap` the word only has to exceed twice the device. The proofs below remove
the bounds for what they cover.

In `demotion` two clients and a caller are enough for every race of the list: a
thread that sleeps, one that moves, maps or deletes what the first has in hand,
and one whose bio is under way; groups of 1, 2 and 1 blocks let two demotions be
in flight at once and a third be forced below them. `demotion_returns` keeps to
one block per group and reads, for what returns depends on sleeping and
submitting and not on contents. In `reissue` six blocks hold a bio that goes
through every cut with a begun block at either end, over areas that are shorter
than, as long as and longer than a stripe. `ioctls` inserts at the front, the
middle and the end of free space and over its edge. The two threads of
`life_cycle` are one in a bio and one in an ioctl.

Fairness. In BlockArea `FairSpec` assumes weak fairness of `Step \/ Fail` only: a
call that has begun is run by its thread until it returns or stops the machine.
In Demotion a thread can run only while the others sleep, so that being able to
run comes and goes: `Fairness` is strong for the threads, which is what a
scheduler gives that gets round to every thread that wants to run, and weak for
the device, which does each bio some day. In Reissue the loops and the device
get weak fairness. Nothing is assumed of new bios or ioctls anywhere.

What the runs say about the code, in words:

- Blocks are neither lost nor given out twice, whatever is requested
  (`SpacePartition`), and the bitmap agrees with the lists at every step
  (`BitsMatchAreas`).
- The counter of group 0 and its free list agree until a demoted area is
  accessed or deleted; afterwards group 0 may have *more* free blocks than it
  counts, and a lower group fewer (`Accounting`). That is why allocation after
  `MakeRoom` is always safe (`RoomWasMade`), and a demotion may not be.
- As long as no demoted area has been accessed or deleted, a bio of a client
  with fixed extents that fit in the groups never stops the machine, nor does a
  loop that another one starts on its behalf. REPLACEMENT_TEST stops it in three
  cases (`Overtaxed`), none of which `hypraid_block_replacement` tests: it asks for
  more than group 0 has, it moves an area larger than group 1, or group 2 is full
  (`BioSafeAtHome`; `Fitting` below says what fitting is). And for any
  client the room for a request that fits in group 0 is not taken from the
  request's own blocks (`JustUsedStays`).
- With overlapping requests an area can be refused by the tree and stay on the
  lists. That is the only way to the NULL area of `re_request_bio`
  (`NullAreaWasRefused`). As long as no demoted area has been accessed or
  deleted such an area is not chosen as a victim (`VictimInTree`): the bio it was
  made for has its room and then stops the machine. Afterwards a request larger
  than group 0 can evict an area of its own that the tree refused, and
  `hypraid_pop_priority_area` erases a node that no tree links (`PopUnlinked`).
- A bio is aimed at the right blocks when it begins where an area begins or lies
  within one (`AimedRightIfClean`, in blocks; `GoesHome`, in sectors and over all
  cuts). What a bio has behind its last whole block goes to the physical block
  behind that, whoever has it (`SpillsBehind`).
- The end of a bio is told after its last piece and only then
  (`EndsAfterTransfers`), and certainly (`BiosEnd`), unless the cut failed or
  `hypraid_make_request` has kept a rest whose last block begins a stripe.
- With several threads blocks are still neither lost nor given out twice. But
  between the two sleeps of a copy the counter promises blocks that are not free
  yet (`CountersRunAhead`): with another thread in a demotion a bio may find no
  area to evict or no free extent, and stop the machine. A bio alone finds both,
  with one exception: areas that the tree refused keep their blocks, and when they
  have filled the last group a demotion into it finds nothing
  (`RunsShortOnlyBesideOthers`). A thread that has slept in an eviction maps its
  block without looking again: another may have done so meanwhile, and the tree
  refuses the second area, which stays on the list (`RefusedHasTwin`).
- Contents are lost in four races and in no others (`LostOnlyInRaces`): a write
  lands after its block has moved away, which also strikes whoever has the place
  now; a write lands on a place that a copy is still to fill; a copy reads such a
  place, is begun to one, or lands on one that serves another by now; a block is
  mapped anew while the area that maps it is on its way down.
- If the block layer sends what a thread submits inside a bio, every bio comes
  back. If it defers it, as the kernel does, a bio that has to demote an area
  waits for ever for its own copy; bios that need no demotion and ioctls return
  (`BiosReturn`, Demotion's `CallsReturn`).
- INSERT_AREA marks as many blocks as the free extent had that it cut from
  (`block_area.c:986`). The counters then say less than there is, which is
  harmless, and more only once such an area is deleted or an area was filed with
  a group that does not have its blocks (`CountersCautious`). The latter also
  makes TRANSFORM_BLOCK miss areas, as do accesses to demoted areas; but it never
  answers with another area (`TransformInverts`). GET_PRIORITY lists what evictions take next, also when they take
  an area in part (`PriorityForetells`).
- After a load that went through, nothing of the module is met before it is
  ready, but for a map that could not be allocated, a group without blocks, and
  a copy asked for by an ioctl before any bio; a load that found no disk or no
  file, and a removal under a thread, spoil the loads that follow
  (`SafeWhileIn`, `HooksRestored`).

The two violations:

- `MoveCarriesData`: `_hypraid_block_replacement_operation` never advances its
  addresses (`block_area.c:776-804`), so that an extent of more than 16 blocks
  loses the contents of all but its first 16 when it is demoted. The only text on
  what it should do is the log line of its first version, which copied all of the
  extent in one pass and is commented out now (`block_area.c:676-699`): line 682
  describes a move of the whole extent.
- `DeleteWithinRange`: `hypraid_delete_block_area` gives up whole areas, also the
  parts of them outside the range; `hyraidu.c:113` documents a start and an end.

## The proofs

All theorems hold for every value of the constants, under `AreaBlocksAssumption`
(three groups of at least one block), `BlockAreaAssumption` (requests, discards
and deletes are extents of the device; page and target sizes are positive),
`IoctlsAssumption` (so are the extents of the `INSERT_AREA` calls and the blocks of
copies) and `WordAssumption` (an unsigned int counts twice the device). TLC
evaluates each in the runs.

- `BlockAreaProofs`: `TypeCorrect` and `LowerGroupsArePure`. `TypeOK` alone is
  not inductive: a free list receives the physical extent of a popped area, so
  the proof needs that areas lie on the device, and that they have as many
  logical as physical blocks as `blk_cnt` says, for they are cut at `blk_cnt`
  (`NodeIn`); and that an allocation begins inside the request (`CallIn`).
  `TierPurity` needs in addition that a loop demoting from group 1 holds an area
  of group 1 (`FrameIn`). Each action has a lemma of its own; they meet in
  `NextIInv`.

  In the same module `SpaceIsPartitioned`, `BitmapIsRight`,
  `BlocksAreNotShared`, `CountersAgree` and `InsertFindsRoom`. The state is seen
  as three families of sets of blocks, free, listed and moving; every action is
  one of six changes of the families, each with a lemma (`FreeToListed`, `ListedToFree`, `ListedToMoving`,
  `ListedToMovingPart`, `MovingToFree`, `Refile`). `SpacePartition` alone is not
  inductive: the insertions refuse an extent that overlaps another without
  telling anyone, so that a block would be lost if they ever did. That they
  never do on the priority lists needs that no listed area is empty and none is
  listed twice (`Lined`), that an area in the tree is on a list, and that a loop
  keeps a nonempty part of the area it popped to copy (`Held`). These and the
  bitmap's agreement (`Marks`) are `Tidy`; `SpaceInv` joins it to the types.
  The last two theorems count. With no loop under way every clear block of a
  group is free somewhere, and free blocks of the lower groups are filed at home,
  so that group 0 has at least what its counter says; it has no more as long as
  it is pure itself (`AtHome`, kept until a demoted area is found or deleted).
  During a loop begun by `MakeRoom` the sum of the free blocks of group 0, of the
  blocks the first loop holds and of its count never falls (`Room`): a pop moves
  blocks from the count to the loop, the end of a placement from the loop to the
  free list, and a loop of group 1 above it touches neither (`Stacked`).

  With the other ioctls, `InsertKeepsCountersCautious` and
  `TransformUndoesItself`, over the specification of `Ioctls`. `INSERT_AREA`
  files areas under other groups than have their blocks, and areas that count
  more blocks than they were given, so that neither `NodeIn` nor `SpaceInv`
  survives it. What does is `IoInv`. The areas are still on the device (`AreaIn`)
  and the lists and loops well-formed (`Shaped`); the device is still divided
  between free, listed and moving, by the same six changes. Until an area with
  a stale count is deleted, every block in use is marked; other blocks may be,
  unlike before (`UseMarked`). An eviction that cuts such an area within
  its blocks leaves two with right counts. Each group keeps to its own blocks until
  an area is misfiled, and group 0 until a foreign area was found as well (`Keeps`, `Homely`). Hence
  the counters: a clear block of a group is free, and is filed in that group. And
  hence the answers: the area found for a physical block is listed by the group
  that has the block, as long as that keeps to its own, and no other listed area
  ever has the block.
- `BlockAreaTreeProofs` follows the logical blocks. The areas of the tree and what
  the loops have not copied yet form one map (`Once`): a logical block is in one
  of them at most, every split and copy keeps the map but for the blocks copied
  (`SplitMap`, `MoveMap`), and only an insertion adds to it and only a deletion
  takes away (`TreeInv`).
  - `CleanBiosGoRight`: a re-issued bio that began clean stands at the beginning
    of an area after every piece (`InStep`).
  - `NullAreaOnlyIfRefused`: what an insertion has found or made stays on the
    lists or with a loop while it goes on (`Covers`), so that where the tree has
    nothing the lists have a refused area.
  - `VictimsAreInTheTree`: a refused area dooms its request. A block of the
    request is mapped by no area of the tree, nothing maps it before the bio gets
    there, and there the machine stops (`RefusedDoom`); until then, as long as
    group 0 counts right, the request finds room without an eviction
    (`RefusedRoom`), and there is no loop that could pop the area. The proof is
    what showed that both parts of that are needed: TLC had found nothing in
    groups of 3, 2 and 1 blocks, and the step that could not be proved led to the
    run in which a foreign area breaks it.
  - `FoundAreasStay`: the areas found so far lie at the head of group 0's list,
    the latest first, and have as many blocks as the request has behind it from
    where the first of them begins (`InOrder`, `UsedFrom`). A loop takes what is
    missing and no more (`Missing`); group 0 has room for the whole request, so
    that the list has enough blocks behind the areas found, and the pops, which
    go from its tail, do not reach them (`VictimUsed`).

  The other six hold for clients of a kind, and say so in their hypotheses.
  `FixedClients`: no two extents of requests and deletes overlap in part, and
  there are no discards. `Short`: no request has more than `HYPRAID_MAX_PAGES`
  blocks. Both are what a user can see to, neither is what the code sees to, and
  the runs `general`, `delete_range` and `move_contents` show what goes wrong
  without. With `FixedClients` each extent is mapped as a whole or not at all,
  but for the one that the running call is working its way through, of which the
  blocks up to the cursor are mapped (or, in a delete, unmapped) and the rest is
  one or the other (`FixedInv`); then the tree refuses nothing.
  `FixedExtentsAreCoherent` and `FixedDeletesStayInRange` follow.
  `ShortExtentsKeepContents` needs that areas are cut from requests
  (`AllInside`), so that one pass copies them. `FixedExtentsAreStored` puts all of
  it together: BlockArea implements StorageMap. Each step is one operation of the
  map or none: `Alloc` allocates blocks that no area and no loop has
  (`NewPlaces`), `Place` relocates and carries the contents along, `DeleteArea`
  deletes, `Issue` writes to where the blocks are, and the others leave `Loc`
  alone, `Pop` too, which moves an area from the tree to a loop. The guarantees of
  the map are proved on the map, whose own steps keep them, and carried over
  (`WrittenIsReadable`): a block written and not deleted is mapped to one physical
  block that no other has, and that block holds its contents.

  `FixedBiosAreSafe` says that nothing stops a bio of such a client while group 0
  is its own, and what stops REPLACEMENT_TEST (`BioSafeAtHome`). That the maps are there follows from
  `FixedInv`; that the loops find what they take without a test has to be counted.
  `Fitting` has two parts: every request fits in group 0, and of two different
  extents at most one is larger than group 1 (requests that fit in both groups
  satisfy both). With the first, a loop of group 0 that lacks a victim would have
  all of group 0 free and lack nothing. `Nested` relates the second loop to the
  first: the free blocks of group 1, those the second loop still has to win and
  those it is moving are exactly what is left of the area that the first one
  moves. So if the second loop lacked a victim, all of group 1 would be free, and
  that area as well as the request larger; they are of two extents, because the
  areas of the request stay (`FoundAreasStay`). And the second loop finds a free
  extent in group 2: no more blocks are marked than are mapped
  (`MarkedAreMapped`), the rest of the request is not, and the two are no larger
  than the device (`LastHasRoom`). Neither part can be left out: with groups of
  3, 1 and 3 blocks and extents 0..1, 2..4 and 5..6, and with a request of three
  blocks for a group of two, TLC finds a bio that pops an empty list. The extents of the
  run `extents` satisfy both. A loop that REPLACEMENT_TEST has begun is under no
  such limit, but `Nested` holds of it too: the second loop lacks a victim only if
  the area of the first is larger than group 1 (`SecondLacks`), and the first always
  finds room in group 1 (`FirstPlaces`).
- `FreeSpaceProofs` has the index of free extents and the counters.

  For the index, `ListsAgree`, `Unfragmented` and the refinement `FreeSpaceSpec`.
  The invariant (`IndexInv`) says of the classes that they are sorted by size and
  that each has exactly the extents of its size, at least one and each once
  (`Filed`), and of the tree's extents that there is a gap between every two
  (`Spaced`). Every operation is a sequence of two kinds of small step: an extent
  leaves its class, which goes when it was the last (`ExtractFiled`), or one enters,
  with a class of its own when there is none (`LinkFiled`). What is given back is
  joined with its neighbours first (`InsertFiled`), which keeps the gaps, and what
  is left of an extent from which blocks are taken has the gaps that the extent had
  (`ApartFiled`). Extents with gaps between them are the maximal runs of the blocks
  they hold (`RunsAre`), so that two indexes with the same free blocks have the same
  extents; and the head of a sorted list of classes is the smallest, as `BlockArea`
  and `FreeSpace` have it (`ChosenFits`). With these each step is a step of
  FreeSpace (`IndexStep`).

  For the counters, `CountersAreRight` and `AnswersAreSigned`. The invariant adds
  the counters' range to what they count. A block is in one group only, so each
  step moves the counters of the device and of one group, away from both ends of
  the word because a proper subset has fewer elements. A block behind the device has
  a step of its own: it moves the device's counters twice, and the bound on `Spare`
  keeps them off the ends of the word that the groups' answers depend on.
- `StripesProofs`: `MoveIsComplete`, `BioSentIsSent` and `MovesStayInStripes`. The
  pages sent so far are the first ones, in step with the blocks, and the parts still
  to come add up to the rest. A bio of a copy ends where its stripe ends or before
  (`MoveInStripe`).
- `DemotionProofs`: `SpaceIsPartitioned` for any number of threads. The three
  families have a third dimension here, the loops of each thread. The invariant
  adds to the partition what a thread has by what it does next (`Busy`): one that
  sleeps or evicts has a loop, one that sleeps has an area and a place for it,
  and one that does neither has no loop, so that `MakeRoom` and `Evict` overwrite
  nothing; and again `Lined`. Nothing in it says that other threads keep off a
  loop's area: the area is on no list while it is moved, and that is all that
  keeps its block. `TypeCorrect` comes with it.
  `CountersCountAhead` counts: a block is marked exactly when an area on a list
  has it or a loop holds it and has no new block yet (`Marked`); a loop that has
  one is its thread's last (`LastLeaves`), so that the threads `Leaving` a group
  are as many as the blocks that are neither marked nor filed as free; and what a
  group's list, free blocks and loops hold lies in the group until an area of
  another group is unlinked through it (`OwnBlocks`).
  `OnlyRacesLose`, `ReadsAreCurrent` and `TwinsRemain` follow the contents. The
  invariant (`DataInv`) says of each block that was written, not deleted and not
  raced that it has exactly one area among the tree's and those on their way down
  (`Kept`), and that this area is `Current`: its block on the device has the
  contents, or every copy under way there brings them, in its buffer or still at
  its source. "Every" and "exactly one" are what makes it inductive: with two
  copies to one place the later would undo the earlier. An area on a list that
  the tree refused has another with its block in the tree or on its way
  (`Twinned`), and an area leaves its way for the tree, or is refused by it for
  one that is there already. A loop's area has a new block only while its thread
  sleeps (`Awaits`), and the tree maps a block once (`MappedOnce`).
  `ShortBesideOthers` asks what a bio finds that nobody disturbs. The counter runs
  ahead by the copies that threads sleep on, and a client asks for one block, so
  that a loop wants one area at most (`Modest`), begins with nothing free, and ends
  with a free block or another thread about to give one back (`Promised`). A bio
  with no other thread in a demotion therefore finds something on a list that has no
  free block. If it gets to the last group it has not slept yet (`Straight`):
  everything above is full, and neither its block nor the areas it holds are mapped
  by anyone else (`Fresh`). If the last group were full too, with every listed area
  in the tree, more logical blocks than there are would be mapped (`AloneFindsBlock`).
  The search for that invariant is what added the last condition: the property
  first said "only beside another thread's demotion", which the run `demotion`
  confirms, and which TLC refutes with groups of 2, 1 and 1 blocks, two clients
  that read all four blocks and a caller that evicts one. There one client maps a
  block while another sleeps in a demotion for the same block; the second area is
  refused by the tree and keeps its block, and later a bio for a block that nothing
  maps finds every physical block taken.
- `ReissueProofs`: `TellsInTheEnd`, `WholeBiosGoHome` and `OneAreaIsStraight`, for any
  sizes of blocks and stripes, any bios, and any order in which the device works.
  For the first, pieces form a tree of depth two under the user's bio (`Family`); a
  bio's `remaining` is one for itself, until its own end, and one for each piece that
  is not over (`Counted`); the sectors of the bios cover those of the user's
  (`Covering`); and what is over or moved has been transferred. A bio that the loops
  still cut is held back (`Held`), so that no count reaches zero early.
  For the other two, each sector of a bio that has been aimed goes where it ought
  to (`Goes`), a cut keeps that for both halves, and the loop's cursor is in step
  with the bio's first sector (`Begun`). They assume that the table maps a block
  once (`MapsOnce`), which `BlockAreaTreeProofs` proves of the tree that
  `re_request_bio` searches (`TreeOnce`, in `TreeInv`).
- `LifeCycleProofs`: `SafeInTheModule` and `DiskAsItWas`, for any number of threads.
  The invariant says what is ready at each step of the load, and that a hook that
  is set leads to what was saved before.
- `ExtentsProofs`: the geometry of the groups, and what unlinking, adding and
  changing the end of a list does to what is on it, shared by the others.

Only model-checked: all liveness (the prover does not handle fairness), and on
Ioctls `PriorityForetells`, which compares folds over the lists and would need
induction over them.

## Not modelled

- Preemption and several processors inside the manager: then the lists and trees
  themselves break, for they are changed pointer by pointer without a lock, and
  any state of them is possible. Demotion has the interleavings that are left
  when that cannot happen.
- Reference counts of pages and bios. The copies never give some of them back,
  which costs memory and changes nothing any thread sees.
- `replacement.c`, the copy that does not wait with its end functions, and
  `hypraid_get_bitmap_area_max`, `hypraid_is_bitmap_free` and
  `hypraid_get_bitmap`: nothing calls them.
- PRINT_AREA only prints, and SET_MODE stores a number nobody reads.
- The file and scanf helpers of `hypraidk_lib.c` and `configure.c`, and the user
  tool: input, output and formatting. That a group may come out without a block
  is in LifeCycle.
- Failed allocations of memory, which the code does not test, but for the
  bitmap's.
- Errors of the device: no completion function looks at one.

## Plan

Done: Extents, StorageMap, BlockArea, AvailableAreas and FreeSpace, Bitmap,
Stripes, Demotion, Ioctls, Reissue and LifeCycle. Proved: for BlockArea types,
purity, the partition of the device, the counters, where logical blocks are,
which areas are popped and which stay, the refinement to StorageMap, and that
bios are served; the counters and stripes; for Demotion the partition of the device
among threads, its counters, its contents and when it runs short; the end and the
ways of a re-issued bio; the index of free extents and its refinement; for Ioctls
the counters and the answers of `TRANSFORM_BLOCK`; the two theorems on the life
cycle.

Next:

1. Demotion with areas of several blocks, whose copies are several sleeps in one
   loop: larger than TLC can explore with two clients as it is.
2. `Recency`: an abstract least-recently-used order that the lists implement.
