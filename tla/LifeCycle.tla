----------------------------- MODULE LifeCycle -----------------------------
(***************************************************************************)
(* The life of the kernel module (hypraidk-main.c) while the device is in  *)
(* use: it is loaded step by step, the block area manager and the bitmap   *)
(* first and then the two hooks, in the queue's make_request_fn and in the *)
(* disk's fops; it is unloaded step by step, the bitmap first; and any     *)
(* time threads submit bios and call ioctls, which go where the hooks say  *)
(* when they begin.  What they do inside the module is in BlockArea; here  *)
(* it matters what they need of it.                                        *)
(***************************************************************************)
EXTENDS Naturals

CONSTANTS
  Threads,  \* threads that use the device
  Confs     \* what the configuration file may be: "absent", "tiny", "good"

VARIABLES
  pc,       \* the next step of the module's init or exit, or "in" or "out"
  conf,     \* the file as hypraid_read_configure found it
  lists,    \* g_blk_areas is initialised
  map,      \* g_bitmap's map: "null", "open" or "freed"
  fn,       \* the queue's make_request_fn: "orig", "hypraid" or "null"
  savedFn,  \* g_make_request_fn
  ops,      \* the disk's fops
  savedOps, \* g_bdop
  disk,     \* g_disk is set
  queue,    \* g_queue is set
  at,       \* where each thread is: "user", "collector" or "ioctl"
  fault,    \* "none", or what stopped the machine
  early,    \* history: a module was removed that had not got to the hooks
  caught    \* history: the module's code went with a thread in it

own    == <<conf, lists, map, savedFn, savedOps, disk, queue>>
kernel == <<fn, ops>>
ghost  == <<early, caught>>
vars   == <<pc, own, kernel, at, fault, ghost>>

(* The order of blkdev_test_init and of the functions it calls: each hook  *)
(* is saved before it is set, and what it needs is opened before that.     *)
(* HookFirst would set the queue's hook and then save it.                  *)
AfterHookFirst(p) ==
  CASE p = "lists" -> "map"
    [] p = "map" -> "hookFn"
    [] p = "hookFn" -> "saveFn"
    [] p = "saveFn" -> "saveOps"
    [] p = "saveOps" -> "hookOps"
    [] p = "hookOps" -> "in"

After(p) ==
  CASE p = "lists" -> "map"
    [] p = "map" -> "saveFn"
    [] p = "saveFn" -> "hookFn"
    [] p = "hookFn" -> "saveOps"
    [] p = "saveOps" -> "hookOps"
    [] p = "hookOps" -> "in"

Loading == {"disk", "conf", "lists", "map", "saveFn", "hookFn", "saveOps", "hookOps"}

At(p) == pc = p /\ fault = "none"

Init ==
  /\ pc = "out" /\ conf = "absent"
  /\ lists = FALSE /\ map = "null" /\ disk = FALSE /\ queue = FALSE
  /\ savedFn = "null" /\ savedOps = "null"
  /\ fn = "orig" /\ ops = "orig"
  /\ at = [c \in Threads |-> "user"]
  /\ fault = "none"
  /\ early = FALSE /\ caught = FALSE

-----------------------------------------------------------------------------
(* insmod: the module's variables are as its file has them.                *)
Insmod ==
  /\ At("out")
  /\ conf' = "absent"
  /\ lists' = FALSE /\ map' = "null" /\ disk' = FALSE /\ queue' = FALSE
  /\ savedFn' = "null" /\ savedOps' = "null"
  /\ pc' = "disk"
  /\ UNCHANGED <<kernel, at, fault, ghost>>

(* Without the disk blkdev_test_init returns 1, and without the file 0:    *)
(* either is a success to the kernel.                                      *)
GetDisk ==
  /\ At("disk")
  /\ disk' \in BOOLEAN
  /\ pc' = IF disk' THEN "conf" ELSE "in"
  /\ UNCHANGED <<conf, lists, map, savedFn, savedOps, queue, kernel, at, fault, ghost>>

ReadConfigure ==
  /\ At("conf")
  /\ conf' \in Confs
  /\ pc' = IF conf' = "absent" THEN "in" ELSE "lists"
  /\ UNCHANGED <<lists, map, savedFn, savedOps, disk, queue, kernel, at, fault, ghost>>

OpenBlockArea ==
  /\ At("lists")
  /\ lists' = TRUE
  /\ pc' = After(pc)
  /\ UNCHANGED <<conf, map, savedFn, savedOps, disk, queue, kernel, at, fault, ghost>>

(* vzalloc may fail, and nobody looks at what hypraid_open_bitmap returns. *)
OpenBitmap ==
  /\ At("map")
  /\ map' \in {"open", "null"}
  /\ pc' = After(pc)
  /\ UNCHANGED <<conf, lists, savedFn, savedOps, disk, queue, kernel, at, fault, ghost>>

(* hypraid_open_bio_collector                                              *)
SaveFn ==
  /\ At("saveFn")
  /\ savedFn' = fn
  /\ pc' = After(pc)
  /\ UNCHANGED <<conf, lists, map, savedOps, disk, queue, kernel, at, fault, ghost>>

HookFn ==
  /\ At("hookFn")
  /\ fn' = "hypraid"
  /\ pc' = After(pc)
  /\ UNCHANGED <<own, ops, at, fault, ghost>>

(* hypraid_open_ioctl, which copies the fops it saves.                     *)
SaveOps ==
  /\ At("saveOps")
  /\ IF ops = "null" THEN fault' = "nullOps" /\ UNCHANGED <<savedOps, pc>>
                     ELSE savedOps' = ops /\ pc' = After(pc) /\ fault' = fault
  /\ UNCHANGED <<conf, lists, map, savedFn, disk, queue, kernel, at, ghost>>

HookOps ==
  /\ At("hookOps")
  /\ ops' = "hypraid"
  /\ pc' = After(pc)
  /\ UNCHANGED <<own, fn, at, fault, ghost>>

-----------------------------------------------------------------------------
(* rmmod: blkdev_test_exit.  A thread that has the device open since       *)
(* before the load does not keep the module in.                            *)
CloseBitmap ==
  /\ At("in")
  /\ map' = IF map = "open" THEN "freed" ELSE map
  /\ pc' = "unhookFn"
  /\ early' = (early \/ ~ lists)
  /\ UNCHANGED <<conf, lists, savedFn, savedOps, disk, queue, kernel, at, fault, caught>>

Unhook(f) == IF disk THEN pc' = f /\ fault' = fault
                     ELSE pc' = pc /\ fault' = "nullDisk"

CloseBioCollector ==
  /\ At("unhookFn")
  /\ Unhook("unhookOps")
  /\ fn' = IF disk THEN savedFn ELSE fn
  /\ UNCHANGED <<own, ops, at, ghost>>

(* hypraid_close_ioctl, which could be forgotten; then the code goes.      *)
RestoredNot == ops

Restored == savedOps

CloseIoctl ==
  /\ At("unhookOps")
  /\ Unhook("out")
  /\ ops' = IF disk THEN Restored ELSE ops
  /\ caught' = (caught \/ \E c \in Threads : at[c] # "user")
  /\ UNCHANGED <<own, fn, at, early>>

-----------------------------------------------------------------------------
Goes(c, p) == at' = [at EXCEPT ![c] = p]

Stop(cause) == fault' = cause /\ UNCHANGED <<pc, own, kernel, at, ghost>>

User(c) == fault = "none" /\ at[c] = "user"

(* The block layer calls the queue's make_request_fn, in the module's case *)
(* hypraid_bio_collect, which remembers the queue.                         *)
Bio(c) ==
  /\ User(c) /\ fn = "hypraid" /\ pc # "out"
  /\ queue' = TRUE
  /\ Goes(c, "collector")
  /\ UNCHANGED <<pc, conf, lists, map, savedFn, savedOps, disk, kernel, fault, ghost>>

(* What a thread in the module finds missing: its code, the lists or the   *)
(* map, the function it has to call next; or, where the configuration      *)
(* gives a group no block (less than eight sectors, or no number at all,   *)
(* so that whatever was in `blocks' is taken), a free extent.              *)
Missing ==
  IF pc = "out" THEN {"goneCode"}
  ELSE (IF lists THEN {} ELSE {"noLists"})
       \union (CASE map = "open" -> {} [] map = "null" -> {"noMap"}
                 [] map = "freed" -> {"freedMap"})
       \union (IF savedFn = "orig" THEN {} ELSE {"nullFn"})

(* A bio for mapped blocks does not get to see the map.                    *)
Collected(c) ==
  /\ fault = "none" /\ at[c] = "collector"
  /\ Missing \subseteq {"noMap", "freedMap"}
  /\ Goes(c, "user")
  /\ UNCHANGED <<pc, own, kernel, fault, ghost>>

CollectFails(c) ==
  /\ fault = "none" /\ at[c] = "collector"
  /\ \E cause \in Missing \union (IF conf = "tiny" THEN {"noBlocks"} ELSE {}) : Stop(cause)

(* An ioctl of the disk.  One of another kind than the module's is handed  *)
(* on to the saved fops, and a copy of blocks, whether the caller asks for *)
(* it or for an eviction, is submitted with the queue of the last bios.    *)
Ioctl(c) ==
  /\ User(c) /\ ops = "hypraid" /\ pc # "out"
  /\ Goes(c, "ioctl")
  /\ UNCHANGED <<pc, own, kernel, fault, ghost>>

Returned(c) ==
  /\ fault = "none" /\ at[c] = "ioctl" /\ pc # "out"
  /\ Goes(c, "user")
  /\ UNCHANGED <<pc, own, kernel, fault, ghost>>

IoctlFails(c) ==
  /\ fault = "none" /\ at[c] = "ioctl"
  /\ \/ \E cause \in Missing : Stop(cause)
     \/ savedOps # "orig" /\ Stop("nullOps")
     \/ pc # "out" /\ ~ queue /\ Stop("nullQueue")

(* A call through a hook that is NULL, or that leads into code that is     *)
(* gone.                                                                   *)
Lost(c) ==
  /\ User(c)
  /\ \/ fn = "null" /\ Stop("nullFn")
     \/ ops = "null" /\ Stop("nullOps")
     \/ pc = "out" /\ (fn = "hypraid" \/ ops = "hypraid") /\ Stop("goneCode")

Halted == fault # "none" /\ UNCHANGED vars

InitSteps ==
  \/ Insmod \/ GetDisk \/ ReadConfigure \/ OpenBlockArea \/ OpenBitmap
  \/ SaveFn \/ HookFn \/ SaveOps \/ HookOps

ExitSteps == CloseBitmap \/ CloseBioCollector \/ CloseIoctl

Use(c) ==
  \/ Bio(c) \/ Collected(c) \/ CollectFails(c)
  \/ Ioctl(c) \/ Returned(c) \/ IoctlFails(c) \/ Lost(c)

Next == InitSteps \/ ExitSteps \/ (\E c \in Threads : Use(c)) \/ Halted

Spec == Init /\ [][Next]_vars

-----------------------------------------------------------------------------
(* From insmod to rmmod the device can be used, whenever bios and ioctls   *)
(* come: nothing of the module is met before it is ready.  The exceptions  *)
(* are a map that could not be allocated, groups without blocks, a copy    *)
(* asked for before the first bio, and what an earlier module left behind  *)
(* that was removed before it had hooks, or while it was in use.           *)
SafeWhileIn ==
  fault # "none" /\ pc \in Loading \union {"in"} =>
    \/ fault = "noMap" \/ fault = "noBlocks" \/ fault = "nullQueue"
    \/ early \/ caught

(* Once it is out the disk is as it was, however often it came and went,   *)
(* unless a load had not got to the hooks: then its removal leaves them    *)
(* NULL, and the next load saves what it finds.                            *)
HooksRestored == pc = "out" /\ ~ early => fn = "orig" /\ ops = "orig"
=============================================================================
