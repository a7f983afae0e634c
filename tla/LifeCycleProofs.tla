-------------------------- MODULE LifeCycleProofs --------------------------
(***************************************************************************)
(* What LifeCycle's run shows for two threads, for any number of them.     *)
(***************************************************************************)
EXTENDS LifeCycle, TLAPS

Unhooked == {"out", "disk", "conf", "lists", "map", "saveFn", "hookFn"}

Unloading == {"unhookFn", "unhookOps"}

TypeInv ==
  /\ pc \in Loading \union Unloading \union {"in", "out"}
  /\ at \in [Threads -> {"user", "collector", "ioctl"}]

(* Where the disk's hooks lead, and where the saved ones do, at each step  *)
(* of a load and an unload, as long as every module that was removed had   *)
(* got to its hooks.                                                       *)
Hooks ==
  ~ early =>
    /\ pc \in Unhooked => fn = "orig"
    /\ pc \in {"saveOps", "hookOps"} => fn = "hypraid"
    /\ pc \in Unhooked \union {"saveOps", "hookOps"} => ops = "orig"
    /\ pc \in {"disk", "conf"} => ~ lists
    /\ pc \in {"map", "saveFn", "hookFn", "saveOps", "hookOps", "unhookFn"} => lists
    /\ pc \in {"hookFn", "saveOps", "hookOps", "unhookFn"} => savedFn = "orig"
    /\ pc \in {"hookOps", "unhookFn", "unhookOps"} => savedOps = "orig"
    /\ pc = "in" /\ lists => savedFn = "orig" /\ savedOps = "orig"
    /\ pc = "in" /\ lists => fn = "hypraid" /\ ops = "hypraid"
    /\ pc = "in" /\ ~ lists => fn = "orig" /\ ops = "orig"
    /\ pc = "unhookOps" => fn = "orig"

(* Who can be in the module then, if nobody was in the last one when it    *)
(* went, and what he finds.                                                *)
Visitors ==
  ~ early /\ ~ caught =>
    /\ pc \in Unhooked => \A c \in Threads : at[c] = "user"
    /\ pc \in {"saveOps", "hookOps"} => \A c \in Threads : at[c] # "ioctl"
    /\ pc = "in" /\ ~ lists => \A c \in Threads : at[c] = "user"
    /\ pc \in Loading \union {"in"} => map \in {"null", "open"}

IInv == TypeInv /\ Hooks /\ Visitors /\ SafeWhileIn

-----------------------------------------------------------------------------
LEMMA InitIInv == Init => IInv
BY DEF Init, IInv, TypeInv, Hooks, Visitors, SafeWhileIn, Unhooked, Unloading, Loading

LEMMA InitStepsKeep == IInv /\ InitSteps => IInv'
<1> SUFFICES ASSUME IInv, InitSteps PROVE IInv'
  OBVIOUS
<1> USE DEF IInv, TypeInv, Hooks, Visitors, SafeWhileIn, Unhooked, Unloading, Loading,
            At, own, kernel, ghost
<1>1. CASE Insmod
  BY <1>1 DEF Insmod
<1>2. CASE GetDisk
  BY <1>2 DEF GetDisk
<1>3. CASE ReadConfigure
  BY <1>3 DEF ReadConfigure
<1>4. CASE OpenBlockArea
  BY <1>4 DEF OpenBlockArea, After
<1>5. CASE OpenBitmap
  BY <1>5 DEF OpenBitmap, After
<1>6. CASE SaveFn
  BY <1>6 DEF SaveFn, After
<1>7. CASE HookFn
  BY <1>7 DEF HookFn, After
<1>8. CASE SaveOps
  BY <1>8 DEF SaveOps, After
<1>9. CASE HookOps
  BY <1>9 DEF HookOps, After
<1> QED
  BY <1>1, <1>2, <1>3, <1>4, <1>5, <1>6, <1>7, <1>8, <1>9 DEF InitSteps

LEMMA ExitStepsKeep == IInv /\ ExitSteps => IInv'
<1> SUFFICES ASSUME IInv, ExitSteps PROVE IInv'
  OBVIOUS
<1> USE DEF IInv, TypeInv, Hooks, Visitors, SafeWhileIn, Unhooked, Unloading, Loading,
            At, Unhook, own, kernel, ghost
<1>1. CASE CloseBitmap
  BY <1>1 DEF CloseBitmap
<1>2. CASE CloseBioCollector
  BY <1>2 DEF CloseBioCollector
<1>3. CASE CloseIoctl
  BY <1>3 DEF CloseIoctl, Restored
<1> QED
  BY <1>1, <1>2, <1>3 DEF ExitSteps

(* A thread that stops the machine does so for one of the listed reasons.  *)
LEMMA StopsKeep ==
  ASSUME IInv, fault = "none", NEW cause, Stop(cause),
         ~ early /\ ~ caught /\ pc \in Loading \union {"in"}
           => cause \in {"noMap", "noBlocks", "nullQueue"}
  PROVE  IInv'
BY DEF IInv, TypeInv, Hooks, Visitors, SafeWhileIn, Stop, own, kernel, ghost

LEMMA UseKeeps ==
  ASSUME IInv, NEW c \in Threads, Use(c)
  PROVE  IInv'
<1>1. CASE Bio(c)
  BY <1>1 DEF Bio, User, Goes, IInv, TypeInv, Hooks, Visitors, SafeWhileIn, Unhooked,
              Unloading, Loading, kernel, ghost
<1>2. CASE Ioctl(c)
  BY <1>2 DEF Ioctl, User, Goes, IInv, TypeInv, Hooks, Visitors, SafeWhileIn, Unhooked,
              Unloading, Loading, own, kernel, ghost
<1>3. CASE Collected(c) \/ Returned(c)
  BY <1>3 DEF Collected, Returned, Goes, IInv, TypeInv, Hooks, Visitors, SafeWhileIn,
              Unhooked, Unloading, Loading, own, kernel, ghost
<1> DEFINE Quiet == ~ early /\ ~ caught /\ pc \in Loading \union {"in"}
<1>4. Quiet /\ at[c] # "user" => Missing \subseteq {"noMap"} /\ pc # "out"
  BY DEF Missing, IInv, TypeInv, Hooks, Visitors, Unhooked, Unloading, Loading
<1>5. CASE CollectFails(c)
  <2>1. PICK cause \in Missing \union (IF conf = "tiny" THEN {"noBlocks"} ELSE {}) : Stop(cause)
    BY <1>5 DEF CollectFails
  <2>2. Quiet => cause \in {"noMap", "noBlocks", "nullQueue"}
    BY <1>4, <1>5, <2>1 DEF CollectFails
  <2> QED
    BY <1>5, <2>1, <2>2, StopsKeep DEF CollectFails
<1>6. CASE IoctlFails(c)
  <2>1. Quiet => savedOps = "orig"
    BY <1>6 DEF IoctlFails, IInv, TypeInv, Hooks, Visitors, Unhooked, Unloading, Loading
  <2>2. CASE \E cause \in Missing : Stop(cause)
    BY <1>4, <1>6, <2>2, StopsKeep DEF IoctlFails
  <2>3. CASE savedOps # "orig" /\ Stop("nullOps")
    BY <1>6, <2>1, <2>3, StopsKeep DEF IoctlFails
  <2>4. CASE pc # "out" /\ ~ queue /\ Stop("nullQueue")
    BY <1>6, <2>4, StopsKeep DEF IoctlFails
  <2> QED
    BY <1>6, <2>2, <2>3, <2>4 DEF IoctlFails
<1>7. CASE Lost(c)
  <2>1. PICK cause : Stop(cause) /\ ~ Quiet
    BY <1>7 DEF Lost, IInv, TypeInv, Hooks, Unhooked, Unloading, Loading
  <2> QED
    BY <1>7, <2>1, StopsKeep DEF Lost, User
<1> QED
  BY <1>1, <1>2, <1>3, <1>5, <1>6, <1>7 DEF Use

LEMMA NextIInv == IInv /\ [Next]_vars => IInv'
<1> SUFFICES ASSUME IInv, [Next]_vars PROVE IInv'
  OBVIOUS
<1>1. CASE Halted \/ UNCHANGED vars
  BY <1>1 DEF Halted, vars, own, kernel, ghost, IInv, TypeInv, Hooks, Visitors, SafeWhileIn
<1> QED
  BY <1>1, InitStepsKeep, ExitStepsKeep, UseKeeps DEF Next

-----------------------------------------------------------------------------
(* From insmod to rmmod nothing goes wrong but for the listed reasons, for *)
(* any number of threads in the block layer and in ioctls.                 *)
THEOREM SafeInTheModule == Spec => []SafeWhileIn
<1>1. IInv => SafeWhileIn
  BY DEF IInv
<1> QED
  BY <1>1, InitIInv, NextIInv, PTL DEF Spec

(* A module that had got to its hooks leaves the disk as it found it.      *)
THEOREM DiskAsItWas == Spec => []HooksRestored
<1>1. IInv => HooksRestored
  BY DEF IInv, Hooks, HooksRestored, Unhooked
<1> QED
  BY <1>1, InitIInv, NextIInv, PTL DEF Spec
=============================================================================
