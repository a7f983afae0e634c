--------------------------- MODULE AvailableAreas ---------------------------
(***************************************************************************)
(* The free extent index of one device group in block_area.c: avails is    *)
(* the list of size classes, each an available_node with the list of its   *)
(* extents, and areaTree is area_tree, the same extents by block number.   *)
(* avail_tree holds the classes of avails by value, so that a search in it *)
(* finds the class of a value wherever it is in the list.                  *)
(*                                                                         *)
(* The index starts with the blocks of group 0 and may be given extents of *)
(* any group, as hypraid_delete_block_area does.                           *)
(***************************************************************************)
EXTENDS Extents, Lists

VARIABLES
  avails,    \* the classes in the order of the list
  areaTree,  \* the extents
  asked      \* history: the blocks the last step was asked for by their count

vars == <<avails, areaTree, asked>>

index == [avails |-> avails, tree |-> areaTree]

Class(v, s) == [value |-> v, areas |-> s]

-----------------------------------------------------------------------------
(* The class an extent is linked to (its parent), and the class of a value *)
(* (available_search).                                                     *)
Parent(avs, x) == CHOOSE c \in Range(avs) : x \in Range(c.areas)

HasValue(avs, v) == \E c \in Range(avs) : c.value = v

ClassFor(avs, v) == CHOOSE c \in Range(avs) : c.value = v

(* The list of class c becomes s.                                          *)
Relist(avs, c, s) ==
  [i \in DOMAIN avs |-> IF avs[i] = c THEN Class(c.value, s) ELSE avs[i]]

(* available_area_extract: the extent leaves the tree and the list of its  *)
(* class, and a class without extents leaves avails.  A slip would keep    *)
(* the empty class.                                                        *)
ExtractKeeping(A, x) ==
  LET c == Parent(A.avails, x)
  IN  [ avails |-> Relist(A.avails, c, Unlink(c.areas, x)), tree |-> A.tree \ {x} ]

Extract(A, x) ==
  LET c == Parent(A.avails, x)
      s == Unlink(c.areas, x)
  IN  [ avails |-> IF s = <<>> THEN Unlink(A.avails, c) ELSE Relist(A.avails, c, s),
        tree   |-> A.tree \ {x} ]

(* available_insert: a new class goes before the first larger one.  At the *)
(* end of the list it would be found by value all the same, but not be     *)
(* where an allocation without an exact fit takes the first for smallest.  *)
NewClassLast(avs, c) == Append(avs, c)

NewClass(avs, c) ==
  LET larger == { i \in DOMAIN avs : c.value < avs[i].value }
  IN  IF larger = {} THEN Append(avs, c) ELSE InsertAt(avs, Min(larger), c)

(* The end of available_area_insert: the extent is linked into the tree    *)
(* and becomes the first of its size class.                                *)
Link(A, x) ==
  LET c == ClassFor(A.avails, Size(x))
  IN  [ avails |-> IF HasValue(A.avails, Size(x))
                   THEN Relist(A.avails, c, Cons(x, c.areas))
                   ELSE NewClass(A.avails, Class(Size(x), <<x>>)),
        tree   |-> A.tree \union {x} ]

(* available_area_search_at of the blocks next to x: the free extent in    *)
(* front of it and the one behind, or none.  The latter is easily          *)
(* forgotten.                                                              *)
InFront(A, x) == { y \in A.tree : x.start - 1 \in Span(y) }

NotBehind(A, x) == {}

Behind(A, x) == { y \in A.tree : x.end + 1 \in Span(y) }

(* x is merged with them: both are extracted, and it takes their places.   *)
The(N) == CHOOSE y \in N : TRUE

Without(A, N) == IF N = {} THEN A ELSE Extract(A, The(N))

Apart(A, x) == Without(Without(A, InFront(A, x)), Behind(A, x))

Joined(A, x) ==
  Extent(IF InFront(A, x) = {} THEN x.start ELSE The(InFront(A, x)).start,
         IF Behind(A, x) = {} THEN x.end ELSE The(Behind(A, x)).end)

(* available_area_insert: an extent that overlaps a free one is refused.   *)
Insert(A, x) ==
  IF \E y \in A.tree : Overlap(x, y) THEN A ELSE Link(Apart(A, x), Joined(A, x))

(* hypraid_delete_block_area merges its area with the neighbours itself,   *)
(* and then inserts the whole.                                             *)
InsertMerged(A, x) == Insert(Apart(A, x), Joined(A, x))

(* available_search, or else the first class of the list.                  *)
Chosen(n) == IF HasValue(avails, n) THEN ClassFor(avails, n) ELSE Head(avails)

-----------------------------------------------------------------------------
(* hypraid_open_block_area                                                 *)
Init ==
  LET A == Insert([avails |-> <<>>, tree |-> {}], Extent(Bound(0), AreaBlocks[0] - 1))
  IN  avails = A.avails /\ areaTree = A.tree /\ asked = 0

Becomes(A) == avails' = A.avails /\ areaTree' = A.tree

(* The end of an eviction, and of a delete: an extent becomes free.        *)
Give(x) == Becomes(Insert(index, x)) /\ asked' = 0

(* A delete gives up mapped blocks only, so none of them is free.          *)
GiveMerged(x) ==
  /\ \A y \in areaTree : ~ Overlap(x, y)
  /\ Becomes(InsertMerged(index, x))
  /\ asked' = 0

(* An allocation of n blocks, in hypraid_insert_block_area and in the loop *)
(* of hypraid_block_replacement_operation: the first extent of the chosen  *)
(* class is taken out, and what is not needed of it is put back.           *)
Take(n) ==
  /\ avails # <<>>
  /\ LET x == Head(Chosen(n).areas)
         A == Extract(index, x)
     IN  Becomes(IF Size(x) <= n THEN A ELSE Insert(A, Extent(x.start + n, x.end)))
  /\ asked' = n

(* hypraid_insert_block_area_no_rearray cuts [s, e] out of a free extent:  *)
(* what is in front of it and what is behind it are put back one by one.   *)
PutBack(A, s, e) == IF s <= e THEN Insert(A, Extent(s, e)) ELSE A

Cut(s, e) ==
  /\ \E x \in areaTree :
       /\ s \in Span(x) /\ e <= x.end
       /\ Becomes(PutBack(PutBack(Extract(index, x), x.start, s - 1), e + 1, x.end))
  /\ asked' = 0

Next ==
  \/ \E s, e \in Block :
       s <= e /\ (Give(Extent(s, e)) \/ GiveMerged(Extent(s, e)) \/ Cut(s, e))
  \/ \E n \in 1 .. Total : Take(n)

Spec == Init /\ [][Next]_vars

-----------------------------------------------------------------------------
(* The tree and the lists hold the same extents: every extent of the tree  *)
(* is once in the list of one class, that of its size, and no class is     *)
(* empty (an empty one would make list_first_entry_or_null return NULL).   *)
ListsAgree ==
  /\ \A x \in areaTree :
       \E i \in DOMAIN avails : \E k \in DOMAIN avails[i].areas :
         /\ avails[i].value = Size(x)
         /\ \A j \in DOMAIN avails : \A m \in DOMAIN avails[j].areas :
              avails[j].areas[m] = x <=> <<i, k>> = <<j, m>>
  /\ \A i \in DOMAIN avails :
       avails[i].areas # <<>> /\ Range(avails[i].areas) \subseteq areaTree

freeBlocks == UNION { Span(x) : x \in areaTree }

(* Free extents are always merged: none is next to another or overlaps it. *)
Unfragmented == areaTree = Runs(freeBlocks)

(* The index implements FreeSpace, the form in which BlockArea has it.     *)
AsFreeSpace == INSTANCE FreeSpace WITH free <- freeBlocks

FreeSpaceSpec == AsFreeSpace!Spec
=============================================================================
