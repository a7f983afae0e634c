------------------------------- MODULE Lists --------------------------------
(* The kernel's lists, which hold the areas of a group.                    *)
EXTENDS SequencesExt

(* list_del: the element leaves the list, if it is on it.                  *)
Unlink(s, n) ==
  IF n \in Range(s)
  THEN RemoveAt(s, CHOOSE i \in DOMAIN s : s[i] = n)
  ELSE s
=============================================================================
