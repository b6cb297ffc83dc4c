---------------------------- MODULE RangeAllocator ----------------------------
(***************************************************************************)
(* What a sub-allocator promises its callers: the ranges handed out never  *)
(* overlap, lie inside the reserved virtual addresses, and stay usable --  *)
(* every page they touch is backed by memory the device may access -- for  *)
(* as long as they are handed out.  How ranges are chosen, and when pages  *)
(* come and go otherwise, is left open.                                    *)
(***************************************************************************)
EXTENDS Ranges

CONSTANTS VASize, PageSize, Pages

VARIABLES
  live,     \* address -> size of the ranges handed out
  usable    \* pages that are backed and accessible

vars == <<live, usable>>

Usable(va, size, pages) == {p \in Pages : Touches(va, size, p, PageSize)} \subseteq pages

Init == live = [va \in {} |-> 0] /\ usable = {}

Alloc(va, size) ==
  /\ va + size <= VASize
  /\ \A w \in DOMAIN live : Disjoint(va, size, w, live[w])
  /\ usable \subseteq usable' /\ Usable(va, size, usable')
  /\ live' = AddRange(live, va, size)

(* A failed allocation may still have brought some pages in. *)
AddPages == usable \subseteq usable' /\ UNCHANGED live

Free(va) ==
  /\ va \in DOMAIN live
  /\ live' = RemoveRange(live, va)
  /\ UNCHANGED usable

DropPages ==
  /\ usable' \subseteq usable
  /\ \A va \in DOMAIN live : Usable(va, live[va], usable')
  /\ UNCHANGED live

Next ==
  \/ \E va \in 0..VASize, size \in 1..VASize : Alloc(va, size)
  \/ \E va \in DOMAIN live : Free(va)
  \/ AddPages
  \/ DropPages

Spec == Init /\ [][Next]_vars
=============================================================================
