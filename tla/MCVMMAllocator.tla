--------------------------- MODULE MCVMMAllocator ---------------------------
(***************************************************************************)
(* Instances of VMMAllocator for TLC.  The threads of one instance are     *)
(* interchangeable, and so are the addresses of one sub-allocator and the  *)
(* events: Symmetry.  Devices and streams are not.                         *)
(***************************************************************************)
EXTENDS VMMAllocator, TLC

CONSTANTS t1, t2, p1, p2, e1, e2, e3, s1, s2, d1, d2, g1, g2

Symmetry == Permutations(Threads) \union Permutations(Events) \union Permutations(Ptrs)
ThreadEventSymmetry == Permutations(Threads) \union Permutations(Events)

OneDevice == [s \in Streams |-> d1]
OnDevice1 == [p \in Ptrs |-> d1]
AllSmall == [p \in Ptrs |-> FALSE]
FirstLarge == [p \in Ptrs |-> p = p1]
StreamPerDevice == [s \in Streams |-> IF s = s1 THEN d1 ELSE d2]
EveryStream == {Streams}
OnlyFirst == {{s1}}
OwnStream == {{s1}, {s2}}
=============================================================================
