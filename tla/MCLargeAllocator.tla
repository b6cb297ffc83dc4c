--------------------------- MODULE MCLargeAllocator ---------------------------
(***************************************************************************)
(* Instance of LargeAllocator for TLC: block classes 4 and 2, with blocks  *)
(* of one class interchangeable.                                           *)
(***************************************************************************)
EXTENDS LargeAllocator

CONSTANTS t1, t2, a1, a2, b1, b2, b3, gpu0, gpu1

MCClasses == <<4, 2>>
MCBlockSize == [h \in Handles |-> IF h \in {a1, a2} THEN 4 ELSE 2]
Symmetry == Permutations({t1, t2}) \union Permutations(Handles \intersect {a1, a2})
            \union Permutations(Handles \intersect {b1, b2, b3})
=============================================================================
