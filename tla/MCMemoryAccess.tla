---------------------------- MODULE MCMemoryAccess ----------------------------
(***************************************************************************)
(* Instance of MemoryAccess for TLC: blocks of one class, so that a remap  *)
(* cuts a range where its blocks end.                                      *)
(***************************************************************************)
EXTENDS MemoryAccess

CONSTANTS t1, t2, b1, b2, b3, x1, x2, gpu0, gpu1, gpu2

MCClasses == <<2>>
MCBlockSize == [h \in Handles \union Foreign |-> 2]
Symmetry == Permutations(Threads) \union Permutations(Handles) \union Permutations(Foreign)
=============================================================================
