--------------------------- MODULE MCPhysicalMemory ---------------------------
(* Instance of PhysicalMemory for TLC: two threads, five handles that can  *)
(* be permuted, one small and two large sizes.                             *)
EXTENDS PhysicalMemory, TLC

CONSTANTS h1, h2, h3, h4, h5, t1, t2

MCHandles == {h1, h2, h3, h4, h5}
MCThreads == {t1, t2}
Symmetry == Permutations(MCHandles) \union Permutations(MCThreads)
=============================================================================
