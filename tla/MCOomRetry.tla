------------------------------ MODULE MCOomRetry ------------------------------
(* Instance of OomRetry for TLC: two large classes, sizes in half pages.     *)
EXTENDS OomRetry, TLC
CONSTANTS t1, t2
MCClasses == <<8, 4>>
Symmetry == Permutations(Threads)
=============================================================================
