--------------------------- MODULE MCSmallAllocator ---------------------------
(* Instance of SmallAllocator for TLC. *)
EXTENDS SmallAllocator, TLC
CONSTANTS gpu0, gpu1, gpu2
=============================================================================
