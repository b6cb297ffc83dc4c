----------------------------- MODULE MCDeviceStats -----------------------------
(* Instance of DeviceStats for TLC: interchangeable threads. *)
EXTENDS DeviceStats, TLC
CONSTANTS t1, t2, t3
Symmetry == Permutations(Threads)
=============================================================================
