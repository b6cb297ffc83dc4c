-------------------------------- MODULE Totals --------------------------------
(* Sums over maps: the loops and the std::accumulate calls that add up     *)
(* sizes, and what the running counters stand for.                         *)
EXTENDS Integers, FiniteSetsExt

(* The sum of the values of the map f. *)
Total(f) == MapThenSumSet(LAMBDA x : f[x], DOMAIN f)
=============================================================================
