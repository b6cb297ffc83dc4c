-------------------------------- MODULE Ranges --------------------------------
(* Half-open address ranges [va, va + size) and the equal pages they lie   *)
(* on.  Maps from addresses to sizes stand for the allocators' std::maps.  *)
EXTENDS Integers

Disjoint(va, m, vb, n) == va + m <= vb \/ vb + n <= va

(* Range [va, va + size) has a byte on page p, of pageSize bytes. *)
Touches(va, size, p, pageSize) ==
  p * pageSize < va + size /\ va < (p + 1) * pageSize

(* No two ranges of the map f overlap. *)
PairwiseDisjoint(f) ==
  \A va, vb \in DOMAIN f : va # vb => Disjoint(va, f[va], vb, f[vb])

AddRange(f, va, size) ==
  [w \in DOMAIN f \union {va} |-> IF w = va THEN size ELSE f[w]]

RemoveRange(f, va) == [w \in DOMAIN f \ {va} |-> f[w]]
=============================================================================
