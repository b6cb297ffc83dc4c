----------------------------- MODULE TotalsProofs -----------------------------
(***************************************************************************)
(* Lemmas about Total: what a sum over a finite map is, and how it changes *)
(* when an entry comes, goes or moves.  A sum of natural numbers is the    *)
(* size of the set of its units: f[x] of them for each x.                  *)
(***************************************************************************)
EXTENDS Totals, Sequences, FiniteSetTheorems, WellFoundedInduction, TLAPS

-----------------------------------------------------------------------------
(* Induction over the subsets of a finite set *)

LEMMA LeastElement ==
  ASSUME NEW S \in SUBSET Nat, S # {}
  PROVE  \E n \in S : \A m \in S : n <= m
<1> DEFINE R == OpToRel(<, Nat)
<1>1. IsWellFoundedOn(R, Nat)
  BY NatLessThanWellFounded
<1>2. \A m, n \in Nat : m < n => <<m, n>> \in R
  BY DEF OpToRel
<1> HIDE DEF R
<1>3. PICK n \in S : \A m \in S : ~ (<<m, n>> \in R)
  BY <1>1, WFMin
<1>4. \A m \in S : m \in Nat /\ n \in Nat
  OBVIOUS
<1>5. \A m \in S : ~ (m < n)
  BY <1>2, <1>3, <1>4
<1>6. \A m \in S : n <= m
  BY <1>4, <1>5
<1>q. QED BY <1>6

(* The element a fold takes from the set s. *)
Pick(s) == CHOOSE x \in s : TRUE

LEMMA SubsetInduction ==
  ASSUME NEW D, IsFiniteSet(D), NEW Good, {} \in Good,
         \A s \in SUBSET D : s # {} /\ s \ {Pick(s)} \in Good => s \in Good
  PROVE  SUBSET D \subseteq Good
<1> SUFFICES ASSUME NEW bad \in SUBSET D, bad \notin Good PROVE FALSE
  OBVIOUS
<1> DEFINE Bad == {s \in SUBSET D : s \notin Good}
           Sizes == {Cardinality(s) : s \in Bad}
<1>1. \A s \in SUBSET D : IsFiniteSet(s) /\ Cardinality(s) \in Nat
  BY FS_Subset, FS_CardinalityType
<1>2. Sizes \in SUBSET Nat /\ Sizes # {}
  BY <1>1
<1> HIDE DEF Sizes
<1>3. PICK n \in Sizes : \A m \in Sizes : n <= m
  BY <1>2, LeastElement
<1>4. PICK s \in Bad : n = Cardinality(s)
  BY <1>3 DEF Sizes
<1>5. s # {} /\ s \in SUBSET D /\ s \notin Good
  BY <1>4
<1>6. Pick(s) \in s
  BY <1>5 DEF Pick
<1>7. Cardinality(s \ {Pick(s)}) = Cardinality(s) - 1
  BY <1>1, <1>5, <1>6, FS_RemoveElement
<1>8. s \ {Pick(s)} \in Bad
  BY <1>5
<1>9. Cardinality(s \ {Pick(s)}) \in Sizes
  BY <1>8 DEF Sizes
<1>10. Cardinality(s) <= Cardinality(s) - 1
  BY <1>3, <1>4, <1>7, <1>9
<1>11. Cardinality(s) \in Nat
  BY <1>1, <1>5
<1>q. QED BY <1>10, <1>11

-----------------------------------------------------------------------------
(* A sum is the number of its units *)

Units(f, s) == UNION {{x} \X (1..f[x]) : x \in s}

LEMMA Block ==
  ASSUME NEW x, NEW n \in Nat
  PROVE  IsFiniteSet({x} \X (1..n)) /\ Cardinality({x} \X (1..n)) = n
<1>1. IsFiniteSet({x}) /\ Cardinality({x}) = 1
  BY FS_Singleton
<1>2. IsFiniteSet(1..n) /\ Cardinality(1..n) = n
  BY FS_Interval
<1> DEFINE S == {x}
           T == 1..n
<1> HIDE DEF S, T
<1>3. IsFiniteSet(S \X T) /\ Cardinality(S \X T) = Cardinality(S) * Cardinality(T)
  BY <1>1, <1>2, FS_Product DEF S, T
<1>4. IsFiniteSet(S \X T) /\ Cardinality(S \X T) = 1 * n
  BY <1>1, <1>2, <1>3 DEF S, T
<1>q. QED BY <1>4 DEF S, T

LEMMA UnitsStep ==
  ASSUME NEW f, NEW s, NEW x \in s, f[x] \in Nat, IsFiniteSet(Units(f, s \ {x}))
  PROVE  /\ IsFiniteSet(Units(f, s))
         /\ Cardinality(Units(f, s)) = f[x] + Cardinality(Units(f, s \ {x}))
<1> DEFINE A == {x} \X (1..f[x])
           B == Units(f, s \ {x})
<1>1. IsFiniteSet(A) /\ Cardinality(A) = f[x]
  BY Block
<1>2. Units(f, s) = A \union B /\ A \intersect B = {}
  BY DEF Units
<1>3. IsFiniteSet(B) /\ Cardinality(B) \in Nat
  BY FS_CardinalityType
<1> HIDE DEF A, B
<1>4. /\ IsFiniteSet(A \union B)
      /\ Cardinality(A \union B) = Cardinality(A) + Cardinality(B) - Cardinality(A \intersect B)
  BY <1>1, <1>3, FS_Union
<1>5. Cardinality(A \intersect B) = 0
  BY <1>2, FS_EmptySet
<1>q. QED BY <1>1, <1>2, <1>3, <1>4, <1>5 DEF B

LEMMA UnitsFinite ==
  ASSUME NEW f, NEW D, IsFiniteSet(D), \A x \in D : f[x] \in Nat
  PROVE  \A s \in SUBSET D : IsFiniteSet(Units(f, s))
<1> DEFINE Good == {s \in SUBSET D : IsFiniteSet(Units(f, s))}
<1>1. {} \in Good
  BY FS_EmptySet DEF Units
<1>2. ASSUME NEW s \in SUBSET D, s # {}, s \ {Pick(s)} \in Good
      PROVE  s \in Good
  BY <1>2, UnitsStep DEF Pick
<1> HIDE DEF Good
<1>3. SUBSET D \subseteq Good
  BY <1>1, <1>2, SubsetInduction
<1>q. QED BY <1>3 DEF Good

(* The recursion that MapThenSumSet is defined by. *)
Unfolds(g, f) ==
  g = [s \in SUBSET (DOMAIN f) |->
         IF s = {} THEN 0 ELSE f[Pick(s)] + g[s \ {Pick(s)}]]

LEMMA TotalUnfolds == ASSUME NEW f PROVE Total(f) = (CHOOSE g : Unfolds(g, f))[DOMAIN f]
  BY DEF Total, MapThenSumSet, MapThenFoldSet, Unfolds, Pick

LEMMA TotalIsCardinality ==
  ASSUME NEW f, IsFiniteSet(DOMAIN f), \A x \in DOMAIN f : f[x] \in Nat
  PROVE  /\ IsFiniteSet(Units(f, DOMAIN f))
         /\ Total(f) = Cardinality(Units(f, DOMAIN f))
<1> DEFINE D == DOMAIN f
           count == [s \in SUBSET D |-> Cardinality(Units(f, s))]
           g == CHOOSE h : Unfolds(h, f)
           Good == {s \in SUBSET D : g[s] = Cardinality(Units(f, s))}
<1>1. \A s \in SUBSET D : IsFiniteSet(Units(f, s))
  BY UnitsFinite
<1>2. Cardinality(Units(f, {})) = 0
  BY FS_EmptySet DEF Units
<1>3. \A s \in SUBSET D : s # {} =>
        /\ Pick(s) \in s /\ s \ {Pick(s)} \in SUBSET D
        /\ Cardinality(Units(f, s)) = f[Pick(s)] + Cardinality(Units(f, s \ {Pick(s)}))
  <2> SUFFICES ASSUME NEW s \in SUBSET D, s # {}
               PROVE  /\ Pick(s) \in s /\ s \ {Pick(s)} \in SUBSET D
                      /\ Cardinality(Units(f, s)) = f[Pick(s)] + Cardinality(Units(f, s \ {Pick(s)}))
    OBVIOUS
  <2>1. Pick(s) \in s
    BY DEF Pick
  <2>q. QED BY <1>1, <2>1, UnitsStep
<1>4. Unfolds(count, f)
  <2>1. \A s \in SUBSET D :
          Cardinality(Units(f, s)) = IF s = {} THEN 0 ELSE f[Pick(s)] + count[s \ {Pick(s)}]
    BY <1>2, <1>3
  <2>q. QED BY <2>1 DEF Unfolds
<1>5. Unfolds(g, f)
  BY <1>4
<1>6. \A s \in SUBSET D : g[s] = IF s = {} THEN 0 ELSE f[Pick(s)] + g[s \ {Pick(s)}]
  BY <1>5 DEF Unfolds
<1> HIDE DEF g, count
<1>7. {} \in Good
  BY <1>2, <1>6
<1>8. \A s \in SUBSET D : s # {} /\ s \ {Pick(s)} \in Good => s \in Good
  BY <1>3, <1>6
<1> HIDE DEF Good
<1>9. SUBSET D \subseteq Good
  BY <1>7, <1>8, SubsetInduction
<1>10. g[D] = Cardinality(Units(f, D))
  BY <1>9 DEF Good
<1>q. QED BY <1>1, <1>10, TotalUnfolds DEF g

-----------------------------------------------------------------------------
(* How a sum changes *)

IsFiniteMap(f) == IsFiniteSet(DOMAIN f) /\ \A x \in DOMAIN f : f[x] \in Nat

LEMMA TotalNat == ASSUME NEW f, IsFiniteMap(f) PROVE Total(f) \in Nat
  BY TotalIsCardinality, FS_CardinalityType DEF IsFiniteMap

LEMMA TotalEmpty ==
  ASSUME NEW f, DOMAIN f = {}
  PROVE  IsFiniteMap(f) /\ Total(f) = 0
<1>1. IsFiniteMap(f)
  BY FS_EmptySet DEF IsFiniteMap
<1>2. Units(f, DOMAIN f) = {}
  BY DEF Units
<1>q. QED BY <1>1, <1>2, TotalIsCardinality, FS_EmptySet DEF IsFiniteMap

(* Equal maps up to what they are outside their domain. *)
LEMMA TotalSame ==
  ASSUME NEW f, NEW g, IsFiniteMap(f), DOMAIN g = DOMAIN f, \A x \in DOMAIN f : g[x] = f[x]
  PROVE  IsFiniteMap(g) /\ Total(g) = Total(f)
<1>1. IsFiniteMap(g)
  BY DEF IsFiniteMap
<1>2. Units(g, DOMAIN g) = Units(f, DOMAIN f)
  BY DEF Units
<1>q. QED BY <1>1, <1>2, TotalIsCardinality DEF IsFiniteMap

LEMMA TotalRemove ==
  ASSUME NEW f, NEW g, NEW x \in DOMAIN f, IsFiniteMap(f),
         DOMAIN g = DOMAIN f \ {x}, \A y \in DOMAIN g : g[y] = f[y]
  PROVE  IsFiniteMap(g) /\ Total(f) = Total(g) + f[x]
<1>1. IsFiniteSet(DOMAIN g)
  BY FS_RemoveElement DEF IsFiniteMap
<1>2. IsFiniteMap(g)
  BY <1>1 DEF IsFiniteMap
<1>3. Units(g, DOMAIN g) = Units(f, DOMAIN f \ {x})
  BY DEF Units
<1>4. IsFiniteSet(Units(g, DOMAIN g)) /\ Total(g) = Cardinality(Units(g, DOMAIN g))
  BY <1>2, TotalIsCardinality DEF IsFiniteMap
<1>5. Total(f) = Cardinality(Units(f, DOMAIN f))
  BY TotalIsCardinality DEF IsFiniteMap
<1>6. f[x] \in Nat
  BY DEF IsFiniteMap
<1>7. Cardinality(Units(f, DOMAIN f)) = f[x] + Cardinality(Units(f, DOMAIN f \ {x}))
  BY <1>3, <1>4, <1>6, UnitsStep
<1>8. Total(g) \in Nat
  BY <1>2, TotalNat
<1>q. QED BY <1>2, <1>3, <1>4, <1>5, <1>6, <1>7, <1>8

LEMMA TotalAdd ==
  ASSUME NEW f, NEW g, NEW x, IsFiniteMap(f), x \notin DOMAIN f, g[x] \in Nat,
         DOMAIN g = DOMAIN f \union {x}, \A y \in DOMAIN f : g[y] = f[y]
  PROVE  IsFiniteMap(g) /\ Total(g) = Total(f) + g[x]
<1>1. IsFiniteSet(DOMAIN g)
  BY FS_AddElement DEF IsFiniteMap
<1>2. IsFiniteMap(g)
  BY <1>1 DEF IsFiniteMap
<1>3. x \in DOMAIN g /\ DOMAIN f = DOMAIN g \ {x} /\ \A y \in DOMAIN f : f[y] = g[y]
  OBVIOUS
<1>q. QED BY <1>2, <1>3, TotalRemove

LEMMA TotalChange ==
  ASSUME NEW f, NEW g, NEW x \in DOMAIN f, IsFiniteMap(f), g[x] \in Nat,
         DOMAIN g = DOMAIN f, \A y \in DOMAIN f : y # x => g[y] = f[y]
  PROVE  IsFiniteMap(g) /\ Total(g) = Total(f) - f[x] + g[x]
<1> DEFINE rest == [y \in DOMAIN f \ {x} |-> f[y]]
<1>1. IsFiniteMap(g)
  BY DEF IsFiniteMap
<1>2. /\ DOMAIN rest = DOMAIN f \ {x} /\ DOMAIN rest = DOMAIN g \ {x}
      /\ \A y \in DOMAIN rest : rest[y] = f[y] /\ rest[y] = g[y]
  OBVIOUS
<1> HIDE DEF rest
<1>3. IsFiniteMap(rest) /\ Total(f) = Total(rest) + f[x]
  BY <1>2, TotalRemove
<1>4. Total(g) = Total(rest) + g[x]
  <2>1. x \in DOMAIN g
    OBVIOUS
  <2>q. QED BY <1>1, <1>2, <2>1, TotalRemove
<1>5. Total(rest) \in Nat /\ f[x] \in Nat
  BY <1>3, TotalNat DEF IsFiniteMap
<1>q. QED BY <1>1, <1>3, <1>4, <1>5

(* The entries of f under other names. *)
LEMMA TotalMove ==
  ASSUME NEW f, NEW g, IsFiniteMap(f), NEW move \in Bijection(DOMAIN f, DOMAIN g),
         \A x \in DOMAIN f : g[move[x]] = f[x]
  PROVE  IsFiniteMap(g) /\ Total(g) = Total(f)
<1> DEFINE F == Units(f, DOMAIN f)
           G == Units(g, DOMAIN g)
           m == [u \in F |-> <<move[u[1]], u[2]>>]
<1>1. /\ move \in [DOMAIN f -> DOMAIN g]
      /\ \A x, y \in DOMAIN f : move[x] = move[y] => x = y
      /\ \A z \in DOMAIN g : \E x \in DOMAIN f : move[x] = z
  BY DEF Bijection, Injection, Surjection, IsInjective
<1>2. IsFiniteMap(g)
  <2>1. IsFiniteSet(DOMAIN g)
    BY FS_Bijection DEF ExistsBijection, IsFiniteMap
  <2>2. \A z \in DOMAIN g : g[z] \in Nat
    BY <1>1 DEF IsFiniteMap
  <2>q. QED BY <2>1, <2>2 DEF IsFiniteMap
<1>3. /\ \A u \in F : u[1] \in DOMAIN f /\ u[2] \in 1..f[u[1]] /\ u = <<u[1], u[2]>>
      /\ \A x \in DOMAIN f : \A i \in 1..f[x] : <<x, i>> \in F
      /\ \A u \in G : u[1] \in DOMAIN g /\ u[2] \in 1..g[u[1]] /\ u = <<u[1], u[2]>>
      /\ \A x \in DOMAIN g : \A i \in 1..g[x] : <<x, i>> \in G
  BY DEF Units
<1> HIDE DEF F, G
<1>4. \A u \in F : m[u] \in G
  BY <1>1, <1>3
<1>5. \A u, v \in F : m[u] = m[v] => u = v
  <2> SUFFICES ASSUME NEW u \in F, NEW v \in F, m[u] = m[v] PROVE u = v
    OBVIOUS
  <2>1. move[u[1]] = move[v[1]] /\ u[2] = v[2]
    OBVIOUS
  <2>2. u[1] = v[1]
    BY <1>1, <1>3, <2>1
  <2>q. QED BY <1>3, <2>1, <2>2
<1>6. \A w \in G : \E u \in F : m[u] = w
  <2> SUFFICES ASSUME NEW w \in G PROVE \E u \in F : m[u] = w
    OBVIOUS
  <2>1. PICK x \in DOMAIN f : move[x] = w[1]
    BY <1>1, <1>3
  <2>2. <<x, w[2]>> \in F
    BY <1>3, <2>1
  <2>3. m[<<x, w[2]>>] = w
    BY <1>3, <2>1, <2>2
  <2>q. QED BY <2>2, <2>3
<1>7. m \in [F -> G]
  BY <1>4
<1> HIDE DEF m
<1>8. m \in Bijection(F, G)
  BY <1>5, <1>6, <1>7 DEF Bijection, Injection, Surjection, IsInjective
<1>9. Cardinality(G) = Cardinality(F)
  BY <1>8, TotalIsCardinality, FS_Bijection DEF ExistsBijection, IsFiniteMap, F
<1>q. QED BY <1>2, <1>9, TotalIsCardinality DEF IsFiniteMap, F, G

(* The sum over a sequence, one element at a time. *)
LEMMA TotalTail ==
  ASSUME NEW s \in Seq(Nat), s # <<>>
  PROVE  /\ IsFiniteMap(s) /\ IsFiniteMap(Tail(s))
         /\ Total(s) = Head(s) + Total(Tail(s))
<1>1. /\ Len(s) \in Nat /\ Len(s) > 0 /\ DOMAIN s = 1..Len(s)
      /\ Len(Tail(s)) = Len(s) - 1 /\ DOMAIN Tail(s) = 1..(Len(s) - 1)
      /\ \A i \in 1..(Len(s) - 1) : Tail(s)[i] = s[i + 1]
      /\ Head(s) = s[1] /\ Tail(s) \in Seq(Nat)
  OBVIOUS
<1>2. \A i \in 1..Len(s) : s[i] \in Nat
  OBVIOUS
<1>3. IsFiniteSet(1..Len(s))
  BY <1>1, FS_Interval
<1>4. IsFiniteMap(s)
  BY <1>1, <1>2, <1>3 DEF IsFiniteMap
<1> DEFINE rest == [i \in 2..Len(s) |-> s[i]]
           move == [i \in 2..Len(s) |-> i - 1]
<1>5. /\ 1 \in DOMAIN s /\ DOMAIN rest = DOMAIN s \ {1}
      /\ \A i \in DOMAIN rest : rest[i] = s[i]
  BY <1>1
<1>6. IsFiniteMap(rest) /\ Total(s) = Total(rest) + s[1]
  BY <1>4, <1>5, TotalRemove
<1>7. move \in Bijection(DOMAIN rest, DOMAIN Tail(s))
  <2>1. move \in [2..Len(s) -> 1..(Len(s) - 1)]
    BY <1>1
  <2>2. \A i, j \in 2..Len(s) : move[i] = move[j] => i = j
    OBVIOUS
  <2>3. \A k \in 1..(Len(s) - 1) : k + 1 \in 2..Len(s) /\ move[k + 1] = k
    BY <1>1
  <2> HIDE DEF move
  <2>4. \A k \in 1..(Len(s) - 1) : \E i \in 2..Len(s) : move[i] = k
    BY <2>3
  <2>q. QED BY <1>1, <2>1, <2>2, <2>4 DEF Bijection, Injection, Surjection, IsInjective
<1>8. \A i \in DOMAIN rest : Tail(s)[move[i]] = rest[i]
  BY <1>1
<1> HIDE DEF rest, move
<1>9. IsFiniteMap(Tail(s)) /\ Total(Tail(s)) = Total(rest)
  BY <1>6, <1>7, <1>8, TotalMove
<1>10. Total(rest) \in Nat /\ s[1] \in Nat
  BY <1>1, <1>2, <1>6, TotalNat
<1>q. QED BY <1>1, <1>4, <1>6, <1>9, <1>10

-----------------------------------------------------------------------------
(* Sums of sequences *)

(* A set of numbers from 0 on that has n + 1 whenever it has n.            *)
LEMMA UpTo ==
  ASSUME NEW n \in Nat, NEW Good, 0 \in Good,
         \A i \in 0..n : i # n /\ i \in Good => i + 1 \in Good
  PROVE  0..n \subseteq Good
<1> SUFFICES ASSUME NEW bad \in 0..n, bad \notin Good PROVE FALSE
  OBVIOUS
<1> DEFINE Bad == {i \in 0..n : i \notin Good}
<1>1. Bad \in SUBSET Nat /\ Bad # {}
  OBVIOUS
<1>2. PICK i \in Bad : \A j \in Bad : i <= j
  BY <1>1, LeastElement
<1>3. i # 0 /\ i - 1 \in 0..n /\ i - 1 # n /\ (i - 1) + 1 = i
  OBVIOUS
<1>4. i - 1 \notin Bad
  BY <1>2, <1>3
<1>q. QED BY <1>3, <1>4

LEMMA TotalConcat ==
  ASSUME NEW s \in Seq(Nat), NEW t \in Seq(Nat)
  PROVE  Total(s \o t) = Total(s) + Total(t)
<1> DEFINE m == Len(s)
           n == Len(t)
           both(j) == [i \in 1..(m + j) |-> IF i <= m THEN s[i] ELSE t[i - m]]
           part(j) == [i \in 1..j |-> t[i]]
           Good == {j \in 0..n : Total(both(j)) = Total(s) + Total(part(j))}
<1>1. /\ m \in Nat /\ n \in Nat /\ DOMAIN s = 1..m /\ DOMAIN t = 1..n
      /\ \A i \in 1..m : s[i] \in Nat
      /\ \A i \in 1..n : t[i] \in Nat
  OBVIOUS
<1> HIDE DEF m, n
<1>2. \A j \in 0..n : IsFiniteMap(both(j)) /\ IsFiniteMap(part(j))
  <2> SUFFICES ASSUME NEW j \in 0..n PROVE IsFiniteMap(both(j)) /\ IsFiniteMap(part(j))
    OBVIOUS
  <2>1. IsFiniteSet(1..(m + j)) /\ IsFiniteSet(1..j)
    BY <1>1, FS_Interval
  <2>2. \A i \in 1..(m + j) : i <= m \/ i - m \in 1..n
    BY <1>1
  <2>q. QED BY <1>1, <2>1, <2>2 DEF IsFiniteMap
<1>3. IsFiniteMap(s) /\ Total(s) \in Nat
  <2>1. IsFiniteSet(1..m)
    BY <1>1, FS_Interval
  <2>2. IsFiniteMap(s)
    BY <1>1, <2>1 DEF IsFiniteMap
  <2>q. QED BY <2>2, TotalNat
<1>4. 0 \in Good
  <2>1. /\ DOMAIN both(0) = DOMAIN s /\ \A i \in DOMAIN s : both(0)[i] = s[i]
        /\ DOMAIN part(0) = {}
    BY <1>1
  <2> HIDE DEF both, part
  <2>2. Total(both(0)) = Total(s)
    BY <1>3, <2>1, TotalSame
  <2>3. Total(part(0)) = 0
    BY <2>1, TotalEmpty
  <2>q. QED BY <1>1, <1>3, <2>2, <2>3
<1>5. ASSUME NEW j \in 0..n, j # n, j \in Good PROVE j + 1 \in Good
  <2>a. j \in Nat /\ j < n
    BY <1>1, <1>5
  <2> HIDE DEF Good
  <2>0. j + 1 \in 0..n /\ j + 1 \in 1..n /\ m + (j + 1) = (m + j) + 1 /\ (m + j + 1) - m = j + 1
    BY <1>1, <2>a
  <2>1. /\ DOMAIN both(j + 1) = DOMAIN both(j) \union {m + j + 1}
        /\ m + j + 1 \notin DOMAIN both(j)
        /\ \A i \in DOMAIN both(j) : both(j + 1)[i] = both(j)[i]
        /\ both(j + 1)[m + j + 1] = t[j + 1]
    <3>1. 1..(m + (j + 1)) = 1..(m + j) \union {m + j + 1} /\ m + j + 1 \notin 1..(m + j)
      BY <1>1, <2>a
    <3>2. m + j + 1 \in 1..(m + (j + 1)) /\ ~ (m + j + 1 <= m)
      BY <1>1, <2>a
    <3>3. both(j + 1)[m + j + 1] = t[j + 1]
      BY <2>0, <3>2
    <3>q. QED BY <3>1, <3>3
  <2>2. /\ DOMAIN part(j + 1) = DOMAIN part(j) \union {j + 1}
        /\ j + 1 \notin DOMAIN part(j)
        /\ \A i \in DOMAIN part(j) : part(j + 1)[i] = part(j)[i]
        /\ part(j + 1)[j + 1] = t[j + 1]
    BY <1>1, <2>0
  <2>3. t[j + 1] \in Nat
    BY <1>1, <2>0
  <2>4. Total(both(j)) = Total(s) + Total(part(j))
    BY <1>5 DEF Good
  <2> HIDE DEF both, part
  <2>b. IsFiniteMap(both(j)) /\ IsFiniteMap(part(j))
    BY <1>2
  <2>5. Total(both(j + 1)) = Total(both(j)) + t[j + 1]
    BY <2>b, <2>1, <2>3, TotalAdd
  <2>c. part(j + 1)[j + 1] \in Nat
    BY <2>2, <2>3
  <2>6. Total(part(j + 1)) = Total(part(j)) + t[j + 1]
    BY <2>b, <2>c, <2>2, TotalAdd
  <2>7. Total(part(j)) \in Nat
    BY <1>2, TotalNat
  <2>8. Total(both(j + 1)) = Total(s) + Total(part(j + 1))
    BY <1>3, <2>3, <2>4, <2>5, <2>6, <2>7
  <2>q. QED BY <2>0, <2>8 DEF Good
<1> HIDE DEF Good
<1>6. 0..n \subseteq Good
  BY <1>1, <1>4, <1>5, UpTo
<1>7. Total(both(n)) = Total(s) + Total(part(n))
  <2>1. n \in 0..n
    BY <1>1
  <2>q. QED BY <1>6, <2>1 DEF Good
<1>8. Total(s \o t) = Total(both(n)) /\ Total(part(n)) = Total(t)
  <2>1. part(n) = t
    BY <1>1
  <2>2. DOMAIN (s \o t) = 1..(m + n)
    BY <1>1 DEF m, n
  <2>3. \A i \in 1..(m + n) : (s \o t)[i] = IF i <= m THEN s[i] ELSE t[i - m]
    BY DEF m, n
  <2>4. IsFiniteMap(both(n))
    <3>1. n \in 0..n
      BY <1>1
    <3> HIDE DEF both, part
    <3>q. QED BY <1>2, <3>1
  <2>5. DOMAIN both(n) = 1..(m + n) /\ \A i \in 1..(m + n) : (s \o t)[i] = both(n)[i]
    BY <2>3
  <2> HIDE DEF both
  <2>q. QED BY <2>1, <2>2, <2>4, <2>5, TotalSame
<1>q. QED BY <1>7, <1>8

LEMMA TotalRepeat ==
  ASSUME NEW n \in Nat, NEW c \in Nat
  PROVE  Total([k \in 1..n |-> c]) = n * c
<1> DEFINE f == [k \in 1..n |-> c]
           S == 1..n
           T == 1..c
<1>1. IsFiniteSet(1..n) /\ Cardinality(1..n) = n /\ IsFiniteSet(1..c) /\ Cardinality(1..c) = c
  BY FS_Interval
<1>2. IsFiniteMap(f)
  BY <1>1 DEF IsFiniteMap
<1>3. Units(f, DOMAIN f) = S \X T
  BY DEF Units
<1>4. IsFiniteSet(S) /\ Cardinality(S) = n /\ IsFiniteSet(T) /\ Cardinality(T) = c
  BY <1>1
<1> HIDE DEF S, T
<1>5. Cardinality(S \X T) = Cardinality(S) * Cardinality(T)
  BY <1>4, FS_Product
<1> HIDE DEF f
<1>6. Total(f) = Cardinality(Units(f, DOMAIN f))
  BY <1>2, TotalIsCardinality DEF IsFiniteMap
<1>q. QED BY <1>3, <1>4, <1>5, <1>6 DEF f

(* A sum splits at any part of the entries. *)
LEMMA TotalSplit ==
  ASSUME NEW f, NEW D, IsFiniteMap(f), D \subseteq DOMAIN f
  PROVE  /\ IsFiniteMap([x \in D |-> f[x]]) /\ IsFiniteMap([x \in DOMAIN f \ D |-> f[x]])
         /\ Total(f) = Total([x \in D |-> f[x]]) + Total([x \in DOMAIN f \ D |-> f[x]])
<1> DEFINE E == DOMAIN f \ D
           g == [x \in D |-> f[x]]
           h == [x \in E |-> f[x]]
           A == Units(g, DOMAIN g)
           B == Units(h, DOMAIN h)
<1>1. IsFiniteMap(g) /\ IsFiniteMap(h)
  BY FS_Subset DEF IsFiniteMap
<1>2. Units(f, DOMAIN f) = A \union B
  BY DEF Units
<1>3. A \intersect B = {}
  BY DEF Units
<1>4. /\ IsFiniteSet(A) /\ Total(g) = Cardinality(A)
      /\ IsFiniteSet(B) /\ Total(h) = Cardinality(B)
      /\ Total(f) = Cardinality(Units(f, DOMAIN f))
  BY <1>1, TotalIsCardinality DEF IsFiniteMap
<1> HIDE DEF A, B
<1>5. Cardinality(A \union B) = Cardinality(A) + Cardinality(B) - Cardinality(A \intersect B)
  BY <1>4, FS_Union
<1>6. Cardinality(A \intersect B) = 0 /\ Cardinality(A) \in Nat /\ Cardinality(B) \in Nat
  BY <1>3, <1>4, FS_EmptySet, FS_CardinalityType
<1> HIDE DEF g, h
<1>7. Total(f) = Total(g) + Total(h)
  BY <1>2, <1>4, <1>5, <1>6
<1>q. QED BY <1>1, <1>7 DEF g, h

(* A sum of values of at most, or at least, c each. *)
LEMMA TotalBounds ==
  ASSUME NEW f, IsFiniteMap(f), NEW c \in Nat
  PROVE  /\ Cardinality(DOMAIN f) \in Nat
         /\ (\A x \in DOMAIN f : f[x] <= c) => Total(f) <= c * Cardinality(DOMAIN f)
         /\ (\A x \in DOMAIN f : f[x] >= c) => Total(f) >= c * Cardinality(DOMAIN f)
<1> DEFINE D == DOMAIN f
           U == Units(f, D)
           T == 1..c
           P == D \X T
<1>1. IsFiniteSet(T) /\ Cardinality(T) = c
  BY FS_Interval
<1>2. IsFiniteSet(D) /\ IsFiniteSet(U) /\ Total(f) = Cardinality(U)
  BY TotalIsCardinality DEF IsFiniteMap
<1>3. \A x \in D : f[x] \in Nat
  BY DEF IsFiniteMap
<1>4. ASSUME \A x \in D : f[x] <= c PROVE U \subseteq P
  <2>1. \A x \in D : 1..f[x] \subseteq T
    BY <1>3, <1>4
  <2>q. QED BY <2>1 DEF Units
<1>5. ASSUME \A x \in D : f[x] >= c PROVE P \subseteq U
  <2>1. \A x \in D : T \subseteq 1..f[x]
    BY <1>3, <1>5
  <2> HIDE DEF T
  <2>q. QED BY <2>1 DEF Units
<1> HIDE DEF D, T, U
<1>6. IsFiniteSet(P) /\ Cardinality(P) = Cardinality(D) * Cardinality(T)
  BY <1>1, <1>2, FS_Product
<1> HIDE DEF P
<1>7. Cardinality(D) \in Nat /\ Cardinality(P) = c * Cardinality(D)
  BY <1>1, <1>2, <1>6, FS_CardinalityType
<1>8. (U \subseteq P => Cardinality(U) <= Cardinality(P)) /\ (P \subseteq U => Cardinality(P) <= Cardinality(U))
  BY <1>2, <1>6, FS_Subset
<1>9. Cardinality(U) \in Nat /\ Cardinality(P) \in Nat
  BY <1>2, <1>6, FS_CardinalityType
<1>q. QED BY <1>2, <1>4, <1>5, <1>7, <1>8, <1>9 DEF D

(* Only zeros. *)
LEMMA TotalZero ==
  ASSUME NEW f, IsFiniteSet(DOMAIN f), \A x \in DOMAIN f : f[x] = 0
  PROVE  IsFiniteMap(f) /\ Total(f) = 0
<1>1. IsFiniteMap(f)
  BY DEF IsFiniteMap
<1>2. Units(f, DOMAIN f) = {}
  BY DEF Units
<1>q. QED BY <1>1, <1>2, TotalIsCardinality, FS_EmptySet DEF IsFiniteMap

(* The sum of two maps, entry by entry. *)
LEMMA TotalSum ==
  ASSUME NEW f, NEW g, NEW h, IsFiniteMap(f), IsFiniteMap(g),
         DOMAIN g = DOMAIN f, DOMAIN h = DOMAIN f, \A x \in DOMAIN f : h[x] = f[x] + g[x]
  PROVE  IsFiniteMap(h) /\ Total(h) = Total(f) + Total(g)
<1> DEFINE D == DOMAIN f
           on(m, s) == [x \in s |-> m[x]]
           Good == {s \in SUBSET D : Total(on(h, s)) = Total(on(f, s)) + Total(on(g, s))}
<1>1. /\ IsFiniteSet(D) /\ D = DOMAIN g /\ D = DOMAIN h
      /\ \A x \in D : f[x] \in Nat /\ g[x] \in Nat /\ h[x] \in Nat /\ h[x] = f[x] + g[x]
  BY DEF IsFiniteMap
<1>2. IsFiniteMap(h)
  BY <1>1 DEF IsFiniteMap
<1>3. {} \in Good
  <2>1. \A m : DOMAIN on(m, {}) = {}
    OBVIOUS
  <2>2. \A m : Total(on(m, {})) = 0
    BY <2>1, TotalEmpty
  <2> HIDE DEF on
  <2>q. QED BY <2>2
<1>4. ASSUME NEW s \in SUBSET D, s # {}, s \ {Pick(s)} \in Good
      PROVE  s \in Good
  <2> DEFINE x == Pick(s)
             r == s \ {x}
  <2>1. x \in s /\ x \in D
    BY <1>4 DEF Pick
  <2>2. IsFiniteSet(s)
    BY <1>1, FS_Subset
  <2>3. ASSUME NEW m, \A y \in D : m[y] \in Nat
        PROVE  Total(on(m, s)) = Total(on(m, r)) + m[x] /\ Total(on(m, r)) \in Nat
    <3>1. IsFiniteMap(on(m, s))
      BY <2>2, <2>3 DEF IsFiniteMap
    <3>2. /\ x \in DOMAIN on(m, s) /\ DOMAIN on(m, r) = DOMAIN on(m, s) \ {x}
          /\ \A y \in DOMAIN on(m, r) : on(m, r)[y] = on(m, s)[y]
          /\ on(m, s)[x] = m[x]
      BY <2>1
    <3> HIDE DEF on, r, x
    <3>3. IsFiniteMap(on(m, r)) /\ Total(on(m, s)) = Total(on(m, r)) + on(m, s)[x]
      BY <3>1, <3>2, TotalRemove
    <3>4. Total(on(m, r)) \in Nat
      BY <3>3, TotalNat
    <3>q. QED BY <3>2, <3>3, <3>4
  <2>4. Total(on(h, r)) = Total(on(f, r)) + Total(on(g, r))
    BY <1>4
  <2> HIDE DEF on, r, x, D
  <2>5. /\ Total(on(h, s)) = Total(on(h, r)) + h[x]
        /\ Total(on(f, s)) = Total(on(f, r)) + f[x] /\ Total(on(f, r)) \in Nat
        /\ Total(on(g, s)) = Total(on(g, r)) + g[x] /\ Total(on(g, r)) \in Nat
    BY <1>1, <2>3
  <2>6. f[x] \in Nat /\ g[x] \in Nat /\ h[x] = f[x] + g[x]
    BY <1>1, <2>1
  <2>7. Total(on(h, s)) = Total(on(f, s)) + Total(on(g, s))
    BY <2>4, <2>5, <2>6
  <2>q. QED BY <2>7
<1> HIDE DEF Good
<1>5. D \in Good
  <2> HIDE DEF D
  <2>1. SUBSET D \subseteq Good
    BY <1>1, <1>3, <1>4, SubsetInduction
  <2>q. QED BY <2>1
<1>6. Total(on(h, D)) = Total(on(f, D)) + Total(on(g, D))
  BY <1>5 DEF Good
<1>7. ASSUME NEW m, IsFiniteMap(m), DOMAIN m = D PROVE Total(on(m, D)) = Total(m)
  <2>1. DOMAIN on(m, D) = DOMAIN m /\ \A x \in DOMAIN m : on(m, D)[x] = m[x]
    BY <1>7
  <2> HIDE DEF on
  <2>q. QED BY <1>7, <2>1, TotalSame
<1> HIDE DEF on, D
<1>8. Total(on(h, D)) = Total(h) /\ Total(on(f, D)) = Total(f) /\ Total(on(g, D)) = Total(g)
  BY <1>1, <1>2, <1>7 DEF D
<1>q. QED BY <1>2, <1>6, <1>8

(* A sum over a sequence counted value by value. *)
LEMMA TotalByValue ==
  ASSUME NEW V, V \subseteq Nat, IsFiniteSet(V), NEW s \in Seq(V)
  PROVE  /\ \A c \in V : Cardinality({i \in DOMAIN s : s[i] = c}) \in Nat
         /\ Total([c \in V |-> c * Cardinality({i \in DOMAIN s : s[i] = c})]) = Total(s)
<1> DEFINE n == Len(s)
           at(j, c) == {i \in 1..j : s[i] = c}
           count(j) == [c \in V |-> c * Cardinality(at(j, c))]
           part(j) == [i \in 1..j |-> s[i]]
           Good == {j \in 0..n : Total(count(j)) = Total(part(j))}
<1>1. n \in Nat /\ DOMAIN s = 1..n /\ \A i \in 1..n : s[i] \in V /\ s[i] \in Nat
  <2>1. Len(s) \in Nat /\ s \in [1..Len(s) -> V]
    OBVIOUS
  <2>q. QED BY <2>1
<1> HIDE DEF n
<1>2. \A j \in 0..n : \A c \in V : IsFiniteSet(at(j, c)) /\ Cardinality(at(j, c)) \in Nat
  <2> SUFFICES ASSUME NEW j \in 0..n, NEW c \in V
               PROVE  IsFiniteSet(at(j, c)) /\ Cardinality(at(j, c)) \in Nat
    OBVIOUS
  <2>1. IsFiniteSet(1..j)
    BY <1>1, FS_Interval
  <2>2. at(j, c) \subseteq 1..j
    OBVIOUS
  <2> HIDE DEF at
  <2>q. QED BY <2>1, <2>2, FS_Subset, FS_CardinalityType
<1>3. \A j \in 0..n : IsFiniteMap(count(j)) /\ IsFiniteMap(part(j))
  <2> SUFFICES ASSUME NEW j \in 0..n PROVE IsFiniteMap(count(j)) /\ IsFiniteMap(part(j))
    OBVIOUS
  <2>1. IsFiniteSet(1..j)
    BY <1>1, FS_Interval
  <2>2. \A i \in 1..j : s[i] \in Nat
    BY <1>1
  <2>3. \A c \in V : c \in Nat /\ Cardinality(at(j, c)) \in Nat
    BY <1>2
  <2> HIDE DEF at
  <2>4. \A c \in V : c * Cardinality(at(j, c)) \in Nat
    BY <2>3
  <2>q. QED BY <2>1, <2>2, <2>4 DEF IsFiniteMap
<1>4. 0 \in Good
  <2>1. \A c \in V : at(0, c) = {}
    OBVIOUS
  <2>2. \A c \in V : c \in Nat /\ Cardinality(at(0, c)) = 0
    BY <2>1, FS_EmptySet
  <2> HIDE DEF at
  <2>3. \A c \in V : c * Cardinality(at(0, c)) = 0
    BY <2>2
  <2>4. DOMAIN count(0) = V /\ \A c \in V : count(0)[c] = 0
    BY <2>3
  <2>5. DOMAIN part(0) = {}
    OBVIOUS
  <2> HIDE DEF count, part
  <2>6. Total(count(0)) = 0 /\ Total(part(0)) = 0
    BY <2>4, <2>5, TotalZero, TotalEmpty
  <2>q. QED BY <1>1, <2>6
<1>5. ASSUME NEW j \in 0..n, j # n, j \in Good PROVE j + 1 \in Good
  <2> DEFINE c == s[j + 1]
  <2>1. j + 1 \in 0..n /\ j + 1 \in 1..n /\ j \in Nat
    BY <1>1, <1>5
  <2>2. c \in V /\ c \in Nat
    BY <1>1, <2>1
  <2>3. at(j + 1, c) = at(j, c) \union {j + 1} /\ j + 1 \notin at(j, c)
    BY <2>1
  <2>4. \A b \in V : b # c => at(j + 1, b) = at(j, b)
    BY <2>1
  <2>5. /\ DOMAIN part(j) = 1..j /\ DOMAIN part(j + 1) = 1..(j + 1)
        /\ 1..(j + 1) = (1..j) \union {j + 1} /\ j + 1 \notin 1..j
        /\ \A i \in 1..j : part(j + 1)[i] = part(j)[i]
        /\ part(j + 1)[j + 1] = c
    BY <2>1
  <2> HIDE DEF at, c
  <2>6. Cardinality(at(j + 1, c)) = Cardinality(at(j, c)) + 1
    BY <1>2, <2>2, <2>3, FS_AddElement
  <2>7. /\ count(j + 1)[c] = c * Cardinality(at(j + 1, c)) /\ count(j)[c] = c * Cardinality(at(j, c))
        /\ \A b \in V : b # c => count(j + 1)[b] = count(j)[b]
        /\ DOMAIN count(j) = V /\ DOMAIN count(j + 1) = V
    BY <2>2, <2>4
  <2>8. IsFiniteMap(count(j)) /\ IsFiniteMap(count(j + 1)) /\ IsFiniteMap(part(j))
    BY <1>3, <2>1
  <2> HIDE DEF count, part
  <2>9. count(j + 1)[c] = count(j)[c] + c /\ count(j)[c] \in Nat
    <3>1. \A k \in Nat : c * (k + 1) = c * k + c
      BY <2>2
    <3>2. Cardinality(at(j, c)) \in Nat
      BY <1>2, <2>2
    <3>3. count(j)[c] \in Nat
      BY <2>2, <2>7, <2>8 DEF IsFiniteMap
    <3>q. QED BY <2>6, <2>7, <3>1, <3>2, <3>3
  <2>10. Total(count(j + 1)) = Total(count(j)) - count(j)[c] + count(j + 1)[c]
    <3>1. count(j + 1)[c] \in Nat
      BY <2>2, <2>9
    <3>2. c \in DOMAIN count(j) /\ DOMAIN count(j + 1) = DOMAIN count(j)
          /\ \A b \in DOMAIN count(j) : b # c => count(j + 1)[b] = count(j)[b]
      BY <2>2, <2>7
    <3>q. QED BY <2>8, <3>1, <3>2, TotalChange
  <2>11. Total(part(j + 1)) = Total(part(j)) + c
    <3>1. /\ j + 1 \notin DOMAIN part(j) /\ part(j + 1)[j + 1] \in Nat
          /\ DOMAIN part(j + 1) = DOMAIN part(j) \union {j + 1}
          /\ \A i \in DOMAIN part(j) : part(j + 1)[i] = part(j)[i]
      BY <2>2, <2>5
    <3>2. Total(part(j + 1)) = Total(part(j)) + part(j + 1)[j + 1]
      BY <2>8, <3>1, TotalAdd
    <3>q. QED BY <2>5, <3>2
  <2>12. Total(count(j)) = Total(part(j))
    BY <1>5
  <2>13. Total(count(j)) \in Nat /\ Total(part(j)) \in Nat
    BY <2>8, TotalNat
  <2>14. Total(count(j + 1)) = Total(part(j + 1))
    BY <2>2, <2>9, <2>10, <2>11, <2>12, <2>13
  <2>q. QED BY <2>1, <2>14
<1> HIDE DEF Good
<1>6. n \in Good
  <2>1. 0..n \subseteq Good
    BY <1>1, <1>4, <1>5, UpTo
  <2>q. QED BY <1>1, <2>1
<1>7. Total(count(n)) = Total(part(n))
  BY <1>6 DEF Good
<1>8. part(n) = s
  BY <1>1
<1>9. count(n) = [c \in V |-> c * Cardinality({i \in DOMAIN s : s[i] = c})]
  BY <1>1
<1>10. \A c \in V : Cardinality({i \in DOMAIN s : s[i] = c}) \in Nat
  <2>1. \A c \in V : at(n, c) = {i \in DOMAIN s : s[i] = c}
    BY <1>1
  <2>2. n \in 0..n
    BY <1>1
  <2> HIDE DEF at
  <2>q. QED BY <1>2, <2>1, <2>2
<1> HIDE DEF count, part
<1>q. QED BY <1>7, <1>8, <1>9, <1>10

=============================================================================
