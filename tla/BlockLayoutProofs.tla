-------------------------- MODULE BlockLayoutProofs --------------------------
(***************************************************************************)
(* Proofs about computeLayout for every list of block classes and every    *)
(* size.                                                                   *)
(***************************************************************************)
EXTENDS BlockLayout, TotalsProofs

LEMMA ClassFacts ==
  /\ kNumLargeClasses \in Nat \ {0}
  /\ \A i \in 1..kNumLargeClasses : kLargeBlockSizes[i] \in Nat \ {0}
                                    /\ kLargeBlockSizes[i] \in BlockClasses
  /\ BlockClasses \subseteq Nat \ {0}
  /\ kMinLargeBlock \in BlockClasses
  /\ \A c \in BlockClasses : kMinLargeBlock <= c
<1> USE ClassesAssumption
<1>1. /\ kNumLargeClasses \in Nat \ {0} /\ DOMAIN kLargeBlockSizes = 1..kNumLargeClasses
      /\ \A i \in 1..kNumLargeClasses : kLargeBlockSizes[i] \in Nat \ {0}
  BY DEF kNumLargeClasses
<1>2. BlockClasses = {kLargeBlockSizes[i] : i \in 1..kNumLargeClasses}
  BY <1>1 DEF BlockClasses, Range
<1>3. \A i \in 1..kNumLargeClasses : i = kNumLargeClasses \/ i < kNumLargeClasses
  BY <1>1
<1>4. \A i \in 1..kNumLargeClasses : kMinLargeBlock <= kLargeBlockSizes[i]
  BY <1>1, <1>3 DEF kMinLargeBlock
<1>q. QED BY <1>1, <1>2, <1>4 DEF kMinLargeBlock

LEMMA RemainingSteps ==
  ASSUME NEW size \in Nat
  PROVE  /\ \A i \in 0..kNumLargeClasses : Remaining(size)[i] \in Nat
         /\ Remaining(size)[0] = size
         /\ \A i \in 1..kNumLargeClasses :
              Remaining(size)[i] = Remaining(size)[i - 1] % kLargeBlockSizes[i]
<1> DEFINE N == kNumLargeClasses
           cls(i) == kLargeBlockSizes[i]
           Unfolded(g, k) == g = [i \in 0..k |-> IF i = 0 THEN size ELSE g[i - 1] % cls(i)]
           Good == {k \in 0..N : \E g : Unfolded(g, k)}
           left == CHOOSE g : Unfolded(g, N)
           Typed == {k \in 0..N : left[k] \in Nat}
<1>1. N \in Nat /\ \A i \in 1..N : cls(i) \in Nat \ {0}
  BY ClassFacts
<1>2. Remaining(size) = left
  BY DEF Remaining
<1> HIDE DEF N, cls
<1>3. 0 \in Good
  <2>1. Unfolded([i \in 0..0 |-> size], 0)
    OBVIOUS
  <2> HIDE DEF Unfolded
  <2>2. \E g : Unfolded(g, 0)
    BY <2>1
  <2>3. 0 \in 0..N
    BY <1>1
  <2>q. QED BY <2>2, <2>3
<1>4. ASSUME NEW k \in 0..N, k # N, k \in Good PROVE k + 1 \in Good
  <2>1. PICK g : Unfolded(g, k)
    BY <1>4
  <2> DEFINE h == [i \in 0..(k + 1) |-> IF i <= k THEN g[i] ELSE g[k] % cls(i)]
  <2>2. k \in Nat /\ k + 1 \in 0..N
    BY <1>1, <1>4
  <2>3. \A i \in 0..(k + 1) : h[i] = IF i = 0 THEN size ELSE h[i - 1] % cls(i)
    <3> SUFFICES ASSUME NEW i \in 0..(k + 1) PROVE h[i] = IF i = 0 THEN size ELSE h[i - 1] % cls(i)
      OBVIOUS
    <3>1. CASE i = 0
      BY <2>1, <2>2, <3>1
    <3>2. CASE i # 0 /\ i <= k
      <4>1. i - 1 \in 0..(k + 1) /\ i - 1 <= k /\ i \in 0..k
        BY <2>2, <3>2
      <4>2. g[i] = g[i - 1] % cls(i)
        BY <2>1, <3>2, <4>1
      <4>q. QED BY <3>2, <4>1, <4>2
    <3>3. CASE i = k + 1
      <4>1. i - 1 = k /\ k \in 0..(k + 1) /\ k <= k /\ ~ (i <= k) /\ i # 0
        BY <2>2, <3>3
      <4>q. QED BY <3>3, <4>1
    <3>q. QED BY <2>2, <3>1, <3>2, <3>3
  <2> HIDE DEF h
  <2>4. Unfolded(h, k + 1)
    BY <2>3 DEF h
  <2>q. QED BY <2>2, <2>4
<1>5. 0..N \subseteq Good
  <2> HIDE DEF Good
  <2>q. QED BY <1>1, <1>3, <1>4, UpTo
<1>6. Unfolded(left, N)
  <2>1. \E g : Unfolded(g, N)
    BY <1>1, <1>5
  <2>q. QED BY <2>1
<1> HIDE DEF left
<1>7. \A i \in 0..N : left[i] = IF i = 0 THEN size ELSE left[i - 1] % cls(i)
  BY <1>6
<1>8. \A i \in 1..N : i - 1 \in 0..N /\ i \in 0..N /\ i # 0
  BY <1>1
<1>9. 0 \in Typed
  BY <1>1, <1>7
<1>10. ASSUME NEW k \in 0..N, k # N, k \in Typed PROVE k + 1 \in Typed
  <2>1. k + 1 \in 1..N /\ (k + 1) - 1 = k
    BY <1>1, <1>10
  <2>2. left[k + 1] = left[k] % cls(k + 1)
    BY <1>7, <1>8, <2>1
  <2>3. left[k] \in Nat /\ cls(k + 1) \in Nat \ {0}
    BY <1>1, <1>10, <2>1
  <2>4. left[k + 1] \in Nat
    BY <2>2, <2>3
  <2>q. QED BY <1>8, <2>1, <2>4
<1> HIDE DEF Typed
<1>11. 0..N \subseteq Typed
  BY <1>1, <1>9, <1>10, UpTo
<1>12. \A i \in 0..N : left[i] \in Nat
  BY <1>11 DEF Typed
<1>13. left[0] = size /\ \A i \in 1..N : left[i] = left[i - 1] % cls(i)
  BY <1>1, <1>7, <1>8
<1>q. QED BY <1>2, <1>12, <1>13 DEF N, cls

LEMMA FlattenSteps ==
  ASSUME NEW S, NEW n \in Nat \ {0}, NEW ss \in [1..n -> Seq(S)]
  PROVE  \E g : /\ FlattenSeq(ss) = g[n] /\ g[1] = ss[1]
                /\ \A i \in 2..n : g[i] = g[i - 1] \o ss[i]
<1> DEFINE Unfolded(g, k) == g = [i \in 1..k |-> IF i = 1 THEN ss[i] ELSE g[i - 1] \o ss[i]]
           Good == {k \in 0..n : \E g : Unfolded(g, k)}
           flat == CHOOSE g : Unfolded(g, n)
<1>1. Len(ss) = n
  OBVIOUS
<1>2. FlattenSeq(ss) = flat[n]
  BY <1>1 DEF FlattenSeq
<1>3. 0 \in Good
  <2>1. Unfolded([i \in 1..0 |-> 0], 0)
    OBVIOUS
  <2> HIDE DEF Unfolded
  <2>2. \E g : Unfolded(g, 0)
    BY <2>1
  <2>3. 0 \in 0..n
    OBVIOUS
  <2>q. QED BY <2>2, <2>3
<1>4. ASSUME NEW k \in 0..n, k # n, k \in Good PROVE k + 1 \in Good
  <2>1. PICK g : Unfolded(g, k)
    BY <1>4
  <2> DEFINE h == [i \in 1..(k + 1) |->
                     IF i <= k THEN g[i] ELSE IF i = 1 THEN ss[i] ELSE g[k] \o ss[i]]
  <2>2. k \in Nat /\ k + 1 \in 0..n
    BY <1>4
  <2>3. \A i \in 1..(k + 1) : h[i] = IF i = 1 THEN ss[i] ELSE h[i - 1] \o ss[i]
    <3> SUFFICES ASSUME NEW i \in 1..(k + 1)
                 PROVE  h[i] = IF i = 1 THEN ss[i] ELSE h[i - 1] \o ss[i]
      OBVIOUS
    <3>1. CASE i <= k
      <4>1. i \in 1..k /\ (i # 1 => i - 1 \in 1..(k + 1) /\ i - 1 <= k)
        BY <2>2, <3>1
      <4>2. g[i] = IF i = 1 THEN ss[i] ELSE g[i - 1] \o ss[i]
        BY <2>1, <4>1
      <4>q. QED BY <3>1, <4>1, <4>2
    <3>2. CASE i = k + 1 /\ i # 1
      <4>1. i - 1 = k /\ k \in 1..(k + 1) /\ k <= k /\ ~ (i <= k)
        BY <2>2, <3>2
      <4>q. QED BY <3>2, <4>1
    <3>3. CASE i = k + 1 /\ i = 1
      BY <2>2, <3>3
    <3>q. QED BY <2>2, <3>1, <3>2, <3>3
  <2> HIDE DEF h
  <2>4. Unfolded(h, k + 1)
    BY <2>3 DEF h
  <2>q. QED BY <2>2, <2>4
<1>5. n \in Good
  <2> HIDE DEF Good
  <2>1. n \in Nat
    OBVIOUS
  <2>2. 0..n \subseteq Good
    BY <1>3, <1>4, <2>1, UpTo
  <2>q. QED BY <2>1, <2>2
<1>6. Unfolded(flat, n)
  BY <1>5
<1> HIDE DEF flat
<1>7. \A i \in 1..n : flat[i] = IF i = 1 THEN ss[i] ELSE flat[i - 1] \o ss[i]
  BY <1>6
<1>8. flat[1] = ss[1] /\ \A i \in 2..n : flat[i] = flat[i - 1] \o ss[i]
  <2>1. 1 \in 1..n /\ \A i \in 2..n : i \in 1..n /\ i # 1
    OBVIOUS
  <2>q. QED BY <1>7, <2>1
<1>q. QED BY <1>2, <1>8

LEMMA SeqSubset ==
  ASSUME NEW S, NEW T, S \subseteq T
  PROVE  \A s \in Seq(S) : s \in Seq(T)
<1> SUFFICES ASSUME NEW s \in Seq(S) PROVE s \in Seq(T)
  OBVIOUS
<1>1. Len(s) \in Nat /\ s \in [1..Len(s) -> S]
  OBVIOUS
<1>2. s \in [1..Len(s) -> T]
  BY <1>1
<1>q. QED BY <1>1, <1>2

LEMMA WholeBlocks ==
  ASSUME NEW a \in Nat, NEW c \in Nat \ {0}
  PROVE  /\ (a - (a % c)) \div c \in Nat
         /\ ((a - (a % c)) \div c) * c = a - (a % c)
         /\ (a - (a % c)) \div c = a \div c
         /\ a % c < c /\ a % c <= a
<1>1. a % c \in Nat /\ a % c < c /\ a \div c \in Nat /\ a = (c * (a \div c)) + (a % c)
  OBVIOUS
<1>2. a - (a % c) = c * (a \div c)
  BY <1>1
<1>3. (c * (a \div c)) \div c = a \div c
  <2> DEFINE q == a \div c
  <2>1. q \in Int
    OBVIOUS
  <2> HIDE DEF q
  <2>2. (c * q) \div c = q
    BY <2>1
  <2>q. QED BY <2>2 DEF q
<1>4. a % c <= a
  <2>1. c * (a \div c) >= 0
    BY <1>1
  <2> DEFINE p == c * (a \div c)
             r == a % c
  <2>2. p \in Int /\ r \in Nat /\ a = p + r /\ p >= 0
    BY <1>1, <2>1
  <2> HIDE DEF p, r
  <2>3. r <= a
    BY <2>2
  <2>q. QED BY <2>3 DEF r
<1>5. (a \div c) * c = c * (a \div c)
  BY <1>1
<1>q. QED BY <1>1, <1>2, <1>3, <1>4, <1>5

-----------------------------------------------------------------------------
(* The fewest blocks.  Share(a, i) is how many blocks of class i computeLayout *)
(* takes for a bytes, Shares(a, n) how many of the classes 1..n.  Since each   *)
(* class is a multiple of the next, a sum of two sizes takes no more blocks    *)
(* than they take apart, so no blocks that add up to a are fewer than          *)
(* Shares(a, kNumLargeClasses).                                                *)

Share(a, i) == Remaining(a)[i - 1] \div kLargeBlockSizes[i]
Shares(a, n) == Total([i \in 1..n |-> Share(a, i)])

LEMMA Division ==
  ASSUME NEW a \in Nat, NEW c \in Nat \ {0}
  PROVE  /\ a = c * (a \div c) + (a % c) /\ a \div c \in Nat
         /\ a % c \in Nat /\ a % c \in 0..(c - 1)
  OBVIOUS

LEMMA DivisionUnique ==
  ASSUME NEW c \in Nat \ {0}, NEW q \in Nat, NEW r \in 0..(c - 1)
  PROVE  (c * q + r) \div c = q /\ (c * q + r) % c = r
  OBVIOUS

LEMMA DivisionOfSum ==
  ASSUME NEW c \in Nat \ {0}, NEW a \in Nat, NEW b \in Nat
  PROVE  (a \div c) + (b \div c) <= (a + b) \div c
  OBVIOUS

LEMMA MultiplesOfSum ==
  ASSUME NEW c \in Nat \ {0}, NEW a \in Nat, NEW b \in Nat, a % c = 0, b % c = 0
  PROVE  (a + b) \div c = (a \div c) + (b \div c) /\ (a + b) % c = 0
<1>1. PICK x \in Nat : x = a \div c /\ a = c * x
  BY Division
<1>2. PICK y \in Nat : y = b \div c /\ b = c * y
  BY Division
<1>3. a + b = c * (x + y) + 0
  BY <1>1, <1>2
<1>4. x + y \in Nat /\ 0 \in 0..(c - 1)
  OBVIOUS
<1>5. (c * (x + y) + 0) \div c = x + y /\ (c * (x + y) + 0) % c = 0
  BY <1>4, DivisionUnique
<1>q. QED BY <1>1, <1>2, <1>3, <1>5

(* Division by a class c and then by the next one, d. *)
LEMMA DivisionTwice ==
  ASSUME NEW c \in Nat \ {0}, NEW d \in Nat \ {0}, c % d = 0, NEW a \in Nat
  PROVE  /\ c \div d \in Nat \ {0}
         /\ a \div d = (c \div d) * (a \div c) + ((a % c) \div d)
         /\ (a % c) % d = a % d
<1> DEFINE k == c \div d
           x == a \div c
           r == a % c
           y == r \div d
           s == r % d
<1>1. c = d * k /\ k \in Nat
  <2>1. c = d * k + 0 /\ k \in Nat
    BY Division
  <2> HIDE DEF k
  <2>q. QED BY <2>1
<1>2. a = c * x + r /\ x \in Nat /\ r \in Nat
  BY Division
<1> HIDE DEF x, r
<1>3. r = d * y + s /\ y \in Nat /\ s \in 0..(d - 1)
  BY <1>2, Division
<1> HIDE DEF k, y, s
<1>4. k # 0
  BY <1>1
<1>5. k * x + y \in Nat
  BY <1>1, <1>2, <1>3
<1>6. a = d * (k * x + y) + s
  <2>1. a = (d * k) * x + (d * y + s)
    BY <1>1, <1>2, <1>3
  <2>2. (d * k) * x = d * (k * x)
    BY <1>1, <1>2
  <2>3. d * (k * x) + d * y = d * (k * x + y)
    BY <1>1, <1>2, <1>3
  <2>4. d * (k * x) \in Int /\ d * y \in Int /\ s \in Int
    BY <1>1, <1>2, <1>3
  <2>q. QED BY <2>1, <2>2, <2>3, <2>4
<1>7. a \div d = k * x + y /\ a % d = s
  BY <1>3, <1>5, <1>6, DivisionUnique
<1>q. QED BY <1>1, <1>4, <1>7 DEF k, x, r, y, s

(* Every class is a multiple of the classes after it. *)
LEMMA ClassMultiples ==
  ASSUME NEW i \in 1..kNumLargeClasses, NEW j \in 1..kNumLargeClasses, i <= j
  PROVE  kLargeBlockSizes[i] % kLargeBlockSizes[j] = 0
<1> DEFINE N == kNumLargeClasses
           cls(k) == kLargeBlockSizes[k]
           Good == {k \in 0..N : k >= i => cls(i) % cls(k) = 0}
<1>1. N \in Nat \ {0} /\ \A k \in 1..N : cls(k) \in Nat \ {0}
  BY ClassFacts
<1>2. \A k \in 2..N : cls(k - 1) % cls(k) = 0
  BY MultiplesAssumption DEF N, cls, kNumLargeClasses
<1>3. i \in 1..N /\ j \in 0..N
  OBVIOUS
<1> HIDE DEF N, cls
<1>4. 0 \in Good
  BY <1>1
<1>5. ASSUME NEW k \in 0..N, k # N, k \in Good PROVE k + 1 \in Good
  <2>1. k + 1 \in 1..N /\ (k + 1) - 1 = k /\ k + 1 \in 0..N /\ k \in Int /\ i \in Int
    BY <1>1, <1>5
  <2>2. CASE k + 1 < i
    BY <2>1, <2>2
  <2>3. CASE k + 1 = i
    <3>1. cls(i) \in Nat \ {0}
      BY <1>1, <1>3
    <3>2. cls(i) % cls(i) = 0
      BY <3>1
    <3>q. QED BY <2>1, <2>3, <3>2
  <2>4. CASE k >= i
    <3>1. k \in 1..N /\ k + 1 \in 2..N
      BY <2>1, <2>4, <1>5
    <3>2. cls(i) % cls(k) = 0
      BY <1>5, <2>4
    <3>3. cls(k) % cls(k + 1) = 0
      BY <1>2, <2>1, <3>1
    <3>4. (cls(i) % cls(k)) % cls(k + 1) = cls(i) % cls(k + 1)
      <4>1. cls(i) \in Nat /\ cls(k) \in Nat \ {0} /\ cls(k + 1) \in Nat \ {0}
        BY <1>1, <1>3, <2>1, <3>1
      <4>q. QED BY <3>3, <4>1, DivisionTwice
    <3>5. \A d \in Nat \ {0} : 0 % d = 0
      OBVIOUS
    <3>6. cls(i) % cls(k + 1) = 0
      BY <1>1, <2>1, <3>2, <3>4, <3>5
    <3>q. QED BY <2>1, <3>6
  <2>q. QED BY <2>1, <2>2, <2>3, <2>4
<1> HIDE DEF Good
<1>6. 0..N \subseteq Good
  BY <1>1, <1>4, <1>5, UpTo
<1>q. QED BY <1>6, <1>3 DEF Good, cls

LEMMA RemainingIs ==
  ASSUME NEW size \in Nat
  PROVE  \A i \in 1..kNumLargeClasses : Remaining(size)[i] = size % kLargeBlockSizes[i]
<1> DEFINE N == kNumLargeClasses
           cls(k) == kLargeBlockSizes[k]
           left == Remaining(size)
           Good == {k \in 0..N : k # 0 => left[k] = size % cls(k)}
<1>1. N \in Nat \ {0} /\ \A k \in 1..N : cls(k) \in Nat \ {0}
  BY ClassFacts
<1>2. \A k \in 2..N : cls(k - 1) % cls(k) = 0
  BY MultiplesAssumption DEF N, cls, kNumLargeClasses
<1>3. left[0] = size /\ \A k \in 1..N : left[k] = left[k - 1] % cls(k)
  BY RemainingSteps
<1> HIDE DEF N, cls, left
<1>4. 0 \in Good
  BY <1>1
<1>5. ASSUME NEW k \in 0..N, k # N, k \in Good PROVE k + 1 \in Good
  <2>1. k + 1 \in 1..N /\ (k + 1) - 1 = k /\ k + 1 \in 0..N
    BY <1>1, <1>5
  <2>2. left[k + 1] = left[k] % cls(k + 1)
    BY <1>3, <2>1
  <2>3. CASE k = 0
    BY <1>3, <2>1, <2>2, <2>3
  <2>4. CASE k # 0
    <3>1. k \in 1..N /\ k + 1 \in 2..N
      BY <2>1, <2>4
    <3>2. cls(k) \in Nat \ {0} /\ cls(k + 1) \in Nat \ {0} /\ cls(k) % cls(k + 1) = 0
      BY <1>1, <1>2, <2>1, <3>1
    <3>3. (size % cls(k)) % cls(k + 1) = size % cls(k + 1)
      BY <3>2, DivisionTwice
    <3>4. left[k] = size % cls(k)
      BY <1>5, <2>4
    <3>q. QED BY <2>1, <2>2, <3>3, <3>4
  <2>q. QED BY <2>3, <2>4
<1> HIDE DEF Good
<1>6. 0..N \subseteq Good
  BY <1>1, <1>4, <1>5, UpTo
<1>7. \A k \in 1..N : k \in 0..N /\ k # 0
  BY <1>1
<1>q. QED BY <1>6, <1>7 DEF Good, N, cls, left

LEMMA ShareIs ==
  ASSUME NEW a \in Nat, NEW i \in 1..kNumLargeClasses
  PROVE  Share(a, i) =
           (IF i = 1 THEN a ELSE a % kLargeBlockSizes[i - 1]) \div kLargeBlockSizes[i]
<1>1. i = 1 \/ i - 1 \in 1..kNumLargeClasses
  BY ClassFacts
<1>2. Remaining(a)[i - 1] = IF i = 1 THEN a ELSE a % kLargeBlockSizes[i - 1]
  BY <1>1, RemainingIs, RemainingSteps
<1>q. QED BY <1>2 DEF Share

LEMMA ShareNat ==
  ASSUME NEW a \in Nat, NEW i \in 1..kNumLargeClasses
  PROVE  Share(a, i) \in Nat
<1>1. i - 1 \in 0..kNumLargeClasses
  BY ClassFacts
<1>2. Remaining(a)[i - 1] \in Nat /\ kLargeBlockSizes[i] \in Nat \ {0}
  BY <1>1, ClassFacts, RemainingSteps
<1> DEFINE x == Remaining(a)[i - 1]
           c == kLargeBlockSizes[i]
<1>3. x \in Nat /\ c \in Nat \ {0}
  BY <1>2
<1> HIDE DEF x, c
<1>4. x \div c \in Nat
  BY <1>3, Division
<1>q. QED BY <1>4 DEF Share, x, c

LEMMA SharesStep ==
  ASSUME NEW a \in Nat, NEW n \in 0..kNumLargeClasses
  PROVE  /\ IsFiniteMap([i \in 1..n |-> Share(a, i)])
         /\ Shares(a, n) \in Nat
         /\ Shares(a, 0) = 0
         /\ n # kNumLargeClasses => Shares(a, n + 1) = Shares(a, n) + Share(a, n + 1)
<1> DEFINE f(k) == [i \in 1..k |-> Share(a, i)]
<1>1. kNumLargeClasses \in Nat
  BY ClassFacts
<1>2. \A i \in 1..n : i \in 1..kNumLargeClasses
  BY <1>1
<1>3. IsFiniteMap(f(n))
  <2>1. DOMAIN f(n) = 1..n /\ \A i \in 1..n : f(n)[i] = Share(a, i)
    OBVIOUS
  <2> HIDE DEF f
  <2>2. IsFiniteSet(1..n)
    BY <1>1, FS_Interval
  <2>q. QED BY <1>2, <2>1, <2>2, ShareNat DEF IsFiniteMap
<1>4. Shares(a, 0) = 0
  <2>1. DOMAIN f(0) = {}
    OBVIOUS
  <2>q. QED BY <2>1, TotalEmpty DEF Shares
<1>5. ASSUME n # kNumLargeClasses PROVE Shares(a, n + 1) = Shares(a, n) + Share(a, n + 1)
  <2>1. n + 1 \in 1..kNumLargeClasses /\ n \in Nat
    BY <1>1, <1>5
  <2>2. /\ DOMAIN f(n) = 1..n /\ DOMAIN f(n + 1) = 1..(n + 1)
        /\ \A i \in 1..n : f(n)[i] = Share(a, i)
        /\ \A i \in 1..(n + 1) : f(n + 1)[i] = Share(a, i)
    OBVIOUS
  <2> HIDE DEF f
  <2>3. 1..(n + 1) = 1..n \union {n + 1} /\ n + 1 \notin 1..n
    BY <2>1
  <2>4. f(n + 1)[n + 1] = Share(a, n + 1) /\ Share(a, n + 1) \in Nat
    BY <2>1, <2>2, <2>3, ShareNat
  <2>5. \A i \in 1..n : f(n + 1)[i] = f(n)[i]
    BY <2>2, <2>3
  <2>6. Total(f(n + 1)) = Total(f(n)) + f(n + 1)[n + 1]
    BY <1>3, <2>2, <2>3, <2>4, <2>5, TotalAdd
  <2>q. QED BY <2>4, <2>6 DEF Shares, f
<1>6. Shares(a, n) \in Nat
  BY <1>3, TotalNat DEF Shares
<1>q. QED BY <1>3, <1>4, <1>5, <1>6

(* What the shares of a sum may exceed those of its parts by: the blocks of *)
(* class n that its parts do not fill and it does.                          *)
LEMMA SharesOfSum ==
  ASSUME NEW a \in Nat, NEW b \in Nat, NEW n \in 1..kNumLargeClasses
  PROVE  Shares(a + b, n) + (a \div kLargeBlockSizes[n]) + (b \div kLargeBlockSizes[n])
           <= Shares(a, n) + Shares(b, n) + ((a + b) \div kLargeBlockSizes[n])
<1> DEFINE N == kNumLargeClasses
           cls(k) == kLargeBlockSizes[k]
           d(k) == ((a + b) \div cls(k)) - (a \div cls(k)) - (b \div cls(k))
           Good == {k \in 0..N : k # 0 => Shares(a + b, k) <= Shares(a, k) + Shares(b, k) + d(k)}
<1>1. N \in Nat \ {0} /\ \A k \in 1..N : cls(k) \in Nat \ {0}
  BY ClassFacts
<1>2. \A k \in 2..N : cls(k - 1) % cls(k) = 0
  BY MultiplesAssumption DEF N, cls, kNumLargeClasses
<1>3. \A x \in Nat : \A k \in 0..N :
        /\ Shares(x, k) \in Nat /\ Shares(x, 0) = 0
        /\ k # N => Shares(x, k + 1) = Shares(x, k) + Share(x, k + 1)
  BY SharesStep
<1>4. \A x \in Nat : \A k \in 1..N :
        Share(x, k) = (IF k = 1 THEN x ELSE x % cls(k - 1)) \div cls(k)
  BY ShareIs
<1> HIDE DEF N, cls
<1>5. a + b \in Nat
  OBVIOUS
<1>6. 0 \in Good
  BY <1>1
<1>7. ASSUME NEW k \in 0..N, k # N, k \in Good PROVE k + 1 \in Good
  <2>1. k + 1 \in 1..N /\ (k + 1) - 1 = k /\ k + 1 \in 0..N /\ k \in Nat
    BY <1>1, <1>7
  <2>2. \A x \in Nat : Shares(x, k + 1) = Shares(x, k) + Share(x, k + 1)
    BY <1>3, <1>7
  <2>3. \A x \in Nat : Shares(x, k) \in Nat
    BY <1>3, <1>7
  <2>4. \A x \in Nat : x \div cls(k + 1) \in Nat
    BY <1>1, <2>1, Division
  <2>5. CASE k = 0
    <3>1. \A x \in Nat : Share(x, k + 1) = x \div cls(k + 1)
      BY <1>4, <2>1, <2>5
    <3>2. \A x \in Nat : Shares(x, k + 1) = x \div cls(k + 1)
      BY <1>1, <1>3, <2>2, <2>4, <2>5, <3>1
    <3>3. Shares(a + b, k + 1) <= Shares(a, k + 1) + Shares(b, k + 1) + d(k + 1)
      <4> DEFINE xa == a \div cls(k + 1)
                 xb == b \div cls(k + 1)
                 xs == (a + b) \div cls(k + 1)
      <4>1. xa \in Nat /\ xb \in Nat /\ xs \in Nat
        BY <1>5, <2>4
      <4>2. Shares(a, k + 1) = xa /\ Shares(b, k + 1) = xb /\ Shares(a + b, k + 1) = xs
        BY <1>5, <3>2
      <4>3. d(k + 1) = xs - xa - xb
        OBVIOUS
      <4> HIDE DEF xa, xb, xs, d
      <4>q. QED BY <4>1, <4>2, <4>3
    <3>q. QED BY <2>1, <3>3
  <2>6. CASE k # 0
    <3> DEFINE q == cls(k) \div cls(k + 1)
    <3>1. k \in 1..N /\ k + 1 \in 2..N /\ k + 1 # 1
      BY <2>1, <2>6
    <3>2. cls(k) \in Nat \ {0} /\ cls(k + 1) \in Nat \ {0} /\ cls(k) % cls(k + 1) = 0
      BY <1>1, <1>2, <2>1, <3>1
    <3>3. q \in Nat \ {0} /\ \A x \in Nat :
            x \div cls(k + 1) = q * (x \div cls(k)) + ((x % cls(k)) \div cls(k + 1))
      BY <3>2, DivisionTwice
    <3>4. \A x \in Nat : Share(x, k + 1) = (x % cls(k)) \div cls(k + 1)
      BY <1>4, <2>1, <3>1
    <3>5. \A x \in Nat : x \div cls(k) \in Nat
      BY <3>2, Division
    <3> HIDE DEF q
    <3>6. \A x \in Nat : (x % cls(k)) \div cls(k + 1) \in Nat
      <4>1. \A x \in Nat : x % cls(k) \in Nat
        BY <3>2, Division
      <4>q. QED BY <3>2, <4>1, Division
    <3>7. \A x \in Nat : Shares(x, k + 1) = Shares(x, k) + (x \div cls(k + 1)) - q * (x \div cls(k))
      <4> SUFFICES ASSUME NEW x \in Nat
                   PROVE  Shares(x, k + 1) = Shares(x, k) + (x \div cls(k + 1)) - q * (x \div cls(k))
        OBVIOUS
      <4> DEFINE r == (x % cls(k)) \div cls(k + 1)
                 t == x \div cls(k + 1)
                 p == q * (x \div cls(k))
                 old == Shares(x, k)
      <4>1. t = p + r /\ Shares(x, k + 1) = old + r
        BY <2>2, <3>3, <3>4
      <4>2. t \in Int /\ p \in Int /\ r \in Int /\ old \in Int
        BY <2>3, <2>4, <3>3, <3>5, <3>6
      <4> HIDE DEF r, t, p, old
      <4>3. Shares(x, k + 1) = old + t - p
        BY <4>1, <4>2
      <4>q. QED BY <4>3 DEF t, p, old
    <3>8. d(k) \in Nat
      <4>1. (a \div cls(k)) + (b \div cls(k)) <= (a + b) \div cls(k)
        BY <3>2, DivisionOfSum
      <4>q. QED BY <1>5, <3>5, <4>1
    <3>9. Shares(a + b, k) <= Shares(a, k) + Shares(b, k) + d(k)
      BY <1>7, <2>6
    <3>10. Shares(a + b, k + 1) <= Shares(a, k + 1) + Shares(b, k + 1) + d(k + 1)
      <4> DEFINE xa == a \div cls(k)
                 xb == b \div cls(k)
                 xs == (a + b) \div cls(k)
                 ya == a \div cls(k + 1)
                 yb == b \div cls(k + 1)
                 ys == (a + b) \div cls(k + 1)
                 sa == Shares(a, k)
                 sb == Shares(b, k)
                 ss == Shares(a + b, k)
      <4>1. /\ xa \in Nat /\ xb \in Nat /\ xs \in Nat /\ ya \in Nat /\ yb \in Nat /\ ys \in Nat
            /\ sa \in Nat /\ sb \in Nat /\ ss \in Nat
        BY <1>5, <2>3, <2>4, <3>5
      <4>2. d(k) = xs - xa - xb /\ d(k + 1) = ys - ya - yb
        OBVIOUS
      <4>3. /\ Shares(a, k + 1) = sa + ya - q * xa
            /\ Shares(b, k + 1) = sb + yb - q * xb
            /\ Shares(a + b, k + 1) = ss + ys - q * xs
        BY <1>5, <3>7
      <4>4. ss <= sa + sb + d(k)
        BY <3>9
      <4>5. \A e \in Nat : e <= q * e
        BY <3>3
      <4> HIDE DEF xa, xb, xs, ya, yb, ys, sa, sb, ss, d
      <4>6. q * xs - q * xa - q * xb = q * d(k) /\ d(k) <= q * d(k)
        <5>1. q * xs - q * xa - q * xb = q * (xs - xa - xb)
          BY <3>3, <4>1
        <5>q. QED BY <3>8, <4>2, <4>5, <5>1
      <4> DEFINE pa == q * xa
                 pb == q * xb
                 ps == q * xs
                 pd == q * d(k)
      <4>7. pa \in Int /\ pb \in Int /\ ps \in Int /\ pd \in Int
        BY <3>3, <3>8, <4>1
      <4> HIDE DEF pa, pb, ps, pd
      <4>8. ps - pa - pb = pd /\ d(k) <= pd
        BY <4>6 DEF pa, pb, ps, pd
      <4>9. /\ Shares(a, k + 1) = sa + ya - pa
             /\ Shares(b, k + 1) = sb + yb - pb
             /\ Shares(a + b, k + 1) = ss + ys - ps
        BY <4>3 DEF pa, pb, ps
      <4>q. QED BY <3>8, <4>1, <4>2, <4>4, <4>7, <4>8, <4>9
    <3>q. QED BY <2>1, <3>10
  <2>q. QED BY <2>5, <2>6
<1> HIDE DEF Good
<1>8. 0..N \subseteq Good
  BY <1>1, <1>6, <1>7, UpTo
<1>9. n \in 0..N /\ n # 0
  BY DEF N
<1>10. Shares(a + b, n) <= Shares(a, n) + Shares(b, n) + d(n)
  BY <1>8, <1>9 DEF Good
<1>11. /\ Shares(a + b, n) \in Nat /\ Shares(a, n) \in Nat /\ Shares(b, n) \in Nat
  BY <1>3, <1>5, <1>9
<1>12. \A x \in Nat : x \div cls(n) \in Nat
  <2>1. cls(n) \in Nat \ {0}
    BY <1>1 DEF N
  <2>q. QED BY <2>1, Division
<1> DEFINE xa == a \div cls(n)
           xb == b \div cls(n)
           xs == (a + b) \div cls(n)
<1>13. xa \in Nat /\ xb \in Nat /\ xs \in Nat /\ d(n) = xs - xa - xb
  BY <1>5, <1>12
<1> HIDE DEF xa, xb, xs, d
<1>14. Shares(a + b, n) + xa + xb <= Shares(a, n) + Shares(b, n) + xs
  BY <1>10, <1>11, <1>13
<1>q. QED BY <1>14 DEF xa, xb, xs, cls

(* One block of a class is one share. *)
LEMMA SharesOfBlock ==
  ASSUME NEW c \in BlockClasses
  PROVE  c % kMinLargeBlock = 0 /\ Shares(c, kNumLargeClasses) = 1
<1> DEFINE N == kNumLargeClasses
           cls(k) == kLargeBlockSizes[k]
           f == [i \in 1..N |-> Share(c, i)]
<1>1. N \in Nat \ {0} /\ \A k \in 1..N : cls(k) \in Nat \ {0}
  BY ClassFacts
<1>2. PICK j \in 1..N : c = cls(j)
  BY ClassesAssumption DEF BlockClasses, Range, N, cls, kNumLargeClasses
<1>3. \A i \in 1..N : /\ i <= j => cls(i) % cls(j) = 0
                      /\ j <= i => cls(j) % cls(i) = 0
                      /\ i < j => cls(j) < cls(i)
  <2>1. DOMAIN kLargeBlockSizes = 1..N
    BY ClassesAssumption DEF N, kNumLargeClasses
  <2>q. QED BY <1>2, <2>1, ClassMultiples, ClassesAssumption
<1>4. \A i \in 1..N : Share(c, i) = (IF i = 1 THEN c ELSE c % cls(i - 1)) \div cls(i)
  <2>1. c \in Nat
    BY <1>1, <1>2
  <2>q. QED BY <2>1, ShareIs
<1>5. c % kMinLargeBlock = 0
  <2>1. N \in 1..N /\ j <= N /\ kMinLargeBlock = cls(N)
    BY <1>1, <1>2 DEF N, cls, kMinLargeBlock
  <2>q. QED BY <1>2, <1>3, <2>1
<1>6. IsFiniteMap(f)
  <2>1. N \in 0..N
    BY <1>1
  <2>2. c \in Nat
    BY <1>1, <1>2
  <2>q. QED BY <2>1, <2>2, SharesStep
<1> HIDE DEF N, cls
<1>7. c \in Nat \ {0} /\ \A x \in Nat \ {0} : c < x => c % x = c /\ c \div x = 0
  <2>1. c \in Nat \ {0}
    BY <1>1, <1>2
  <2>2. ASSUME NEW x \in Nat \ {0}, c < x PROVE c % x = c /\ c \div x = 0
    <3>1. c \in 0..(x - 1) /\ x * 0 + c = c
      BY <2>1, <2>2
    <3>2. 0 \in Nat
      OBVIOUS
    <3>q. QED BY <3>1, <3>2, DivisionUnique
  <2>q. QED BY <2>1, <2>2
<1>8. ASSUME NEW i \in 1..N PROVE Share(c, i) = IF i = j THEN 1 ELSE 0
  <2>1. i \in Int /\ j \in Int /\ j \in 1..N /\ cls(i) \in Nat \ {0} /\ cls(j) = c
    BY <1>1, <1>2
  <2>2. i # 1 => i - 1 \in 1..N /\ cls(i - 1) \in Nat \ {0}
    BY <1>1, <2>1
  <2>3. CASE i <= j
    <3>1. (IF i = 1 THEN c ELSE c % cls(i - 1)) = c
      <4>1. i # 1 => i - 1 < j
        BY <2>1, <2>3
      <4>2. i # 1 => c < cls(i - 1)
        BY <1>3, <2>1, <2>2, <4>1
      <4>q. QED BY <1>7, <2>2, <4>2
    <3>2. Share(c, i) = c \div cls(i)
      BY <1>4, <3>1
    <3>3. CASE i = j
      <4>1. c \div c = 1
        BY <1>7
      <4>q. QED BY <2>1, <3>2, <3>3, <4>1
    <3>4. CASE i # j
      <4>1. c < cls(i)
        BY <1>3, <2>1, <2>3, <3>4
      <4>q. QED BY <1>7, <2>1, <3>2, <3>4, <4>1
    <3>q. QED BY <3>3, <3>4
  <2>4. CASE j < i
    <3>1. i # 1 /\ j <= i - 1 /\ i # j
      BY <2>1, <2>4
    <3>2. c % cls(i - 1) = 0
      BY <1>3, <2>1, <2>2, <3>1
    <3>3. 0 \div cls(i) = 0
      BY <2>1
    <3>q. QED BY <1>4, <3>1, <3>2, <3>3
  <2>q. QED BY <2>1, <2>3, <2>4
<1>9. Total(f) = 1
  <2> DEFINE g == [i \in 1..N \ {j} |-> Share(c, i)]
  <2>1. /\ DOMAIN f = 1..N /\ j \in DOMAIN f /\ f[j] = 1
        /\ DOMAIN g = DOMAIN f \ {j}
        /\ \A i \in DOMAIN g : g[i] = f[i] /\ g[i] = 0
    BY <1>2, <1>8
  <2> HIDE DEF f, g
  <2>2. IsFiniteMap(g) /\ Total(f) = Total(g) + f[j]
    BY <1>6, <2>1, TotalRemove
  <2>3. Total(g) = 0
    BY <2>1, <2>2, TotalZero DEF IsFiniteMap
  <2>q. QED BY <2>1, <2>2, <2>3
<1>q. QED BY <1>5, <1>9 DEF Shares, N

(* Whole blocks of the smallest class leave nothing to share.  *)
LEMMA SharesAdd ==
  ASSUME NEW a \in Nat, NEW b \in Nat, a % kMinLargeBlock = 0, b % kMinLargeBlock = 0
  PROVE  /\ (a + b) % kMinLargeBlock = 0 /\ a + b \in Nat
         /\ Shares(a + b, kNumLargeClasses)
              <= Shares(a, kNumLargeClasses) + Shares(b, kNumLargeClasses)
         /\ Shares(a + b, kNumLargeClasses) \in Nat
         /\ Shares(a, kNumLargeClasses) \in Nat /\ Shares(b, kNumLargeClasses) \in Nat
<1> DEFINE N == kNumLargeClasses
           c == kMinLargeBlock
           x == a \div c
           y == b \div c
<1>1. /\ N \in 1..N /\ N \in 0..N /\ c \in Nat \ {0} /\ c = kLargeBlockSizes[N]
      /\ a + b \in Nat
  BY ClassFacts DEF kMinLargeBlock
<1>2. \A n \in Nat : Shares(n, N) \in Nat
  BY <1>1, SharesStep
<1>3. Shares(a + b, N) + x + y <= Shares(a, N) + Shares(b, N) + ((a + b) \div c)
  BY <1>1, SharesOfSum
<1>4. x \in Nat /\ y \in Nat
  BY <1>1, Division
<1>5. (a + b) \div c = x + y /\ (a + b) % c = 0
  <2>1. c \in Nat \ {0}
    BY <1>1
  <2>q. QED BY <2>1, MultiplesOfSum
<1> DEFINE sa == Shares(a, N)
           sb == Shares(b, N)
           ss == Shares(a + b, N)
<1>6. sa \in Nat /\ sb \in Nat /\ ss \in Nat
  BY <1>1, <1>2
<1>7. ss <= sa + sb
  <2> HIDE DEF sa, sb, ss, x, y, c
  <2>1. ss + x + y <= sa + sb + (x + y)
    BY <1>3, <1>5 DEF sa, sb, ss
  <2>q. QED BY <1>4, <1>6, <2>1
<1>q. QED BY <1>1, <1>5, <1>6, <1>7

(* No sequence of blocks is shorter than the shares of what it adds up to. *)
LEMMA FewestShares ==
  ASSUME NEW s \in Seq(BlockClasses)
  PROVE  /\ Total(s) \in Nat /\ Total(s) % kMinLargeBlock = 0
         /\ Shares(Total(s), kNumLargeClasses) <= Len(s)
<1> DEFINE N == kNumLargeClasses
           kMin == kMinLargeBlock
           m == Len(s)
           Holds(t) == Total(t) \in Nat /\ Total(t) % kMin = 0 /\ Shares(Total(t), N) <= Len(t)
           Good == {k \in 0..m : \A t \in Seq(BlockClasses) : Len(t) = k => Holds(t)}
<1>1. N \in Nat \ {0} /\ kMin \in Nat \ {0} /\ BlockClasses \subseteq Nat /\ m \in Nat
      /\ kMin = kLargeBlockSizes[N] /\ N \in 1..N /\ N \in 0..N
  BY ClassFacts DEF kMinLargeBlock
<1>2. \A x \in Nat : Shares(x, N) \in Nat
  BY <1>1, SharesStep
<1>3. 0 \in Good
  <2> SUFFICES ASSUME NEW t \in Seq(BlockClasses), Len(t) = 0 PROVE Holds(t)
    BY <1>1
  <2>1. DOMAIN t = {}
    OBVIOUS
  <2>2. Total(t) = 0
    BY <2>1, TotalEmpty
  <2>3. 0 % kMin = 0 /\ Shares(0, N) = 0
    <3>1. 0 % kMin = 0
      BY <1>1
    <3>2. ASSUME NEW i \in 1..N PROVE Share(0, i) = 0
      <4>1. kLargeBlockSizes[i] \in Nat \ {0} /\ (i # 1 => kLargeBlockSizes[i - 1] \in Nat \ {0})
        BY ClassFacts
      <4>2. \A x \in Nat \ {0} : 0 % x = 0 /\ 0 \div x = 0
        OBVIOUS
      <4>q. QED BY <4>1, <4>2, ShareIs
    <3>3. IsFiniteSet(1..N)
      BY <1>1, FS_Interval
    <3> DEFINE f == [i \in 1..N |-> Share(0, i)]
    <3>4. DOMAIN f = 1..N /\ \A i \in DOMAIN f : f[i] = 0
      BY <3>2
    <3> HIDE DEF f
    <3>5. Total(f) = 0
      BY <3>3, <3>4, TotalZero
    <3>q. QED BY <3>1, <3>5 DEF Shares, f
  <2>q. QED BY <2>2, <2>3
<1>4. ASSUME NEW k \in 0..m, k # m, k \in Good PROVE k + 1 \in Good
  <2> SUFFICES ASSUME NEW t \in Seq(BlockClasses), Len(t) = k + 1 PROVE Holds(t)
    BY <1>1, <1>4
  <2> DEFINE u == Tail(t)
             a == Head(t)
             b == Total(u)
  <2>1. t # <<>> /\ u \in Seq(BlockClasses) /\ a \in BlockClasses /\ Len(u) = k
    BY <1>1
  <2>2. Holds(u)
    BY <1>4, <2>1
  <2>3. Total(t) = a + b
    <3>1. t \in Seq(Nat)
      BY <1>1, SeqSubset
    <3>q. QED BY <2>1, <3>1, TotalTail
  <2>4. a % kMin = 0 /\ Shares(a, N) = 1 /\ a \in Nat
    BY <1>1, <2>1, SharesOfBlock
  <2>5. b \in Nat /\ b % kMin = 0 /\ Shares(b, N) <= k
    BY <2>1, <2>2
  <2>6. /\ (a + b) % kMin = 0 /\ a + b \in Nat
        /\ Shares(a + b, N) <= Shares(a, N) + Shares(b, N) /\ Shares(a + b, N) \in Nat
        /\ Shares(b, N) \in Nat
    BY <2>4, <2>5, SharesAdd
  <2> HIDE DEF a, b, u, N, kMin
  <2>7. Shares(a + b, N) <= k + 1
    BY <2>4, <2>5, <2>6
  <2>q. QED BY <2>3, <2>6, <2>7
<1> HIDE DEF Good
<1>5. 0..m \subseteq Good
  BY <1>1, <1>3, <1>4, UpTo
<1>6. m \in Good
  BY <1>1, <1>5
<1>q. QED BY <1>6 DEF Good

LEMMA OneMoreBlock ==
  ASSUME NEW s \in Seq(BlockClasses), NEW c \in BlockClasses
  PROVE  /\ s \o <<c>> \in Seq(BlockClasses)
         /\ Len(s \o <<c>>) = Len(s) + 1
         /\ Total(s \o <<c>>) = Total(s) + c
<1>1. c \in Nat /\ BlockClasses \subseteq Nat
  BY ClassFacts
<1>2. <<c>> \in Seq(Nat) /\ <<c>> \in Seq(BlockClasses) /\ s \in Seq(Nat)
  <2>1. \A S : c \in S => <<c>> \in Seq(S)
    OBVIOUS
  <2>2. s \in Seq(Nat)
    BY <1>1, SeqSubset
  <2>q. QED BY <1>1, <2>1, <2>2
<1>3. Total(<<c>>) = c
  <2>1. Head(<<c>>) = c /\ Tail(<<c>>) = <<>> /\ <<c>> # <<>> /\ DOMAIN (<<>>) = {}
    OBVIOUS
  <2>2. Total(<<>>) = 0
    BY <2>1, TotalEmpty
  <2>3. Total(<<c>>) = c + 0
    BY <1>2, <2>1, <2>2, TotalTail
  <2>q. QED BY <1>1, <2>3
<1>4. Total(s \o <<c>>) = Total(s) + Total(<<c>>)
  BY <1>2, TotalConcat
<1>q. QED BY <1>2, <1>3, <1>4

(* What is less than one smallest block has no share. *)
LEMMA SharesBelow ==
  ASSUME NEW n \in Nat, NEW rest \in Nat, rest < kMinLargeBlock
  PROVE  Shares(kMinLargeBlock * n + rest, kNumLargeClasses)
           <= Shares(n * kMinLargeBlock, kNumLargeClasses)
<1> DEFINE N == kNumLargeClasses
           c == kMinLargeBlock
           a == n * c
<1>1. /\ N \in 1..N /\ N \in 0..N /\ c \in Nat \ {0} /\ c = kLargeBlockSizes[N]
      /\ \A i \in 1..N : kLargeBlockSizes[i] \in Nat \ {0} /\ c <= kLargeBlockSizes[i]
  BY ClassFacts DEF kMinLargeBlock
<1>2. \A x \in Nat \ {0} : rest < x => rest % x = rest /\ rest \div x = 0
  <2> SUFFICES ASSUME NEW x \in Nat \ {0}, rest < x PROVE rest % x = rest /\ rest \div x = 0
    OBVIOUS
  <2>1. rest \in 0..(x - 1) /\ x * 0 + rest = rest /\ 0 \in Nat
    OBVIOUS
  <2>q. QED BY <2>1, DivisionUnique
<1>3. Shares(rest, N) = 0
  <2>1. ASSUME NEW i \in 1..N PROVE Share(rest, i) = 0
    <3>1. kLargeBlockSizes[i] \in Nat \ {0} /\ rest < kLargeBlockSizes[i]
      BY <1>1
    <3>2. i # 1 => kLargeBlockSizes[i - 1] \in Nat \ {0} /\ rest < kLargeBlockSizes[i - 1]
      <4>1. i # 1 => i - 1 \in 1..N
        BY <1>1
      <4>q. QED BY <1>1, <4>1
    <3>q. QED BY <1>2, <3>1, <3>2, ShareIs
  <2>2. IsFiniteSet(1..N)
    BY <1>1, FS_Interval, ClassFacts
  <2> DEFINE f == [i \in 1..N |-> Share(rest, i)]
  <2>3. DOMAIN f = 1..N /\ \A i \in DOMAIN f : f[i] = 0
    BY <2>1
  <2> HIDE DEF f
  <2>4. Total(f) = 0
    BY <2>2, <2>3, TotalZero
  <2>q. QED BY <2>4 DEF Shares, f
<1>4. a \in Nat /\ c * n + rest = a + rest /\ a + rest \in Nat
  <2> HIDE DEF c
  <2>q. QED BY <1>1
<1>5. /\ a \div c = n /\ rest \div c = 0 /\ (a + rest) \div c = n
  <2>1. rest \div c = 0
    BY <1>1, <1>2
  <2>2. (c * n + 0) \div c = n /\ (c * n + rest) \div c = n /\ c * n + 0 = a
    <3> HIDE DEF c
    <3>1. 0 \in 0..(c - 1) /\ rest \in 0..(c - 1)
      BY <1>1 DEF c
    <3>2. (c * n + 0) \div c = n /\ (c * n + rest) \div c = n
      BY <1>1, <3>1, DivisionUnique
    <3>q. QED BY <1>1, <3>2
  <2>q. QED BY <1>4, <2>1, <2>2
<1>6. Shares(a + rest, N) + (a \div c) + (rest \div c)
        <= Shares(a, N) + Shares(rest, N) + ((a + rest) \div c)
  BY <1>1, <1>4, SharesOfSum
<1>7. Shares(a + rest, N) \in Nat /\ Shares(a, N) \in Nat
  BY <1>1, <1>4, SharesStep
<1>8. Shares(a + rest, N) + n + 0 <= Shares(a, N) + 0 + n
  BY <1>3, <1>5, <1>6
<1>q. QED BY <1>4, <1>7, <1>8

-----------------------------------------------------------------------------
(* computeLayout *)

(* What computeLayout takes greedily, and the one block it adds for the rest. *)
LEMMA LayoutParts ==
  ASSUME NEW size \in Nat \ {0}
  PROVE  LET rest == Remaining(size)[kNumLargeClasses]
         IN \E greedy \in Seq(BlockClasses) :
              /\ Total(greedy) = size - rest
              /\ Len(greedy) = Shares(size, kNumLargeClasses)
              /\ rest \in Nat /\ rest < kMinLargeBlock
              /\ computeLayout(size) = IF rest = 0 THEN greedy ELSE greedy \o <<kMinLargeBlock>>
<1> DEFINE N == kNumLargeClasses
           cls(i) == kLargeBlockSizes[i]
           left == Remaining(size)
           runs == [i \in 1..N |-> [k \in 1..((left[i - 1] - left[i]) \div cls(i)) |-> cls(i)]]
           greedy == FlattenSeq(runs)
           rest == left[N]
<1>1. N \in Nat \ {0} /\ \A i \in 1..N : cls(i) \in Nat \ {0} /\ cls(i) \in BlockClasses
  BY ClassFacts
<1>2. /\ \A i \in 0..N : left[i] \in Nat
      /\ left[0] = size /\ \A i \in 1..N : left[i] = left[i - 1] % cls(i)
  BY RemainingSteps
<1>3. computeLayout(size) =
        IF rest = 0 THEN greedy
        ELSE greedy \o <<Min({c \in BlockClasses : c >= rest})>>
  BY DEF computeLayout
<1>4. /\ \A i \in 1..N : Share(size, i) = left[i - 1] \div cls(i)
      /\ \A i \in 0..N : /\ Shares(size, i) \in Nat /\ Shares(size, 0) = 0
                         /\ i # N => Shares(size, i + 1) = Shares(size, i) + Share(size, i + 1)
  BY SharesStep DEF Share
<1> HIDE DEF N, cls, left
<1>5. \A i \in 1..N : i - 1 \in 0..N /\ i \in 0..N
  BY <1>1
<1>6. ASSUME NEW i \in 1..N
      PROVE  /\ runs[i] \in Seq(BlockClasses)
             /\ Total(runs[i]) = left[i - 1] - left[i]
             /\ Len(runs[i]) = Share(size, i)
  <2> DEFINE n == (left[i - 1] - left[i]) \div cls(i)
             c == cls(i)
             run == [k \in 1..n |-> c]
  <2>1. left[i - 1] \in Nat /\ left[i] = left[i - 1] % c /\ c \in Nat \ {0} /\ c \in BlockClasses
    BY <1>1, <1>2, <1>5
  <2>2. n \in Nat /\ n * c = left[i - 1] - left[i] /\ n = left[i - 1] \div c
    <3>1. PICK a, b : a = left[i - 1] /\ b = c
      OBVIOUS
    <3>2. a \in Nat /\ b \in Nat \ {0} /\ n = (a - (a % b)) \div b
      BY <2>1, <3>1
    <3>3. (a - (a % b)) \div b \in Nat /\ ((a - (a % b)) \div b) * b = a - (a % b)
          /\ (a - (a % b)) \div b = a \div b
      BY <3>2, WholeBlocks
    <3> HIDE DEF n, c
    <3>q. QED BY <2>1, <3>1, <3>2, <3>3
  <2>3. runs[i] = run
    OBVIOUS
  <2> HIDE DEF n, c, runs
  <2>4. Total(run) = n * c
    BY <2>1, <2>2, TotalRepeat
  <2>5. run \in Seq(BlockClasses)
    <3>1. n \in Nat /\ c \in BlockClasses
      BY <2>1, <2>2
    <3>q. QED BY <3>1
  <2>6. Share(size, i) = left[i - 1] \div c
    BY <1>4 DEF c
  <2>7. Len(run) = n
    BY <2>2
  <2>q. QED BY <2>2, <2>3, <2>4, <2>5, <2>6, <2>7
<1>7. runs \in [1..N -> Seq(BlockClasses)]
  BY <1>6
<1> HIDE DEF runs
<1>8. PICK g : /\ greedy = g[N] /\ g[1] = runs[1]
               /\ \A i \in 2..N : g[i] = g[i - 1] \o runs[i]
  BY <1>1, <1>7, FlattenSteps
<1> HIDE DEF greedy
<1> DEFINE Good == {i \in 0..N :
                      i # 0 => /\ g[i] \in Seq(BlockClasses)
                               /\ Total(g[i]) = size - left[i]
                               /\ Len(g[i]) = Shares(size, i)}
<1>9. 0 \in Good
  BY <1>1
<1>10. BlockClasses \subseteq Nat
  BY ClassFacts
<1>11. ASSUME NEW k \in 0..N, k # N, k \in Good PROVE k + 1 \in Good
  <2>1. k + 1 \in 1..N /\ (k + 1) - 1 = k /\ k \in 0..N /\ k + 1 \in 0..N
    BY <1>1, <1>11
  <2>2. /\ runs[k + 1] \in Seq(BlockClasses) /\ Total(runs[k + 1]) = left[k] - left[k + 1]
        /\ Len(runs[k + 1]) = Share(size, k + 1)
    BY <1>6, <2>1
  <2>3. left[k] \in Nat /\ left[k + 1] \in Nat
    BY <1>2, <2>1
  <2>4. Shares(size, k + 1) = Shares(size, k) + Share(size, k + 1) /\ Shares(size, 0) = 0
    BY <1>4, <1>11
  <2>5. CASE k = 0
    <3>1. g[k + 1] = runs[k + 1] /\ left[k] = size
      BY <1>2, <1>8, <2>5
    <3>2. Len(g[k + 1]) = Shares(size, k + 1)
      <4>1. Len(runs[k + 1]) \in Nat
        BY <2>2
      <4>2. Shares(size, k + 1) = 0 + Share(size, k + 1)
        BY <2>5, <2>4
      <4>q. QED BY <2>2, <3>1, <4>1, <4>2
    <3>q. QED BY <2>1, <2>2, <3>1, <3>2
  <2>6. CASE k # 0
    <3>1. /\ g[k] \in Seq(BlockClasses) /\ Total(g[k]) = size - left[k]
          /\ Len(g[k]) = Shares(size, k)
      BY <1>11, <2>6
    <3>2. g[k + 1] = g[k] \o runs[k + 1]
      <4>1. k + 1 \in 2..N
        BY <2>1, <2>6
      <4>q. QED BY <1>8, <2>1, <4>1
    <3>3. \A s \in Seq(BlockClasses) : s \in Seq(Nat)
      BY <1>10, SeqSubset
    <3>4. Total(g[k + 1]) = Total(g[k]) + Total(runs[k + 1])
      BY <2>2, <3>1, <3>2, <3>3, TotalConcat
    <3>5. g[k + 1] \in Seq(BlockClasses)
      BY <2>2, <3>1, <3>2
    <3>6. Total(g[k + 1]) = size - left[k + 1]
      BY <2>2, <2>3, <3>1, <3>4
    <3>7. Len(g[k + 1]) = Shares(size, k + 1)
      <4>1. Len(g[k + 1]) = Len(g[k]) + Len(runs[k + 1])
        <5>1. \A s, t \in Seq(BlockClasses) : Len(s \o t) = Len(s) + Len(t)
          OBVIOUS
        <5>q. QED BY <2>2, <3>1, <3>2, <5>1
      <4>q. QED BY <2>2, <2>4, <3>1, <4>1
    <3>q. QED BY <2>1, <3>5, <3>6, <3>7
  <2>q. QED BY <2>5, <2>6
<1> HIDE DEF Good
<1>12. 0..N \subseteq Good
  BY <1>1, <1>9, <1>11, UpTo
<1>13. /\ greedy \in Seq(BlockClasses) /\ Total(greedy) = size - rest
       /\ Len(greedy) = Shares(size, N)
  <2>1. N \in 0..N /\ N # 0
    BY <1>1
  <2>q. QED BY <1>8, <1>12, <2>1 DEF Good
<1>14. rest \in Nat /\ rest < kMinLargeBlock
  <2>1. N \in 1..N /\ N \in 0..N /\ N - 1 \in 0..N
    BY <1>1
  <2>2. left[N] = left[N - 1] % cls(N) /\ left[N - 1] \in Nat /\ cls(N) \in Nat \ {0}
    BY <1>1, <1>2, <2>1
  <2>3. cls(N) = kMinLargeBlock
    BY DEF N, cls, kMinLargeBlock
  <2>4. left[N - 1] % cls(N) < cls(N)
    BY <2>2, WholeBlocks
  <2>q. QED BY <1>2, <2>1, <2>2, <2>3, <2>4
<1> HIDE DEF rest
<1>15. computeLayout(size) = IF rest = 0 THEN greedy ELSE greedy \o <<kMinLargeBlock>>
  <2> DEFINE fits == {c \in BlockClasses : c >= rest}
             kMin == kMinLargeBlock
  <2>1. kMin \in fits /\ \A c \in fits : kMin <= c /\ c \in Nat /\ kMin \in Nat
    BY <1>10, <1>14, ClassFacts
  <2>2. Min(fits) = kMin
    <3> HIDE DEF fits, kMin
    <3>1. \A c \in fits : (\A d \in fits : c <= d) => c = kMin
      BY <2>1
    <3>q. QED BY <2>1, <3>1 DEF Min
  <2>q. QED BY <1>3, <2>2
<1>q. QED BY <1>13, <1>14, <1>15 DEF N, left, rest

(* What allocate reserves is made of blocks the PhysicalMemoryManager has, *)
(* is never shorter than the request, and exceeds it by less than one      *)
(* smallest block (large_allocator.cc:161-187).                            *)
THEOREM LayoutCovers ==
  ASSUME NEW size \in Nat \ {0}
  PROVE  /\ computeLayout(size) \in Seq(BlockClasses)
         /\ size <= LayoutBytes(computeLayout(size))
         /\ LayoutBytes(computeLayout(size)) < size + kMinLargeBlock
<1> DEFINE layout == computeLayout(size)
           kMin == kMinLargeBlock
           rest == Remaining(size)[kNumLargeClasses]
<1>1. kMin \in Nat \ {0} /\ kMin \in BlockClasses /\ BlockClasses \subseteq Nat
  BY ClassFacts
<1>2. PICK greedy \in Seq(BlockClasses) :
        /\ Total(greedy) = size - rest /\ rest \in Nat /\ rest < kMin
        /\ layout = IF rest = 0 THEN greedy ELSE greedy \o <<kMin>>
  BY LayoutParts
<1> HIDE DEF layout, kMin, rest
<1>3. CASE rest = 0
  BY <1>1, <1>2, <1>3 DEF LayoutBytes, layout, kMin
<1>4. CASE rest # 0
  <2>1. layout \in Seq(BlockClasses) /\ Total(layout) = size - rest + kMin
    BY <1>1, <1>2, <1>4, OneMoreBlock
  <2>2. size <= Total(layout) /\ Total(layout) < size + kMin
    BY <1>1, <1>2, <1>4, <2>1
  <2>q. QED BY <2>1, <2>2 DEF LayoutBytes, layout, kMin
<1>q. QED BY <1>3, <1>4

(* It fits the request: all of it is in whole blocks but less than one      *)
(* smallest block of waste, and no fewer blocks add up to the whole         *)
(* multiple of the smallest class that the request holds; what is left      *)
(* above it takes one more block (large_allocator.cc:161-187).              *)
THEOREM LayoutTight ==
  ASSUME NEW size \in Nat \ {0}
  PROVE  IsTight(computeLayout(size), size)
<1> DEFINE layout == computeLayout(size)
           N == kNumLargeClasses
           kMin == kMinLargeBlock
           n == size \div kMin
           rest == size % kMin
           extra == IF rest = 0 THEN 0 ELSE 1
<1>1. /\ kMin \in Nat \ {0} /\ kMin \in BlockClasses /\ BlockClasses \subseteq Nat
      /\ N \in 1..N /\ N \in 0..N /\ kMin = kLargeBlockSizes[N]
  BY ClassFacts DEF kMinLargeBlock
<1>2. PICK greedy \in Seq(BlockClasses) :
        /\ Total(greedy) = size - rest /\ Len(greedy) = Shares(size, N)
        /\ rest \in Nat /\ rest < kMin
        /\ layout = IF rest = 0 THEN greedy ELSE greedy \o <<kMin>>
  <2>1. Remaining(size)[N] = rest
    BY <1>1, RemainingIs
  <2>q. QED BY <2>1, LayoutParts
<1>3. n \in Nat /\ size = kMin * n + rest /\ rest \in 0..(kMin - 1)
  BY <1>1, Division
<1>4. Shares(size, N) <= Shares(n * kMin, N)
  BY <1>1, <1>2, <1>3, SharesBelow
<1>5. \A fewer \in Seq(BlockClasses) : Total(fewer) = n * kMin => Shares(n * kMin, N) <= Len(fewer)
  BY FewestShares
<1>6. Shares(n * kMin, N) \in Nat /\ Shares(size, N) \in Nat
  <2>1. n * kMin \in Nat
    <3>1. \A x, y \in Nat : x * y \in Nat
      OBVIOUS
    <3>2. n \in Nat /\ kMin \in Nat
      BY <1>1, <1>3
    <3> HIDE DEF n, kMin
    <3>q. QED BY <3>1, <3>2
  <2>q. QED BY <1>1, <2>1, SharesStep
<1>7. /\ layout \in Seq(BlockClasses) /\ Len(layout) = Shares(size, N) + extra
      /\ Total(layout) = size - rest + extra * kMin
  <2> HIDE DEF layout, kMin, rest, N
  <2>1. CASE rest = 0
    <3>1. layout = greedy /\ extra = 0
      BY <1>2, <2>1
    <3>q. QED BY <1>1, <1>2, <1>6, <2>1, <3>1
  <2>2. CASE rest # 0
    <3>1. layout \in Seq(BlockClasses) /\ Total(layout) = size - rest + kMin
          /\ Len(layout) = Len(greedy) + 1
      BY <1>1, <1>2, <2>2, OneMoreBlock
    <3>q. QED BY <1>1, <1>2, <2>2, <3>1
  <2>q. QED BY <2>1, <2>2
<1>8. Total(layout) = (n + extra) * kMin
  <2> HIDE DEF layout, kMin, n, rest
  <2>1. size - rest = n * kMin
    BY <1>1, <1>2, <1>3
  <2>2. extra \in Nat
    OBVIOUS
  <2> HIDE DEF extra
  <2>3. n * kMin + extra * kMin = (n + extra) * kMin
    BY <1>1, <1>3, <2>2
  <2>q. QED BY <1>7, <2>1, <2>3
<1>9. ASSUME NEW fewer \in SeqOf(BlockClasses, Len(layout) - extra - 1)
      PROVE  Total(fewer) # n * kMin
  <2>1. extra \in Nat
    OBVIOUS
  <2> HIDE DEF layout, n, kMin, N, extra
  <2>2. Len(layout) - extra - 1 = Shares(size, N) - 1
    BY <1>6, <1>7, <2>1
  <2>3. PICK m \in 0..(Shares(size, N) - 1) : fewer \in [1..m -> BlockClasses]
    BY <2>2 DEF SeqOf
  <2>4. fewer \in Seq(BlockClasses) /\ Len(fewer) = m /\ m \in Nat
    BY <2>3
  <2>5. m < Shares(size, N)
    BY <1>6, <2>3
  <2>q. QED BY <1>4, <1>5, <1>6, <2>4, <2>5
<1>q. QED BY <1>8, <1>9 DEF IsTight, LayoutBytes
=============================================================================
