---------------------------- MODULE OomRetryProofs ----------------------------
(***************************************************************************)
(* Proofs about OomRetry for all threads, block classes, requests and      *)
(* capacities: no byte is lost or doubled by the retries of alloc_impl,    *)
(* and an allocation that gives up lacked the memory.                      *)
(***************************************************************************)
EXTENDS OomRetry, BlockLayoutProofs

-----------------------------------------------------------------------------
(* Numbers of blocks, and their bytes *)

Steps == {"attempt", "take", "rollback", "failed", "flush", "purge", "release", "trim"}
Counts == [AllSizes -> Nat]
Allocation ==
  [size : Requests, level : 0..2, todo : Seq(AllSizes), shared : Nat, got : Counts, step : Steps]

(* Mapped pages emptyCache does not give back. *)
Kept == pinned + stuck + edge

LEMMA SizeFacts ==
  /\ AllSizes \subseteq Nat \ {0} /\ IsFiniteSet(AllSizes)
  /\ kSmallBlockSize \in AllSizes /\ BlockClasses \subseteq AllSizes
  /\ kSmallBlockSize \notin BlockClasses
<1>1. BlockClasses \subseteq Nat \ {0} /\ kNumLargeClasses \in Nat
  BY ClassFacts
<1>2. IsFiniteSet(1..kNumLargeClasses)
  BY <1>1, FS_Interval
<1>3. BlockClasses = {kLargeBlockSizes[i] : i \in 1..kNumLargeClasses}
  BY ClassesAssumption DEF BlockClasses, Range, kNumLargeClasses
<1>4. IsFiniteSet(BlockClasses)
  <2> DEFINE m == [i \in 1..kNumLargeClasses |-> kLargeBlockSizes[i]]
  <2>1. m \in Surjection(1..kNumLargeClasses, BlockClasses)
    BY <1>3 DEF Surjection
  <2>q. QED BY <1>2, <2>1, FS_Surjection DEF ExistsSurjection
<1>5. IsFiniteSet(AllSizes)
  BY <1>4, FS_AddElement DEF AllSizes
<1>6. \A c \in BlockClasses : kSmallBlockSize < c /\ c \in Nat /\ kSmallBlockSize \in Nat
  BY <1>1, RetryAssumption
<1>7. kSmallBlockSize \notin BlockClasses
  BY <1>6
<1>q. QED BY <1>1, <1>5, <1>7, RetryAssumption DEF AllSizes

LEMMA BytesMap ==
  ASSUME NEW b \in Counts
  PROVE  IsFiniteMap([c \in AllSizes |-> c * b[c]]) /\ Bytes(b) \in Nat
<1>1. \A c \in AllSizes : c \in Nat /\ b[c] \in Nat
  BY SizeFacts DEF Counts
<1>2. \A c \in AllSizes : c * b[c] \in Nat
  BY <1>1
<1>3. IsFiniteMap([c \in AllSizes |-> c * b[c]])
  BY <1>2, SizeFacts DEF IsFiniteMap
<1>q. QED BY <1>3, TotalNat DEF Bytes

LEMMA BytesNone == NoBlocks \in Counts /\ Bytes(NoBlocks) = 0
<1>1. \A c \in AllSizes : c * NoBlocks[c] = 0
  BY SizeFacts DEF NoBlocks
<1>2. Total([c \in AllSizes |-> c * NoBlocks[c]]) = 0
  BY <1>1, SizeFacts, TotalZero
<1>q. QED BY <1>2 DEF NoBlocks, Counts, Bytes

LEMMA BytesPlus ==
  ASSUME NEW b \in Counts, NEW c \in AllSizes, NEW n \in Int, b[c] + n \in Nat
  PROVE  Plus(b, c, n) \in Counts /\ Bytes(Plus(b, c, n)) = Bytes(b) + c * n
<1> DEFINE p == Plus(b, c, n)
           f == [d \in AllSizes |-> d * b[d]]
           g == [d \in AllSizes |-> d * p[d]]
<1>1. /\ p \in Counts /\ p[c] = b[c] + n
      /\ \A d \in AllSizes : d # c => p[d] = b[d]
  BY DEF Plus, Counts
<1> HIDE DEF p
<1>2. IsFiniteMap(f) /\ IsFiniteMap(g) /\ Bytes(b) = Total(f) /\ Bytes(p) = Total(g) /\ Total(f) \in Nat
  BY <1>1, BytesMap, TotalNat DEF Bytes
<1>3. /\ c \in DOMAIN f /\ DOMAIN g = DOMAIN f
      /\ \A d \in DOMAIN f : d # c => g[d] = f[d]
      /\ f[c] = c * b[c] /\ g[c] = c * p[c]
  BY <1>1
<1> HIDE DEF f, g
<1>4. f[c] \in Nat /\ g[c] \in Nat
  BY <1>2, <1>3 DEF IsFiniteMap
<1>5. Total(g) = Total(f) - f[c] + g[c]
  BY <1>2, <1>3, <1>4, TotalChange
<1>6. c * (b[c] + n) = c * b[c] + c * n /\ c * n \in Int
  <2>1. c \in Int /\ b[c] \in Int
    BY SizeFacts DEF Counts
  <2>q. QED BY <2>1
<1>7. Bytes(p) = Bytes(b) + c * n
  BY <1>1, <1>2, <1>3, <1>4, <1>5, <1>6
<1>q. QED BY <1>1, <1>7 DEF p

LEMMA BytesAdded ==
  ASSUME NEW a \in Counts, NEW b \in Counts, NEW s \in Counts,
         \A c \in AllSizes : s[c] = a[c] + b[c]
  PROVE  Bytes(s) = Bytes(a) + Bytes(b)
<1> DEFINE of(m) == [c \in AllSizes |-> c * m[c]]
<1>1. IsFiniteMap(of(a)) /\ IsFiniteMap(of(b))
  BY BytesMap
<1>2. \A c \in AllSizes : c * s[c] = c * a[c] + c * b[c]
  <2> SUFFICES ASSUME NEW c \in AllSizes PROVE c * s[c] = c * a[c] + c * b[c]
    OBVIOUS
  <2>1. c \in Int /\ a[c] \in Int /\ b[c] \in Int /\ s[c] = a[c] + b[c]
    BY SizeFacts DEF Counts
  <2>2. \A x, y, z \in Int : x * (y + z) = x * y + x * z
    OBVIOUS
  <2>q. QED BY <2>1, <2>2
<1>3. /\ DOMAIN of(b) = DOMAIN of(a) /\ DOMAIN of(s) = DOMAIN of(a)
      /\ \A c \in DOMAIN of(a) : of(s)[c] = of(a)[c] + of(b)[c]
  BY <1>2
<1> HIDE DEF of
<1>4. Total(of(s)) = Total(of(a)) + Total(of(b))
  BY <1>1, <1>3, TotalSum
<1>q. QED BY <1>4 DEF of, Bytes

LEMMA SmallerOfTwo ==
  ASSUME NEW a \in Nat, NEW b \in Nat
  PROVE  /\ Min({a, b}) \in {a, b} /\ Min({a, b}) \in Nat
         /\ Min({a, b}) <= a /\ Min({a, b}) <= b
<1>1. \E x \in {a, b} : \A y \in {a, b} : x <= y
  OBVIOUS
<1>2. Min({a, b}) \in {a, b} /\ \A y \in {a, b} : Min({a, b}) <= y
  BY <1>1 DEF Min
<1>q. QED BY <1>2

(* purge takes no block that is not cached. *)
LEMMA VictimsCached ==
  ASSUME cached \in Counts, NEW n \in Nat
  PROVE  /\ PurgeVictims(n) \in Counts
         /\ \A c \in AllSizes : PurgeVictims(n)[c] <= cached[c]
<1> DEFINE missing(c) == n - Total([b \in {d \in AllSizes : d > c} |-> b * cached[b]])
<1>1. \A c \in AllSizes : missing(c) \in Int
  <2> SUFFICES ASSUME NEW c \in AllSizes PROVE missing(c) \in Int
    OBVIOUS
  <2> DEFINE f == [b \in AllSizes |-> b * cached[b]]
             D == {d \in AllSizes : d > c}
             g == [b \in D |-> f[b]]
  <2>1. IsFiniteMap(f) /\ D \subseteq DOMAIN f
    BY BytesMap
  <2>2. g = [b \in D |-> b * cached[b]]
    OBVIOUS
  <2> HIDE DEF f, D
  <2>3. Total(g) \in Nat
    BY <2>1, TotalSplit, TotalNat
  <2>q. QED BY <2>2, <2>3 DEF D
<1>2. PurgeVictims(n) =
        [c \in AllSizes |->
           IF missing(c) <= 0 THEN 0 ELSE Min({cached[c], (missing(c) + c - 1) \div c})]
  BY DEF PurgeVictims
<1> HIDE DEF missing
<1>3. ASSUME NEW c \in AllSizes, ~ (missing(c) <= 0)
      PROVE  (missing(c) + c - 1) \div c \in Nat
  <2>1. c \in Nat \ {0} /\ missing(c) + c - 1 \in Nat
    BY <1>1, <1>3, SizeFacts
  <2>q. QED BY <2>1
<1>4. \A c \in AllSizes : PurgeVictims(n)[c] \in Nat /\ PurgeVictims(n)[c] <= cached[c]
  <2> SUFFICES ASSUME NEW c \in AllSizes
               PROVE  PurgeVictims(n)[c] \in Nat /\ PurgeVictims(n)[c] <= cached[c]
    OBVIOUS
  <2>1. cached[c] \in Nat
    BY DEF Counts
  <2>2. CASE missing(c) <= 0
    BY <1>2, <2>1, <2>2
  <2>3. CASE ~ (missing(c) <= 0)
    <3> DEFINE most == (missing(c) + c - 1) \div c
    <3>1. PurgeVictims(n)[c] = Min({cached[c], most}) /\ most \in Nat
      BY <1>2, <1>3, <2>3
    <3> HIDE DEF most
    <3>q. QED BY <2>1, <3>1, SmallerOfTwo
  <2>q. QED BY <2>2, <2>3
<1>q. QED BY <1>2, <1>4 DEF Counts

(* The blocks of a large request. *)
LEMMA BlocksFacts ==
  ASSUME NEW n \in Requests
  PROVE  /\ computeLayout(n) \in Seq(AllSizes) /\ Need(n) \in Nat
         /\ Need(n) = Total(computeLayout(n))
         /\ BlocksOf(n) \in Counts /\ Bytes(BlocksOf(n)) = Need(n)
<1> DEFINE layout == computeLayout(n)
<1>1. n \in Nat \ {0}
  BY RetryAssumption
<1>2. layout \in Seq(BlockClasses)
  BY <1>1, LayoutCovers
<1>3. layout \in Seq(AllSizes)
  BY <1>2, SizeFacts, SeqSubset
<1>4. Need(n) = Total(layout)
  BY DEF Need, LayoutBytes
<1>5. BlocksOf(n) = [c \in AllSizes |-> Cardinality({i \in DOMAIN layout : layout[i] = c})]
  BY DEF BlocksOf
<1> HIDE DEF layout
<1>6. /\ \A c \in AllSizes : Cardinality({i \in DOMAIN layout : layout[i] = c}) \in Nat
      /\ Total([c \in AllSizes |-> c * Cardinality({i \in DOMAIN layout : layout[i] = c})])
           = Total(layout)
  BY <1>3, SizeFacts, TotalByValue
<1>7. BlocksOf(n) \in Counts /\ Bytes(BlocksOf(n)) = Need(n)
  <2>1. BlocksOf(n) \in Counts
    BY <1>5, <1>6 DEF Counts
  <2>2. \A c \in AllSizes : BlocksOf(n)[c] = Cardinality({i \in DOMAIN layout : layout[i] = c})
    BY <1>5
  <2>3. [c \in AllSizes |-> c * BlocksOf(n)[c]] =
          [c \in AllSizes |-> c * Cardinality({i \in DOMAIN layout : layout[i] = c})]
    BY <2>2
  <2>q. QED BY <1>4, <1>6, <2>1, <2>3 DEF Bytes
<1>8. Need(n) \in Nat
  BY <1>7, BytesMap
<1>q. QED BY <1>3, <1>4, <1>7, <1>8 DEF layout

(* The bytes of pages. *)
LEMMA BytesOfPages ==
  ASSUME NEW b \in Counts, \A c \in BlockClasses : b[c] = 0
  PROVE  b[kSmallBlockSize] \in Nat /\ Bytes(b) = kSmallBlockSize * b[kSmallBlockSize]
<1> DEFINE k == b[kSmallBlockSize]
           only == Plus(NoBlocks, kSmallBlockSize, k)
<1>1. k \in Nat
  BY SizeFacts DEF Counts
<1>2. NoBlocks[kSmallBlockSize] + k \in Nat /\ k \in Int
  BY <1>1, SizeFacts DEF NoBlocks
<1>3. only[kSmallBlockSize] = 0 + k /\ \A c \in BlockClasses : only[c] = 0
  BY SizeFacts DEF Plus, NoBlocks
<1> HIDE DEF k
<1>4. only \in Counts /\ Bytes(only) = Bytes(NoBlocks) + kSmallBlockSize * k
  BY <1>2, SizeFacts, BytesNone, BytesPlus
<1> HIDE DEF only
<1>5. \A c \in AllSizes : only[c] = b[c]
  BY <1>1, <1>3 DEF AllSizes, k
<1>6. only = b
  BY <1>4, <1>5 DEF Counts
<1>7. kSmallBlockSize * k \in Nat
  BY <1>1, SizeFacts
<1>q. QED BY <1>1, <1>4, <1>6, <1>7, BytesNone DEF k

-----------------------------------------------------------------------------
(* The inductive invariant *)

TypeOK ==
  /\ cached \in Counts /\ created \in Int
  /\ pinned \in Nat /\ stuck \in Nat /\ idle \in Nat /\ edge \in Nat
  /\ live \in [Requests -> Nat]
  /\ call \in [Threads -> Allocation \union {NoCall}]
  /\ returned \in [Threads -> 0..Capacity]

(* What a call holds at each of its steps: nothing between two attempts,   *)
(* and while it takes blocks, all it needs but for those still to do for a *)
(* large request, and pages only for a small one.                          *)
Progress(t) ==
  /\ call[t].step \in {"attempt", "failed", "flush", "purge", "trim"} =>
       call[t].got = NoBlocks
  /\ call[t].step = "take" =>
       /\ is_large(call[t].size) =>
            Bytes(call[t].got) + Total(call[t].todo) = Need(call[t].size)
       /\ ~ is_large(call[t].size) =>
            /\ \A c \in BlockClasses : call[t].got[c] = 0
            /\ \A i \in DOMAIN call[t].todo : call[t].todo[i] = kSmallBlockSize
  /\ call[t].step \in {"purge", "release"} => call[t].level # 2

CallsOK == TypeOK /\ \A t \in Threads : Progress(t)

LEMMA Running ==
  ASSUME TypeOK, NEW t \in Threads
  PROVE  /\ call[t] = NoCall <=> call[t].step = "idle"
         /\ call[t] # NoCall => call[t] \in Allocation
  BY DEF TypeOK, Allocation, NoCall, Steps

(* A step of one thread's call. *)
LEMMA OneCall ==
  ASSUME CallsOK, NEW t \in Threads, NEW c \in Allocation \union {NoCall},
         call' = [call EXCEPT ![t] = c]
  PROVE  /\ call' \in [Threads -> Allocation \union {NoCall}] /\ call'[t] = c
         /\ \A u \in Threads : u # t => call'[u] = call[u] /\ Progress(u)'
<1>1. call \in [Threads -> Allocation \union {NoCall}]
  BY DEF CallsOK, TypeOK, pages
<1>2. /\ call' \in [Threads -> Allocation \union {NoCall}] /\ call'[t] = c
      /\ \A u \in Threads : u # t => call'[u] = call[u]
  BY <1>1
<1>3. ASSUME NEW u \in Threads, u # t PROVE Progress(u)'
  BY <1>2, <1>3 DEF CallsOK, Progress
<1>q. QED BY <1>2, <1>3

LEMMA InitCalls == Init => CallsOK
<1> SUFFICES ASSUME Init PROVE CallsOK OBVIOUS
<1>1. \A t \in Threads : call[t] = NoCall
  BY DEF Init
<1>2. \A t \in Threads : Progress(t)
  BY <1>1 DEF Progress, NoCall
<1>3. TypeOK
  BY BytesNone, RetryAssumption DEF Init, TypeOK
<1>q. QED BY <1>2, <1>3 DEF CallsOK

LEMMA GaveBack ==
  ASSUME TypeOK, NEW t \in Threads, NEW n \in Nat, GiveBack(t, n)
  PROVE  /\ returned' \in [Threads -> 0..Capacity]
         /\ \A u \in Threads : u # t /\ LastAttempt(u) =>
              returned'[u] = Capacity \/ returned'[u] = returned[u] + n
         /\ returned'[t] = returned[t]
<1>1. \A u \in Threads : returned[u] \in Nat /\ returned[u] <= Capacity /\ Capacity \in Nat
  BY RetryAssumption DEF TypeOK
<1>2. \A u \in Threads : LET m == Min({returned[u] + n, Capacity})
                         IN m \in 0..Capacity /\ m \in {returned[u] + n, Capacity}
  <2> SUFFICES ASSUME NEW u \in Threads
               PROVE  LET m == Min({returned[u] + n, Capacity})
                      IN m \in 0..Capacity /\ m \in {returned[u] + n, Capacity}
    OBVIOUS
  <2>1. returned[u] + n \in Nat /\ Capacity \in Nat
    BY <1>1
  <2>q. QED BY <2>1, SmallerOfTwo
<1>3. \A u \in Threads : returned'[u] = IF u # t /\ LastAttempt(u)
                                        THEN Min({returned[u] + n, Capacity}) ELSE returned[u]
  BY DEF GiveBack
<1>4. returned' \in [Threads -> 0..Capacity]
  BY <1>1, <1>2 DEF GiveBack
<1>q. QED BY <1>2, <1>3, <1>4

LEMMA AttemptLargeStep ==
  ASSUME CallsOK, NEW t \in Threads, AttemptLarge(t)
  PROVE  CallsOK' /\ Held(t)' = Held(t)
<1> DEFINE size == call[t].size
           next == [call[t] EXCEPT !.step = "take", !.todo = computeLayout(size)]
<1>1. call[t] \in Allocation /\ call[t].step = "attempt" /\ is_large(size)
  BY Running DEF AttemptLarge, InStep, CallsOK
<1>2. /\ call' = [call EXCEPT ![t] = next] /\ call[t] # NoCall
      /\ UNCHANGED <<cached, pages, live, created, returned>>
  <2> DEFINE layout == computeLayout(size)
  <2>1. /\ call' = [call EXCEPT ![t].step = "take", ![t].todo = layout]
        /\ UNCHANGED <<cached, pages, live, created, returned>>
    BY DEF AttemptLarge
  <2>2. next = [call[t] EXCEPT !.step = "take", !.todo = layout]
    OBVIOUS
  <2> HIDE DEF layout, next
  <2>3. call' = [call EXCEPT ![t] = next]
    BY <1>1, <2>1, <2>2 DEF CallsOK, TypeOK
  <2>4. call[t] # NoCall
    BY <1>1 DEF NoCall
  <2>q. QED BY <2>1, <2>3, <2>4
<1>3. /\ size \in Requests /\ computeLayout(size) \in Seq(AllSizes)
      /\ Need(size) = Total(computeLayout(size)) /\ Need(size) \in Nat
  BY <1>1, BlocksFacts DEF Allocation
<1>4. call[t].got = NoBlocks
  BY <1>1 DEF CallsOK, Progress
<1>5. /\ next \in Allocation /\ next.step = "take" /\ next.got = NoBlocks
      /\ next.todo = computeLayout(size) /\ next.size = size /\ next # NoCall
  BY <1>1, <1>3, <1>4 DEF Allocation, Steps, NoCall
<1> HIDE DEF next
<1>6. /\ call' \in [Threads -> Allocation \union {NoCall}] /\ call'[t] = next
      /\ \A u \in Threads : u # t => Progress(u)'
  BY <1>2, <1>5, OneCall
<1>7. Progress(t)'
  BY <1>1, <1>3, <1>5, <1>6, BytesNone DEF Progress
<1>8. TypeOK'
  BY <1>2, <1>6 DEF CallsOK, TypeOK, pages
<1>9. Held(t)' = Held(t)
  BY <1>2, <1>4, <1>5, <1>6 DEF Held, Bytes
<1>q. QED BY <1>6, <1>7, <1>8, <1>9 DEF CallsOK

LEMMA AttemptSmallStep ==
  ASSUME CallsOK, NEW t \in Threads, AttemptSmall(t)
  PROVE  /\ CallsOK' /\ idle' <= idle /\ Held(t) = 0
         /\ Held(t)' = kSmallBlockSize * ((idle - idle') + (Kept - Kept'))
<1> DEFINE size == call[t].size
           pagesOf(n) == [i \in 1..n |-> kSmallBlockSize]
           next(m, e, sh, n) ==
             [call[t] EXCEPT !.step = "take", !.shared = sh, !.todo = pagesOf(n),
                             !.got = Plus(NoBlocks, kSmallBlockSize, m + e)]
<1>1. call[t] \in Allocation /\ call[t].step = "attempt" /\ ~ is_large(size) /\ call[t] # NoCall
  BY Running DEF AttemptSmall, InStep, CallsOK, NoCall
<1>2. PICK m \in 0..idle, e \in 0..edge, sh \in 0..RaggedEnds, n \in 0..MostPages(size) :
        /\ idle' = idle - m /\ edge' = edge - e
        /\ call' = [call EXCEPT ![t] = next(m, e, sh, n)]
        /\ UNCHANGED <<cached, pinned, stuck, lost, live, created, returned>>
  <2>1. PICK m \in 0..idle, e \in 0..edge, sh \in 0..RaggedEnds, n \in 0..MostPages(size) :
          /\ idle' = idle - m /\ edge' = edge - e
          /\ call' = [call EXCEPT ![t].step = "take", ![t].shared = sh, ![t].todo = pagesOf(n),
                                 ![t].got = Plus(NoBlocks, kSmallBlockSize, m + e)]
    BY ZenonT(30) DEF AttemptSmall
  <2> DEFINE todo == pagesOf(n)
             got == Plus(NoBlocks, kSmallBlockSize, m + e)
             c == next(m, e, sh, n)
  <2>2. /\ call' = [call EXCEPT ![t].step = "take", ![t].shared = sh, ![t].todo = todo, ![t].got = got]
        /\ c = [call[t] EXCEPT !.step = "take", !.shared = sh, !.todo = todo, !.got = got]
    BY <2>1
  <2> HIDE DEF todo, got, c
  <2>3. call' = [call EXCEPT ![t] = c]
    BY <1>1, <2>2 DEF CallsOK, TypeOK
  <2>4. UNCHANGED <<cached, pinned, stuck, lost, live, created, returned>>
    BY DEF AttemptSmall
  <2>5. call' = [call EXCEPT ![t] = next(m, e, sh, n)]
    BY <2>3 DEF c
  <2> HIDE DEF next
  <2>q. QED BY <2>1, <2>4, <2>5
<1>3. /\ m \in Nat /\ e \in Nat /\ sh \in Nat /\ n \in Nat /\ m <= idle /\ e <= edge
      /\ idle \in Nat /\ edge \in Nat /\ pinned \in Nat /\ stuck \in Nat
  BY <1>2 DEF CallsOK, TypeOK, pages
<1> DEFINE got == Plus(NoBlocks, kSmallBlockSize, m + e)
<1>4. got \in Counts /\ Bytes(got) = kSmallBlockSize * (m + e)
      /\ \A c \in BlockClasses : got[c] = 0
  <2>1. NoBlocks[kSmallBlockSize] + (m + e) \in Nat /\ m + e \in Int
    BY <1>3, SizeFacts DEF NoBlocks
  <2>2. got \in Counts /\ Bytes(got) = Bytes(NoBlocks) + kSmallBlockSize * (m + e)
    BY <2>1, SizeFacts, BytesNone, BytesPlus
  <2>3. \A c \in BlockClasses : got[c] = 0
    BY SizeFacts DEF Plus, NoBlocks
  <2>4. kSmallBlockSize * (m + e) \in Int
    BY <2>1, SizeFacts
  <2>q. QED BY <2>2, <2>3, <2>4, BytesNone
<1>5. pagesOf(n) \in Seq(AllSizes) /\ \A i \in DOMAIN pagesOf(n) : pagesOf(n)[i] = kSmallBlockSize
  BY <1>3, SizeFacts
<1> DEFINE c == next(m, e, sh, n)
<1>6. /\ c \in Allocation /\ c.step = "take" /\ c.got = got /\ c.todo = pagesOf(n)
      /\ c.size = size /\ c # NoCall
  <2> HIDE DEF got, pagesOf
  <2>1. c = [call[t] EXCEPT !.step = "take", !.shared = sh, !.todo = pagesOf(n), !.got = got]
    BY DEF got
  <2>2. /\ c.step = "take" /\ c.got = got /\ c.todo = pagesOf(n) /\ c.size = size
        /\ c \in Allocation
    <3> DEFINE todo == pagesOf(n)
    <3>1. /\ todo \in Seq(AllSizes)
          /\ c = [call[t] EXCEPT !.step = "take", !.shared = sh, !.todo = todo, !.got = got]
      BY <1>5, <2>1
    <3> HIDE DEF todo, c
    <3>2. "take" \in Steps
      BY DEF Steps
    <3>q. QED BY <1>1, <1>3, <1>4, <3>1, <3>2 DEF Allocation, todo
  <2> HIDE DEF c
  <2>3. c # NoCall
    BY <2>2 DEF NoCall
  <2>q. QED BY <2>2, <2>3
<1>7. call' = [call EXCEPT ![t] = c]
  BY <1>2
<1> HIDE DEF next, got, pagesOf, c
<1>8. /\ call' \in [Threads -> Allocation \union {NoCall}] /\ call'[t] = c
      /\ \A u \in Threads : u # t => Progress(u)'
  BY <1>6, <1>7, OneCall
<1>9. Progress(t)'
  BY <1>1, <1>4, <1>5, <1>6, <1>8 DEF Progress
<1>10. /\ idle' \in Nat /\ idle' <= idle /\ edge' \in Nat /\ idle - idle' = m
       /\ Kept - Kept' = e
  BY <1>2, <1>3 DEF Kept
<1>11. TypeOK'
  BY <1>2, <1>8, <1>10 DEF CallsOK, TypeOK, pages
<1>12. Held(t) = 0
  BY <1>1, BytesNone DEF Held, CallsOK, Progress
<1>13. Held(t)' = kSmallBlockSize * (m + e)
  BY <1>4, <1>6, <1>8 DEF Held, Bytes
<1>q. QED BY <1>8, <1>9, <1>10, <1>11, <1>12, <1>13 DEF CallsOK

(* The books a step of t keeps: what is created is where it went.          *)
Moved(t) ==
  created' - created =
    (LargeBytes' - LargeBytes) + (Bytes(cached)' - Bytes(cached))
      + kSmallBlockSize * (idle' - idle) + kSmallBlockSize * (Kept' - Kept)
      + (Held(t)' - Held(t))

LargeRequests == Requests \ SmallRequests

LEMMA LiveMap ==
  ASSUME TypeOK
  PROVE  IsFiniteMap([n \in LargeRequests |-> live[n] * Need(n)]) /\ LargeBytes \in Nat
<1>1. \A n \in LargeRequests : live[n] \in Nat /\ Need(n) \in Nat
  BY BlocksFacts DEF TypeOK, LargeRequests
<1>2. \A n \in LargeRequests : live[n] * Need(n) \in Nat
  BY <1>1
<1>3. IsFiniteSet(LargeRequests)
  BY RetryAssumption, FS_Subset DEF LargeRequests
<1>4. IsFiniteMap([n \in LargeRequests |-> live[n] * Need(n)])
  BY <1>2, <1>3 DEF IsFiniteMap
<1>q. QED BY <1>4, TotalNat DEF LargeBytes, LargeRequests

LEMMA HeldMap ==
  ASSUME TypeOK
  PROVE  /\ \A t \in Threads : Held(t) \in Nat
         /\ \A T \in SUBSET Threads : /\ IsFiniteMap([t \in T |-> Held(t)])
                                      /\ InCalls(T) \in Nat
<1>1. \A t \in Threads : Held(t) \in Nat
  BY Running, BytesMap DEF Held, Allocation
<1>2. ASSUME NEW T \in SUBSET Threads PROVE IsFiniteMap([t \in T |-> Held(t)])
  BY <1>1, RetryAssumption, FS_Subset DEF IsFiniteMap
<1>3. \A T \in SUBSET Threads : InCalls(T) \in Nat
  BY <1>2, TotalNat DEF InCalls
<1>q. QED BY <1>1, <1>2, <1>3

(* What a step did not touch keeps its bytes.                              *)
LEMMA Untouched ==
  /\ UNCHANGED cached => Bytes(cached)' = Bytes(cached)
  /\ UNCHANGED live => LargeBytes' = LargeBytes
  /\ \A t : call'[t] = call[t] => Held(t)' = Held(t)
<1>1. UNCHANGED cached => Bytes(cached)' = Bytes(cached)
  BY DEF Bytes
<1>2. UNCHANGED live => LargeBytes' = LargeBytes
  BY DEF LargeBytes
<1>3. \A t : call'[t] = call[t] => Held(t)' = Held(t)
  BY DEF Held
<1>q. QED BY <1>1, <1>2, <1>3

LEMMA Allocated ==
  ASSUME TypeOK, NEW n \in Requests, is_large(n), NEW k \in Int, live[n] + k \in Nat,
         live' = [live EXCEPT ![n] = @ + k]
  PROVE  live' \in [Requests -> Nat] /\ LargeBytes' = LargeBytes + k * Need(n)
<1> DEFINE f == [m \in LargeRequests |-> live[m] * Need(m)]
           g == [m \in LargeRequests |-> live'[m] * Need(m)]
<1>1. /\ live' \in [Requests -> Nat] /\ live'[n] = live[n] + k
      /\ \A m \in Requests : m # n => live'[m] = live[m]
      /\ n \in LargeRequests /\ LargeRequests \subseteq Requests
  BY DEF TypeOK, LargeRequests, SmallRequests
<1>2. LargeBytes = Total(f) /\ LargeBytes' = Total(g)
  BY DEF LargeBytes, LargeRequests
<1>3. live[n] \in Int /\ Need(n) \in Nat
  BY BlocksFacts DEF TypeOK
<1>4. IsFiniteMap(f) /\ LargeBytes \in Nat
  BY LiveMap
<1>5. /\ n \in DOMAIN f /\ DOMAIN g = DOMAIN f
      /\ \A m \in DOMAIN f : m # n => g[m] = f[m]
      /\ f[n] = live[n] * Need(n) /\ g[n] = live'[n] * Need(n)
  BY <1>1
<1>6. f[n] \in Nat
  BY <1>4, <1>5 DEF IsFiniteMap
<1>7. g[n] \in Nat
  <2>1. live'[n] \in Nat
    BY <1>1
  <2> HIDE DEF f, g
  <2>q. QED BY <1>3, <1>5, <2>1
<1> HIDE DEF f, g
<1>8. Total(g) = Total(f) - f[n] + g[n]
  BY <1>4, <1>5, <1>7, TotalChange
<1>9. g[n] = f[n] + k * Need(n) /\ k * Need(n) \in Int
  <2>1. \A a, b, d \in Int : (a + b) * d = a * d + b * d /\ b * d \in Int
    OBVIOUS
  <2>2. Need(n) \in Int
    BY <1>3
  <2>3. (live[n] + k) * Need(n) = live[n] * Need(n) + k * Need(n) /\ k * Need(n) \in Int
    BY <1>3, <2>1, <2>2
  <2>q. QED BY <1>1, <1>5, <2>3
<1>10. Total(g) = Total(f) + k * Need(n)
  BY <1>2, <1>4, <1>6, <1>8, <1>9
<1>q. QED BY <1>1, <1>2, <1>10

(* Live small ranges do not count as large bytes.                          *)
LEMMA SmallAllocated ==
  ASSUME TypeOK, NEW n \in Requests, ~ is_large(n), NEW k \in Nat,
         live' = [live EXCEPT ![n] = k]
  PROVE  live' \in [Requests -> Nat] /\ LargeBytes' = LargeBytes
<1>1. /\ live' \in [Requests -> Nat] /\ \A m \in Requests : m # n => live'[m] = live[m]
  BY DEF TypeOK
<1>2. n \notin LargeRequests
  BY DEF LargeRequests, SmallRequests
<1>3. [m \in LargeRequests |-> live'[m] * Need(m)] = [m \in LargeRequests |-> live[m] * Need(m)]
  BY <1>1, <1>2 DEF LargeRequests
<1>q. QED BY <1>1, <1>3 DEF LargeBytes, LargeRequests

(* The numbers Moved speaks of. *)
LEMMA Numbers ==
  ASSUME TypeOK
  PROVE  /\ cached \in Counts /\ Bytes(cached) \in Nat /\ LargeBytes \in Nat
         /\ idle \in Nat /\ Kept \in Nat /\ created \in Int /\ kSmallBlockSize \in Nat
         /\ kSmallBlockSize * idle \in Nat /\ kSmallBlockSize * Kept \in Nat
         /\ \A t \in Threads : Held(t) \in Nat
<1>1. /\ cached \in Counts /\ Bytes(cached) \in Nat /\ LargeBytes \in Nat
      /\ idle \in Nat /\ Kept \in Nat /\ created \in Int /\ kSmallBlockSize \in Nat
      /\ \A t \in Threads : Held(t) \in Nat
  <2>1. Kept \in Nat
    BY DEF TypeOK, Kept
  <2>q. QED BY <2>1, BytesMap, LiveMap, HeldMap, SizeFacts DEF TypeOK
<1>2. \A a, b \in Nat : a * b \in Nat
  OBVIOUS
<1>q. QED BY <1>1, <1>2

(* A step that only moves the call on. *)
LEMMA Quietly ==
  ASSUME CallsOK, TypeOK', NEW t \in Threads,
         UNCHANGED <<cached, pages, live, created>>, Held(t)' = Held(t)
  PROVE  Moved(t)
<1>1. LargeBytes' = LargeBytes /\ Bytes(cached)' = Bytes(cached)
  BY Untouched
<1>2. /\ Bytes(cached) \in Nat /\ LargeBytes \in Nat /\ Held(t) \in Nat /\ idle \in Nat
      /\ Kept \in Nat /\ created \in Int /\ kSmallBlockSize \in Nat
  BY Numbers DEF CallsOK
<1>3. idle' = idle /\ Kept' = Kept
  BY DEF pages, Kept
<1>q. QED BY <1>1, <1>2, <1>3 DEF Moved

LEMMA PagesStay == UNCHANGED pages => idle' = idle /\ Kept' = Kept
  BY DEF pages, Kept

LEMMA AttemptLargeMoved ==
  ASSUME CallsOK, NEW t \in Threads, AttemptLarge(t)
  PROVE  CallsOK' /\ Moved(t)
<1>1. CallsOK' /\ Held(t)' = Held(t)
  BY AttemptLargeStep
<1>2. UNCHANGED <<cached, pages, live, created>>
  BY DEF AttemptLarge
<1>q. QED BY <1>1, <1>2, Quietly DEF CallsOK

LEMMA AttemptSmallMoved ==
  ASSUME CallsOK, NEW t \in Threads, AttemptSmall(t)
  PROVE  CallsOK' /\ Moved(t)
<1>1. /\ CallsOK' /\ Held(t) = 0
      /\ Held(t)' = kSmallBlockSize * ((idle - idle') + (Kept - Kept'))
  BY AttemptSmallStep
<1>2. UNCHANGED <<cached, live, created>>
  BY DEF AttemptSmall
<1>3. /\ kSmallBlockSize \in Int /\ idle \in Int /\ idle' \in Int /\ created \in Int
      /\ Kept \in Int /\ Kept' \in Int /\ LargeBytes \in Nat /\ Bytes(cached) \in Nat
  BY <1>1, Numbers DEF CallsOK, TypeOK, Kept
<1>4. LargeBytes' = LargeBytes /\ Bytes(cached)' = Bytes(cached)
  BY <1>2, Untouched
<1> DEFINE y == kSmallBlockSize * (idle' - idle)
           z == kSmallBlockSize * (Kept' - Kept)
           h == kSmallBlockSize * ((idle - idle') + (Kept - Kept'))
<1>5. y \in Int /\ z \in Int /\ h = - y - z
  <2>1. \A k, a, b, c, d \in Int :
          /\ k * (b - a) \in Int /\ k * (d - c) \in Int
          /\ k * ((a - b) + (c - d)) = - (k * (b - a)) - k * (d - c)
    OBVIOUS
  <2> DEFINE i == idle  i1 == idle'  j == Kept  j1 == Kept'
  <2>2. /\ i \in Int /\ i1 \in Int /\ j \in Int /\ j1 \in Int
        /\ y = kSmallBlockSize * (i1 - i) /\ z = kSmallBlockSize * (j1 - j)
        /\ h = kSmallBlockSize * ((i - i1) + (j - j1))
    BY <1>3
  <2> HIDE DEF i, i1, j, j1, y, z, h
  <2>q. QED BY <1>3, <2>1, <2>2
<1>6. /\ created' - created = 0 /\ LargeBytes' - LargeBytes = 0 /\ Bytes(cached)' - Bytes(cached) = 0
      /\ Held(t)' - Held(t) = h
  <2> HIDE DEF h
  <2>1. Held(t)' = h /\ h \in Int
    BY <1>1, <1>5 DEF h
  <2>2. Held(t)' - Held(t) = h
    BY <1>1, <2>1
  <2>3. created' = created /\ created \in Int
    BY <1>2, <1>3
  <2>q. QED BY <1>3, <1>4, <2>2, <2>3
<1>7. Moved(t) <=> created' - created = (LargeBytes' - LargeBytes) + (Bytes(cached)' - Bytes(cached))
                     + y + z + (Held(t)' - Held(t))
  BY DEF Moved
<1> HIDE DEF y, z, h
<1>q. QED BY <1>1, <1>5, <1>6, <1>7

LEMMA AllocBeginMoved ==
  ASSUME CallsOK, NEW t \in Threads, NEW n \in Requests, AllocBegin(t, n)
  PROVE  CallsOK' /\ Moved(t)
<1> DEFINE c == [size |-> n, level |-> 0, todo |-> <<>>, shared |-> 0,
                 got |-> NoBlocks, step |-> "attempt"]
<1>1. c \in Allocation
  BY BytesNone DEF Allocation, Steps
<1>2. /\ call[t] = NoCall /\ call' = [call EXCEPT ![t] = c]
      /\ UNCHANGED <<cached, pages, live, created, returned>>
  BY DEF AllocBegin
<1>3. c.step = "attempt" /\ c.got = NoBlocks
  OBVIOUS
<1> HIDE DEF c
<1>4. /\ call' \in [Threads -> Allocation \union {NoCall}] /\ call'[t] = c
      /\ \A u \in Threads : u # t => Progress(u)'
  BY <1>1, <1>2, OneCall
<1>5. Progress(t)'
  BY <1>3, <1>4 DEF Progress
<1>6. TypeOK'
  BY <1>2, <1>4 DEF CallsOK, TypeOK, pages
<1>7. Held(t) = 0 /\ Held(t)' = 0
  BY <1>2, <1>3, <1>4, BytesNone DEF Held, Bytes
<1>8. Moved(t)
  BY <1>2, <1>6, <1>7, Quietly
<1>q. QED BY <1>4, <1>5, <1>6, <1>8 DEF CallsOK

LEMMA TakeBlockMoved ==
  ASSUME CallsOK, NEW t \in Threads, TakeBlock(t)
  PROVE  CallsOK' /\ Moved(t) /\ Bytes(cached)' <= Bytes(cached)
<1> DEFINE todo == call[t].todo
           got == call[t].got
           c == Head(todo)
           next == [call[t] EXCEPT !.todo = Tail(todo), !.got = Plus(got, c, 1)]
<1>1. call[t] \in Allocation /\ call[t].step = "take"
  BY Running DEF TakeBlock, InStep, CallsOK
<1>2. todo \in Seq(AllSizes) /\ todo # <<>> /\ got \in Counts
  BY <1>1 DEF TakeBlock, Allocation
<1>3. /\ call' = [call EXCEPT ![t] = next]
      /\ UNCHANGED <<pages, live, returned>>
      /\ \/ cached[c] > 0 /\ cached' = Plus(cached, c, -1) /\ created' = created
         \/ created' = created + c /\ cached' = cached
  BY <1>1 DEF TakeBlock, CallsOK, TypeOK
<1>4. todo \in Seq(Nat)
  BY <1>2, SizeFacts, SeqSubset
<1>5. Total(todo) = c + Total(Tail(todo)) /\ Total(Tail(todo)) \in Nat
  BY <1>2, <1>4, TotalTail, TotalNat
<1>6. c \in AllSizes /\ c \in Nat /\ Tail(todo) \in Seq(AllSizes)
      /\ \A i \in DOMAIN Tail(todo) : i + 1 \in DOMAIN todo /\ Tail(todo)[i] = todo[i + 1]
      /\ 1 \in DOMAIN todo /\ c = todo[1]
  <2>1. \A s \in Seq(AllSizes) : s # <<>> =>
          /\ Head(s) \in AllSizes /\ Tail(s) \in Seq(AllSizes)
          /\ \A i \in DOMAIN Tail(s) : i + 1 \in DOMAIN s /\ Tail(s)[i] = s[i + 1]
          /\ 1 \in DOMAIN s /\ Head(s) = s[1]
    OBVIOUS
  <2>q. QED BY <1>2, <2>1, SizeFacts
<1>7. Plus(got, c, 1) \in Counts /\ Bytes(Plus(got, c, 1)) = Bytes(got) + c /\ Bytes(got) \in Nat
  <2>1. got[c] + 1 \in Nat
    BY <1>2, <1>6 DEF Counts
  <2>2. c * 1 = c
    BY <1>6
  <2> HIDE DEF got, c
  <2>3. got \in Counts /\ c \in AllSizes /\ 1 \in Int
    BY <1>2, <1>6
  <2>4. Plus(got, c, 1) \in Counts /\ Bytes(Plus(got, c, 1)) = Bytes(got) + c * 1
    BY <2>1, <2>3, BytesPlus
  <2>q. QED BY <2>2, <2>3, <2>4, BytesMap
<1>8. /\ next \in Allocation /\ next.step = "take" /\ next.got = Plus(got, c, 1)
      /\ next.todo = Tail(todo) /\ next.size = call[t].size
  BY <1>1, <1>6, <1>7 DEF Allocation
<1>9. /\ is_large(call[t].size) => Bytes(got) + Total(todo) = Need(call[t].size)
      /\ ~ is_large(call[t].size) =>
            /\ \A b \in BlockClasses : got[b] = 0
            /\ \A i \in DOMAIN todo : todo[i] = kSmallBlockSize
  BY <1>1 DEF CallsOK, Progress
<1>10. ~ is_large(call[t].size) =>
         /\ \A b \in BlockClasses : Plus(got, c, 1)[b] = 0
         /\ \A i \in DOMAIN Tail(todo) : Tail(todo)[i] = kSmallBlockSize
  <2> SUFFICES ASSUME ~ is_large(call[t].size)
               PROVE  /\ \A b \in BlockClasses : Plus(got, c, 1)[b] = 0
                      /\ \A i \in DOMAIN Tail(todo) : Tail(todo)[i] = kSmallBlockSize
    OBVIOUS
  <2>1. c = kSmallBlockSize
    BY <1>6, <1>9
  <2>2. \A b \in BlockClasses : b # c /\ Plus(got, c, 1)[b] = got[b]
    BY <2>1, <1>2, SizeFacts DEF Plus, Counts
  <2>q. QED BY <1>6, <1>9, <2>2
<1> HIDE DEF next
<1>11. /\ call' \in [Threads -> Allocation \union {NoCall}] /\ call'[t] = next
       /\ \A u \in Threads : u # t => Progress(u)'
  BY <1>3, <1>8, OneCall
<1>12. Progress(t)'
  <2>1. is_large(next.size) => Bytes(next.got) + Total(next.todo) = Need(next.size)
    <3> HIDE DEF got, todo, c
    <3>q. QED BY <1>5, <1>6, <1>7, <1>8, <1>9
  <2>q. QED BY <1>8, <1>10, <1>11, <2>1 DEF Progress
<1>13. /\ cached' \in Counts /\ created' \in Int /\ created \in Int /\ Bytes(cached) \in Nat
       /\ created' - created = c + (Bytes(cached)' - Bytes(cached))
       /\ Bytes(cached)' <= Bytes(cached)
  <2>1. cached \in Counts /\ created \in Int /\ Bytes(cached) \in Nat
    BY BytesMap DEF CallsOK, TypeOK, pages
  <2> HIDE DEF c
  <2>2. CASE cached[c] > 0 /\ cached' = Plus(cached, c, -1) /\ created' = created
    <3>1. cached[c] + (-1) \in Nat /\ -1 \in Int
      BY <1>6, <2>1, <2>2 DEF Counts
    <3>2. Plus(cached, c, -1) \in Counts /\ Bytes(Plus(cached, c, -1)) = Bytes(cached) + c * (-1)
      BY <1>6, <2>1, <3>1, BytesPlus
    <3>3. Bytes(cached)' = Bytes(cached) + c * (-1)
      BY <2>2, <3>2 DEF Bytes
    <3>4. c * (-1) = -c
      BY <1>6
    <3>q. QED BY <1>6, <2>1, <2>2, <3>2, <3>3, <3>4
  <2>3. CASE created' = created + c /\ cached' = cached
    <3>1. Bytes(cached)' = Bytes(cached)
      BY <2>3, Untouched
    <3>q. QED BY <1>6, <2>1, <2>3, <3>1
  <2>q. QED BY <1>3, <2>2, <2>3
<1>14. TypeOK'
  BY <1>3, <1>11, <1>13 DEF CallsOK, TypeOK, pages
<1>15. Moved(t)
  <2>1. Held(t) = Bytes(got) /\ Held(t)' = Bytes(got) + c
    BY <1>1, <1>7, <1>8, <1>11 DEF Held, NoCall, Bytes
  <2>2. /\ LargeBytes' = LargeBytes /\ LargeBytes \in Nat /\ idle \in Nat /\ Kept \in Nat
        /\ kSmallBlockSize \in Nat
    BY <1>3, Untouched, Numbers DEF CallsOK
  <2>3. idle' - idle = 0 /\ Kept' - Kept = 0
    BY <1>3, <2>2, PagesStay
  <2>4. Held(t)' - Held(t) = c
    BY <1>6, <1>7, <2>1
  <2>5. kSmallBlockSize * 0 = 0 /\ LargeBytes' - LargeBytes = 0
    BY <2>2
  <2>6. Bytes(cached)' \in Int
    BY <1>13, BytesMap DEF Bytes
  <2> HIDE DEF c
  <2>q. QED BY <1>6, <1>13, <2>2, <2>3, <2>4, <2>5, <2>6 DEF Moved
<1>q. QED BY <1>11, <1>12, <1>13, <1>14, <1>15 DEF CallsOK

(* A call with a new step and otherwise as it was. *)
LEMMA Went ==
  ASSUME CallsOK, NEW t \in Threads, call[t] # NoCall, NEW step \in Steps, Goto(t, step)
  PROVE  /\ call' \in [Threads -> Allocation \union {NoCall}]
         /\ call'[t].step = step /\ call'[t].got = call[t].got /\ call'[t].todo = call[t].todo
         /\ call'[t].size = call[t].size /\ call'[t].level = call[t].level
         /\ call'[t] # NoCall /\ Held(t)' = Held(t)
         /\ \A u \in Threads : u # t => call'[u] = call[u] /\ Progress(u)'
<1> DEFINE c == [call[t] EXCEPT !.step = step]
<1>1. call[t] \in Allocation
  BY Running DEF CallsOK
<1>2. /\ c \in Allocation /\ c.step = step /\ c.got = call[t].got /\ c.todo = call[t].todo
      /\ c.size = call[t].size /\ c.level = call[t].level /\ c # NoCall
  BY <1>1 DEF Allocation, NoCall, Steps
<1>3. call' = [call EXCEPT ![t] = c]
  BY DEF Goto, CallsOK, TypeOK
<1> HIDE DEF c
<1>4. /\ call' \in [Threads -> Allocation \union {NoCall}] /\ call'[t] = c
      /\ \A u \in Threads : u # t => call'[u] = call[u] /\ Progress(u)'
  BY <1>2, <1>3, OneCall
<1>5. Held(t)' = Held(t)
  BY <1>2, <1>4 DEF Held, Bytes
<1>q. QED BY <1>2, <1>4, <1>5

LEMMA SucceedMoved ==
  ASSUME CallsOK, NEW t \in Threads, Succeed(t)
  PROVE  CallsOK' /\ Moved(t) /\ UNCHANGED <<cached, idle>>
<1> DEFINE n == call[t].size
           k == call[t].got[kSmallBlockSize]
<1>1. /\ call[t] \in Allocation /\ call[t].step = "take" /\ call[t].todo = <<>>
      /\ live' = [live EXCEPT ![n] = @ + 1] /\ call' = [call EXCEPT ![t] = NoCall]
      /\ returned' = [returned EXCEPT ![t] = 0] /\ UNCHANGED <<cached, created>>
  BY Running DEF Succeed, InStep, CallsOK
<1>2. n \in Requests /\ call[t].got \in Counts /\ live[n] \in Nat
  BY <1>1 DEF Allocation, CallsOK, TypeOK
<1>3. Held(t) = Bytes(call[t].got) /\ Held(t) \in Nat
  BY <1>1, <1>2, BytesMap, Running DEF CallsOK, Held
<1>4. /\ call' \in [Threads -> Allocation \union {NoCall}] /\ call'[t] = NoCall
      /\ \A u \in Threads : u # t => Progress(u)'
  BY <1>1, OneCall
<1>5. Progress(t)' /\ Held(t)' = 0
  BY <1>4 DEF Progress, NoCall, Held
<1>6. returned' \in [Threads -> 0..Capacity]
  <2>1. 0 \in 0..Capacity
    BY RetryAssumption
  <2>q. QED BY <1>1, <2>1 DEF CallsOK, TypeOK
<1>7. /\ Bytes(cached) \in Nat /\ LargeBytes \in Nat /\ idle \in Nat /\ Kept \in Nat
      /\ created \in Int /\ kSmallBlockSize \in Nat /\ Bytes(cached)' = Bytes(cached)
  BY <1>1, Numbers, Untouched DEF CallsOK
<1>8. CASE is_large(n)
  <2>1. UNCHANGED pages
    BY <1>8 DEF Succeed
  <2>2. Held(t) = Need(n)
    <3>1. Total(call[t].todo) = 0
      <4>1. DOMAIN (<<>>) = {}
        OBVIOUS
      <4>q. QED BY <1>1, <4>1, TotalEmpty
    <3>2. Bytes(call[t].got) + Total(call[t].todo) = Need(n)
      BY <1>1, <1>8 DEF CallsOK, Progress
    <3>q. QED BY <1>3, <3>1, <3>2
  <2>3. live' \in [Requests -> Nat] /\ LargeBytes' = LargeBytes + 1 * Need(n)
    <3>1. live[n] + 1 \in Nat
      BY <1>2
    <3>2. TypeOK /\ 1 \in Int /\ live' = [live EXCEPT ![n] = @ + 1]
      BY <1>1 DEF CallsOK
    <3> HIDE DEF n
    <3>q. QED BY <1>2, <1>8, <3>1, <3>2, Allocated
  <2>4. TypeOK'
    BY <1>1, <1>4, <1>6, <2>1, <2>3 DEF CallsOK, TypeOK, pages
  <2>5. idle' = idle /\ Kept' = Kept
    BY <2>1 DEF pages, Kept
  <2>6. Need(n) \in Nat
    BY <1>2, BlocksFacts
  <2>7. Moved(t)
    <3> HIDE DEF n
    <3>q. QED BY <1>1, <1>5, <1>7, <2>2, <2>3, <2>5, <2>6 DEF Moved
  <2>q. QED BY <1>1, <1>4, <1>5, <2>4, <2>5, <2>7 DEF CallsOK
<1>9. CASE ~ is_large(n)
  <2>1. k \in Nat /\ Held(t) = kSmallBlockSize * k
    BY <1>1, <1>2, <1>3, <1>9, BytesOfPages DEF CallsOK, Progress
  <2>2. PICK x \in 0..k : /\ pinned' = pinned + k - x /\ stuck' = stuck + x
                          /\ UNCHANGED <<idle, edge, lost>>
    BY <1>9 DEF Succeed
  <2> HIDE DEF k
  <2>3. /\ pinned' \in Nat /\ stuck' \in Nat /\ idle' = idle /\ edge' \in Nat
        /\ Kept' - Kept = k
    BY <2>1, <2>2 DEF CallsOK, TypeOK, Kept
  <2>4. live' \in [Requests -> Nat] /\ LargeBytes' = LargeBytes
    <3>1. live[n] + 1 \in Nat /\ live' = [live EXCEPT ![n] = live[n] + 1] /\ TypeOK
      BY <1>1, <1>2 DEF CallsOK
    <3> DEFINE more == live[n] + 1
    <3>2. more \in Nat /\ live' = [live EXCEPT ![n] = more]
      BY <3>1
    <3> HIDE DEF n, more
    <3>q. QED BY <1>2, <1>9, <3>1, <3>2, SmallAllocated
  <2>5. TypeOK'
    BY <1>1, <1>4, <1>6, <2>2, <2>3, <2>4 DEF CallsOK, TypeOK
  <2>6. Moved(t)
    <3> DEFINE z == kSmallBlockSize * k
    <3>1. z \in Nat /\ Held(t) = z /\ kSmallBlockSize * (Kept' - Kept) = z
      BY <1>3, <2>1, <2>3
    <3> HIDE DEF z
    <3>2. kSmallBlockSize * (idle' - idle) = 0
      BY <1>7, <2>3
    <3>3. /\ created' - created = 0 /\ LargeBytes' - LargeBytes = 0
          /\ Bytes(cached)' - Bytes(cached) = 0 /\ Held(t)' - Held(t) = - z
      BY <1>1, <1>5, <1>7, <2>4, <3>1
    <3>q. QED BY <3>1, <3>2, <3>3 DEF Moved
  <2>q. QED BY <1>1, <1>4, <1>5, <2>3, <2>5, <2>6 DEF CallsOK
<1>q. QED BY <1>8, <1>9

(* Before a large request fails, nothing moves; a small one leaves the     *)
(* pages it has under its lost range.                                      *)
LEMMA TakeFailsMoved ==
  ASSUME CallsOK, NEW t \in Threads, TakeFails(t)
  PROVE  CallsOK' /\ Moved(t) /\ UNCHANGED <<cached, idle, returned>>
<1>1. /\ call[t] \in Allocation /\ call[t].step = "take" /\ call[t] # NoCall
      /\ UNCHANGED <<cached, live, created, returned>>
  BY Running DEF TakeFails, InStep, CallsOK, NoCall
<1>2. CASE is_large(call[t].size)
  <2>1. Goto(t, "rollback") /\ UNCHANGED pages
    BY <1>2 DEF TakeFails
  <2>2. /\ call' \in [Threads -> Allocation \union {NoCall}] /\ call'[t].step = "rollback"
        /\ Held(t)' = Held(t) /\ \A u \in Threads : u # t => Progress(u)'
    BY <1>1, <2>1, Went DEF Steps
  <2>3. Progress(t)'
    BY <2>2 DEF Progress
  <2>4. TypeOK'
    BY <1>1, <2>1, <2>2 DEF CallsOK, TypeOK, pages
  <2>5. UNCHANGED idle
    BY <2>1 DEF pages
  <2>q. QED BY <1>1, <2>1, <2>2, <2>3, <2>4, <2>5, Quietly DEF CallsOK
<1>3. CASE ~ is_large(call[t].size)
  <2> DEFINE k == call[t].got[kSmallBlockSize]
             next == [call[t] EXCEPT !.step = "failed", !.got = NoBlocks]
  <2>1. /\ call' = [call EXCEPT ![t] = next] /\ UNCHANGED <<idle, edge>>
        /\ \E s \in 0..pinned : pinned' = pinned - s /\ stuck' = stuck + s + k
    BY <1>1, <1>3 DEF TakeFails, CallsOK, TypeOK
  <2>2. call[t].got \in Counts
    BY <1>1 DEF Allocation
  <2>3. k \in Nat /\ Bytes(call[t].got) = kSmallBlockSize * k
    BY <1>1, <1>3, <2>2, BytesOfPages DEF CallsOK, Progress
  <2>4. next \in Allocation /\ next.step = "failed" /\ next.got = NoBlocks
    BY <1>1, BytesNone DEF Allocation, Steps
  <2> HIDE DEF k, next
  <2>5. /\ call' \in [Threads -> Allocation \union {NoCall}] /\ call'[t] = next
        /\ \A u \in Threads : u # t => Progress(u)'
    BY <2>1, <2>4, OneCall
  <2>6. Progress(t)' /\ Held(t)' = 0 /\ Held(t) = kSmallBlockSize * k
    BY <1>1, <2>3, <2>4, <2>5, BytesNone DEF Progress, Held, Bytes
  <2>7. /\ pinned' \in Nat /\ stuck' \in Nat /\ idle' = idle /\ edge' \in Nat
        /\ Kept' - Kept = k
    BY <2>1, <2>3 DEF CallsOK, TypeOK, Kept
  <2>8. TypeOK'
    BY <1>1, <2>1, <2>5, <2>7 DEF CallsOK, TypeOK
  <2>9. Moved(t)
    <3>1. Bytes(cached)' = Bytes(cached) /\ LargeBytes' = LargeBytes
      BY <1>1, Untouched
    <3>2. /\ Bytes(cached) \in Nat /\ LargeBytes \in Nat /\ idle \in Nat
          /\ created \in Int /\ kSmallBlockSize \in Nat
      BY Numbers DEF CallsOK
    <3> DEFINE z == kSmallBlockSize * k
    <3>3. z \in Nat /\ Held(t) = z /\ kSmallBlockSize * (Kept' - Kept) = z
      BY <2>3, <2>6, <2>7, <3>2
    <3> HIDE DEF z
    <3>4. kSmallBlockSize * (idle' - idle) = 0
      BY <2>7, <3>2
    <3>5. /\ created' - created = 0 /\ LargeBytes' - LargeBytes = 0
          /\ Bytes(cached)' - Bytes(cached) = 0 /\ Held(t)' - Held(t) = - z
      BY <1>1, <2>6, <3>1, <3>2, <3>3
    <3>q. QED BY <3>3, <3>4, <3>5 DEF Moved
  <2>q. QED BY <1>1, <2>1, <2>5, <2>6, <2>8, <2>9 DEF CallsOK
<1>q. QED BY <1>2, <1>3

LEMMA RollbackMoved ==
  ASSUME CallsOK, NEW t \in Threads, Rollback(t)
  PROVE  /\ CallsOK' /\ Moved(t)
         /\ \/ UNCHANGED <<cached, returned>> /\ call'[t].step = "failed"
            \/ \E c \in AllSizes :
                 /\ Bytes(cached)' = Bytes(cached) + c /\ GiveBack(t, c)
                 /\ call'[t].step = "rollback"
<1>1. /\ call[t] \in Allocation /\ call[t].step = "rollback" /\ call[t] # NoCall
      /\ UNCHANGED <<pages, live, created>>
  BY Running DEF Rollback, InStep, CallsOK, NoCall
<1>2. CASE call[t].got = NoBlocks
  <2>1. Goto(t, "failed") /\ UNCHANGED <<cached, returned>>
    BY <1>2 DEF Rollback
  <2>2. /\ call' \in [Threads -> Allocation \union {NoCall}] /\ call'[t].step = "failed"
        /\ call'[t].got = call[t].got
        /\ Held(t)' = Held(t) /\ \A u \in Threads : u # t => Progress(u)'
    BY <1>1, <2>1, Went DEF Steps
  <2>3. Progress(t)'
    BY <1>2, <2>2 DEF Progress
  <2>4. TypeOK'
    BY <1>1, <2>1, <2>2 DEF CallsOK, TypeOK, pages
  <2>q. QED BY <1>1, <2>1, <2>2, <2>3, <2>4, Quietly DEF CallsOK
<1>3. CASE call[t].got # NoBlocks
  <2> DEFINE got == call[t].got
             next(c) == [call[t] EXCEPT !.got = Plus(got, c, -1)]
  <2>1. PICK c \in BlockClasses :
          /\ got[c] > 0 /\ cached' = Plus(cached, c, 1)
          /\ call' = [call EXCEPT ![t] = next(c)] /\ GiveBack(t, c)
    BY <1>1, <1>3 DEF Rollback, CallsOK, TypeOK
  <2>2. c \in AllSizes /\ c \in Nat /\ got \in Counts
    BY <1>1, SizeFacts DEF Allocation
  <2>3. Plus(got, c, -1) \in Counts /\ Bytes(Plus(got, c, -1)) = Bytes(got) - c /\ Bytes(got) \in Nat
    <3>1. got[c] + (-1) \in Nat /\ -1 \in Int
      BY <2>1, <2>2 DEF Counts
    <3> HIDE DEF got
    <3>2. Plus(got, c, -1) \in Counts /\ Bytes(Plus(got, c, -1)) = Bytes(got) + c * (-1)
      BY <2>2, <3>1, BytesPlus
    <3>3. c * (-1) = -c
      BY <2>2
    <3>4. Bytes(got) \in Nat
      BY <2>2, BytesMap
    <3>q. QED BY <2>2, <3>2, <3>3, <3>4
  <2>4. cached' \in Counts /\ Bytes(cached)' = Bytes(cached) + c /\ Bytes(cached) \in Nat
    <3>1. cached \in Counts /\ cached[c] + 1 \in Nat /\ 1 \in Int
      BY <2>2 DEF CallsOK, TypeOK, Counts
    <3>2. Plus(cached, c, 1) \in Counts /\ Bytes(Plus(cached, c, 1)) = Bytes(cached) + c * 1
      BY <2>2, <3>1, BytesPlus
    <3>3. c * 1 = c
      BY <2>2
    <3>4. Bytes(cached)' = Bytes(cached) + c * 1
      BY <2>1, <3>2 DEF Bytes
    <3>q. QED BY <2>1, <3>1, <3>2, <3>3, <3>4, BytesMap
  <2>5. next(c) \in Allocation /\ next(c).step = "rollback" /\ next(c).got = Plus(got, c, -1)
    BY <1>1, <2>3 DEF Allocation
  <2> HIDE DEF next, got
  <2>6. /\ call' \in [Threads -> Allocation \union {NoCall}] /\ call'[t] = next(c)
        /\ \A u \in Threads : u # t => Progress(u)'
    BY <2>1, <2>5, OneCall
  <2>7. Progress(t)'
    BY <2>5, <2>6 DEF Progress
  <2>8. returned' \in [Threads -> 0..Capacity]
    BY <2>1, <2>2, GaveBack DEF CallsOK
  <2>9. TypeOK'
    BY <1>1, <2>4, <2>6, <2>8 DEF CallsOK, TypeOK, pages
  <2>10. Held(t) = Bytes(got) /\ Held(t)' = Bytes(got) - c
    BY <1>1, <2>3, <2>5, <2>6 DEF Held, NoCall, Bytes, got
  <2>11. Moved(t)
    <3>1. LargeBytes' = LargeBytes
      BY <1>1, Untouched
    <3>2. /\ LargeBytes \in Nat /\ idle \in Nat /\ Kept \in Nat /\ created \in Int
          /\ kSmallBlockSize \in Nat
      BY Numbers DEF CallsOK
    <3>3. Kept' - Kept = 0 /\ idle' - idle = 0 /\ created' - created = 0 /\ kSmallBlockSize * 0 = 0
      BY <1>1, <3>2, PagesStay
    <3>q. QED BY <2>2, <2>3, <2>4, <2>10, <3>1, <3>2, <3>3 DEF Moved
  <2>q. QED BY <2>1, <2>2, <2>4, <2>5, <2>6, <2>7, <2>9, <2>11 DEF CallsOK
<1>q. QED BY <1>2, <1>3

LEMMA RetryMoved ==
  ASSUME CallsOK, NEW t \in Threads, Retry(t)
  PROVE  CallsOK' /\ Moved(t)
<1> DEFINE next == [call[t] EXCEPT !.level = call[t].level + 1, !.step = "flush"]
<1>1. /\ call[t] \in Allocation /\ call[t].step = "failed" /\ call[t].level < 2
      /\ UNCHANGED <<cached, pages, live, created, returned>>
      /\ call[t] # NoCall
  BY Running DEF Retry, InStep, CallsOK, NoCall
<1>2. call[t].got = NoBlocks
  BY <1>1 DEF CallsOK, Progress
<1>3. call' = [call EXCEPT ![t] = next]
  BY DEF Retry, CallsOK, TypeOK
<1>4. next \in Allocation /\ next.step = "flush" /\ next.got = NoBlocks
  <2>1. call[t].level \in 0..2
    BY <1>1 DEF Allocation
  <2>2. call[t].level + 1 \in 0..2
    BY <1>1, <2>1
  <2>q. QED BY <1>1, <1>2, <2>2 DEF Allocation, Steps
<1> HIDE DEF next
<1>5. /\ call' \in [Threads -> Allocation \union {NoCall}] /\ call'[t] = next
      /\ \A u \in Threads : u # t => Progress(u)'
  BY <1>3, <1>4, OneCall
<1>6. Progress(t)' /\ Held(t)' = Held(t)
  BY <1>1, <1>2, <1>4, <1>5 DEF Progress, Held, Bytes, NoCall
<1>7. TypeOK'
  BY <1>1, <1>5 DEF CallsOK, TypeOK, pages
<1>q. QED BY <1>1, <1>5, <1>6, <1>7, Quietly DEF CallsOK

LEMMA GiveUpMoved ==
  ASSUME CallsOK, NEW t \in Threads, GiveUp(t)
  PROVE  CallsOK' /\ Moved(t)
<1>1. /\ call[t].step = "failed" /\ call' = [call EXCEPT ![t] = NoCall]
      /\ returned' = [returned EXCEPT ![t] = 0]
      /\ UNCHANGED <<cached, pages, live, created>>
  BY DEF GiveUp, InStep
<1>2. call[t].got = NoBlocks
  BY <1>1 DEF CallsOK, Progress
<1>3. /\ call' \in [Threads -> Allocation \union {NoCall}] /\ call'[t] = NoCall
      /\ \A u \in Threads : u # t => Progress(u)'
  BY <1>1, OneCall
<1>4. Progress(t)' /\ Held(t)' = Held(t)
  BY <1>2, <1>3, BytesNone DEF Progress, Held, NoCall
<1>5. TypeOK'
  <2>1. 0 \in 0..Capacity
    BY RetryAssumption
  <2>q. QED BY <1>1, <1>3, <2>1 DEF CallsOK, TypeOK, pages
<1>q. QED BY <1>1, <1>3, <1>4, <1>5, Quietly DEF CallsOK

(* The pages of emptyCache change their place in the books.                *)
LEMMA FlushSmallMoved ==
  ASSUME CallsOK, NEW t \in Threads, FlushSmall(t)
  PROVE  /\ CallsOK' /\ Moved(t) /\ idle' = 0 /\ UNCHANGED returned
         /\ Bytes(cached)' = Bytes(cached) + kSmallBlockSize * idle
         /\ call'[t].step \in {"purge", "trim"}
<1> DEFINE step == IF call[t].level = 1 THEN "purge" ELSE "trim"
<1>1. /\ call[t].step = "flush" /\ call[t] # NoCall
      /\ cached' = Plus(cached, kSmallBlockSize, idle) /\ idle' = 0
      /\ Goto(t, step)
      /\ UNCHANGED <<pinned, stuck, edge, lost, live, created, returned>>
  BY DEF FlushSmall, InStep, NoCall
<1>2. step \in Steps /\ step \in {"purge", "trim"} /\ (step = "purge" => call[t].level # 2)
  BY DEF Steps
<1>3. call[t].got = NoBlocks
  BY <1>1 DEF CallsOK, Progress
<1> HIDE DEF step
<1>4. /\ call' \in [Threads -> Allocation \union {NoCall}] /\ call'[t].step = step
      /\ call'[t].got = NoBlocks /\ call'[t].level = call[t].level
      /\ Held(t)' = Held(t) /\ \A u \in Threads : u # t => Progress(u)'
  BY <1>1, <1>2, <1>3, Went
<1>5. Progress(t)'
  BY <1>2, <1>4 DEF Progress
<1>6. cached' \in Counts /\ Bytes(cached)' = Bytes(cached) + kSmallBlockSize * idle
  <2>1. cached \in Counts /\ idle \in Int /\ cached[kSmallBlockSize] + idle \in Nat
    BY SizeFacts DEF CallsOK, TypeOK, Counts
  <2>2. /\ Plus(cached, kSmallBlockSize, idle) \in Counts
        /\ Bytes(Plus(cached, kSmallBlockSize, idle)) = Bytes(cached) + kSmallBlockSize * idle
    BY <2>1, SizeFacts, BytesPlus
  <2>q. QED BY <1>1, <2>2 DEF Bytes
<1>7. TypeOK'
  BY <1>1, <1>4, <1>6 DEF CallsOK, TypeOK, pages
<1>8. Moved(t)
  <2>1. LargeBytes' = LargeBytes
    BY <1>1, Untouched
  <2>2. /\ LargeBytes \in Nat /\ Bytes(cached) \in Nat /\ idle \in Nat /\ Kept \in Nat
        /\ created \in Int /\ kSmallBlockSize \in Nat /\ kSmallBlockSize * idle \in Nat
        /\ Held(t) \in Nat
    BY Numbers DEF CallsOK
  <2>3. kSmallBlockSize * (0 - idle) = - (kSmallBlockSize * idle) /\ kSmallBlockSize * 0 = 0
    <3>1. \A a, b \in Int : a * (0 - b) = - (a * b) /\ a * 0 = 0
      OBVIOUS
    <3>q. QED BY <2>2, <3>1
  <2>4. Kept' - Kept = 0 /\ created' - created = 0 /\ idle' - idle = 0 - idle
    <3>1. Kept' = Kept
      BY <1>1 DEF Kept
    <3>q. QED BY <1>1, <2>2, <3>1
  <2>q. QED BY <1>4, <1>6, <2>1, <2>2, <2>3, <2>4 DEF Moved
<1>q. QED BY <1>1, <1>2, <1>4, <1>5, <1>6, <1>7, <1>8 DEF CallsOK

LEMMA PurgeCollectMoved ==
  ASSUME CallsOK, NEW t \in Threads, PurgeCollect(t)
  PROVE  CallsOK' /\ Moved(t) /\ Bytes(cached)' <= Bytes(cached)
<1> DEFINE victims == PurgeVictims(call[t].size)
           next == [call[t] EXCEPT !.got = victims, !.step = "release"]
<1>1. /\ call[t] \in Allocation /\ call[t].step = "purge"
      /\ cached' = [c \in AllSizes |-> cached[c] - victims[c]]
      /\ call' = [call EXCEPT ![t] = next]
      /\ UNCHANGED <<pages, live, created, returned>>
  BY Running DEF PurgeCollect, InStep, CallsOK, TypeOK
<1>2. call[t].got = NoBlocks /\ call[t].level # 2
  BY <1>1 DEF CallsOK, Progress
<1>3. cached \in Counts /\ call[t].size \in Nat
  BY <1>1, RetryAssumption DEF CallsOK, TypeOK, Allocation
<1>4. victims \in Counts /\ \A c \in AllSizes : victims[c] <= cached[c]
  BY <1>3, VictimsCached
<1>5. next \in Allocation /\ next.step = "release" /\ next.got = victims /\ next.level # 2
  BY <1>1, <1>2, <1>4 DEF Allocation, Steps
<1> HIDE DEF next, victims
<1>6. /\ call' \in [Threads -> Allocation \union {NoCall}] /\ call'[t] = next
      /\ \A u \in Threads : u # t => Progress(u)'
  BY <1>1, <1>5, OneCall
<1>7. Progress(t)'
  BY <1>5, <1>6 DEF Progress
<1>8. cached' \in Counts /\ Bytes(cached) = Bytes(cached)' + Bytes(victims)
  <2> DEFINE rest == [c \in AllSizes |-> cached[c] - victims[c]]
  <2>1. \A c \in AllSizes : /\ cached[c] \in Nat /\ victims[c] \in Nat /\ rest[c] \in Nat
                            /\ cached[c] = rest[c] + victims[c]
    BY <1>3, <1>4 DEF Counts
  <2>2. rest \in Counts
    BY <2>1 DEF Counts
  <2> HIDE DEF rest
  <2>3. Bytes(cached) = Bytes(rest) + Bytes(victims)
    BY <1>3, <1>4, <2>1, <2>2, BytesAdded
  <2>4. cached' = rest
    BY <1>1 DEF rest
  <2>5. Bytes(cached)' = Bytes(rest)
    BY <2>4 DEF Bytes
  <2>q. QED BY <2>2, <2>3, <2>4, <2>5
<1>9. TypeOK'
  BY <1>1, <1>6, <1>8 DEF CallsOK, TypeOK, pages
<1>10. Bytes(victims) \in Nat /\ Bytes(cached)' \in Nat
  <2>1. Bytes(cached)' \in Nat
    BY <1>8, BytesMap DEF Bytes
  <2>q. QED BY <1>4, <2>1, BytesMap
<1>11. Held(t) = 0 /\ Held(t)' = Bytes(victims)
  BY <1>1, <1>2, <1>5, <1>6, BytesNone DEF Held, NoCall, Bytes
<1>12. Moved(t)
  <2>1. LargeBytes' = LargeBytes
    BY <1>1, Untouched
  <2>2. /\ LargeBytes \in Nat /\ Bytes(cached) \in Nat /\ idle \in Nat /\ Kept \in Nat
        /\ created \in Int /\ kSmallBlockSize \in Nat
    BY Numbers DEF CallsOK
  <2>3. Kept' - Kept = 0 /\ idle' - idle = 0 /\ created' - created = 0 /\ kSmallBlockSize * 0 = 0
    BY <1>1, <2>2, PagesStay
  <2>q. QED BY <1>8, <1>10, <1>11, <2>1, <2>2, <2>3 DEF Moved
<1>13. Bytes(cached) \in Nat
  BY Numbers DEF CallsOK
<1>q. QED BY <1>6, <1>7, <1>8, <1>9, <1>10, <1>12, <1>13 DEF CallsOK

LEMMA PurgeReleaseMoved ==
  ASSUME CallsOK, NEW t \in Threads, PurgeRelease(t)
  PROVE  CallsOK' /\ Moved(t) /\ call'[t].level # 2
<1>1. /\ call[t] \in Allocation /\ call[t].step = "release" /\ call[t] # NoCall
      /\ UNCHANGED <<cached, pages, live, returned>>
  BY Running DEF PurgeRelease, InStep, CallsOK, NoCall
<1>2. call[t].level # 2
  BY <1>1 DEF CallsOK, Progress
<1>3. CASE call[t].got = NoBlocks /\ Goto(t, "attempt") /\ UNCHANGED created
  <2>1. /\ call' \in [Threads -> Allocation \union {NoCall}] /\ call'[t].step = "attempt"
        /\ call'[t].got = NoBlocks /\ call'[t].level # 2
        /\ Held(t)' = Held(t) /\ \A u \in Threads : u # t => Progress(u)'
    BY <1>1, <1>2, <1>3, Went DEF Steps
  <2>2. Progress(t)'
    BY <2>1 DEF Progress
  <2>3. TypeOK'
    BY <1>1, <1>3, <2>1 DEF CallsOK, TypeOK, pages
  <2>q. QED BY <1>1, <1>3, <2>1, <2>2, <2>3, Quietly DEF CallsOK
<1>4. ASSUME NEW c \in AllSizes, call[t].got[c] > 0, created' = created - c,
             call' = [call EXCEPT ![t].got = Plus(@, c, -1)]
      PROVE  CallsOK' /\ Moved(t) /\ call'[t].level # 2
  <2> DEFINE got == call[t].got
             next == [call[t] EXCEPT !.got = Plus(got, c, -1)]
  <2>1. call' = [call EXCEPT ![t] = next]
    BY <1>4 DEF CallsOK, TypeOK, pages
  <2>2. c \in Nat /\ got \in Counts
    BY <1>1, SizeFacts DEF Allocation
  <2>3. Plus(got, c, -1) \in Counts /\ Bytes(Plus(got, c, -1)) = Bytes(got) - c /\ Bytes(got) \in Nat
    <3>1. got[c] + (-1) \in Nat /\ -1 \in Int
      BY <1>4, <2>2 DEF Counts
    <3> HIDE DEF got
    <3>2. Plus(got, c, -1) \in Counts /\ Bytes(Plus(got, c, -1)) = Bytes(got) + c * (-1)
      BY <2>2, <3>1, BytesPlus
    <3>3. c * (-1) = -c
      BY <2>2
    <3>4. Bytes(got) \in Nat
      BY <2>2, BytesMap
    <3>q. QED BY <2>2, <3>2, <3>3, <3>4
  <2>4. /\ next \in Allocation /\ next.step = "release" /\ next.got = Plus(got, c, -1)
        /\ next.level # 2
    BY <1>1, <1>2, <2>3 DEF Allocation
  <2> HIDE DEF next, got
  <2>5. /\ call' \in [Threads -> Allocation \union {NoCall}] /\ call'[t] = next
        /\ \A u \in Threads : u # t => Progress(u)'
    BY <2>1, <2>4, OneCall
  <2>6. Progress(t)'
    BY <2>4, <2>5 DEF Progress
  <2>7. TypeOK'
    <3>1. created' \in Int
      BY <1>4, <2>2 DEF CallsOK, TypeOK, pages
    <3>q. QED BY <1>1, <2>5, <3>1 DEF CallsOK, TypeOK, pages
  <2>8. Held(t) = Bytes(got) /\ Held(t)' = Bytes(got) - c
    BY <1>1, <2>3, <2>4, <2>5 DEF Held, NoCall, Bytes, got
  <2>9. Moved(t)
    <3>1. LargeBytes' = LargeBytes /\ Bytes(cached)' = Bytes(cached)
      BY <1>1, Untouched
    <3>2. /\ LargeBytes \in Nat /\ Bytes(cached) \in Nat /\ idle \in Nat /\ Kept \in Nat
          /\ created \in Int /\ kSmallBlockSize \in Nat
      BY Numbers DEF CallsOK
    <3>3. Kept' - Kept = 0 /\ idle' - idle = 0 /\ created' - created = -c /\ kSmallBlockSize * 0 = 0
      BY <1>1, <1>4, <2>2, <3>2, PagesStay
    <3>q. QED BY <2>2, <2>3, <2>8, <3>1, <3>2, <3>3 DEF Moved
  <2>q. QED BY <2>4, <2>5, <2>6, <2>7, <2>9 DEF CallsOK
<1>q. QED BY <1>3, <1>4 DEF PurgeRelease

LEMMA TrimMoved ==
  ASSUME CallsOK, NEW t \in Threads, Trim(t)
  PROVE  /\ CallsOK' /\ Moved(t) /\ Bytes(cached)' = 0 /\ UNCHANGED <<idle, returned>>
         /\ call[t].step = "trim"
<1>1. /\ call[t].step = "trim" /\ call[t] # NoCall /\ Goto(t, "attempt")
      /\ created' = created - Bytes(cached) /\ cached' = NoBlocks
      /\ UNCHANGED <<pages, live, returned>>
  BY DEF Trim, InStep, NoCall
<1>2. call[t].got = NoBlocks
  BY <1>1 DEF CallsOK, Progress
<1>3. /\ call' \in [Threads -> Allocation \union {NoCall}] /\ call'[t].step = "attempt"
      /\ call'[t].got = NoBlocks
      /\ Held(t)' = Held(t) /\ \A u \in Threads : u # t => Progress(u)'
  BY <1>1, <1>2, Went DEF Steps
<1>4. Progress(t)'
  BY <1>3 DEF Progress
<1>5. Bytes(cached)' = 0 /\ cached' \in Counts
  BY <1>1, BytesNone DEF Bytes
<1>6. /\ LargeBytes \in Nat /\ Bytes(cached) \in Nat /\ idle \in Nat /\ Kept \in Nat
      /\ created \in Int /\ kSmallBlockSize \in Nat /\ Held(t) \in Nat
  BY Numbers DEF CallsOK
<1>7. TypeOK'
  BY <1>1, <1>3, <1>5, <1>6 DEF CallsOK, TypeOK, pages
<1>8. Moved(t)
  <2>1. LargeBytes' = LargeBytes /\ idle' = idle /\ Kept' = Kept
    BY <1>1, Untouched, PagesStay
  <2>q. QED BY <1>1, <1>3, <1>5, <1>6, <2>1 DEF Moved
<1>q. QED BY <1>1, <1>3, <1>4, <1>5, <1>7, <1>8, PagesStay DEF CallsOK

(* The program's free of a large range: its blocks go to the cache.        *)
LEMMA FreeLargeMoved ==
  ASSUME CallsOK, NEW t \in Threads, NEW n \in Requests, FreeLarge(t, n)
  PROVE  /\ CallsOK' /\ Moved(t) /\ GiveBack(t, Need(n)) /\ UNCHANGED <<call, idle>>
         /\ Bytes(cached)' = Bytes(cached) + Need(n)
<1>1. /\ call[t] = NoCall /\ live[n] > 0 /\ live' = [live EXCEPT ![n] = @ - 1]
      /\ GiveBack(t, Need(n)) /\ UNCHANGED <<pages, created, call>>
      /\ is_large(n) /\ cached' = Added(cached, BlocksOf(n))
  BY DEF FreeLarge
<1>2. Need(n) \in Nat /\ BlocksOf(n) \in Counts /\ Bytes(BlocksOf(n)) = Need(n)
  BY BlocksFacts
<1>3. live' \in [Requests -> Nat] /\ LargeBytes' = LargeBytes - Need(n)
  <2>0. TypeOK /\ live \in [Requests -> Nat] /\ live[n] \in Nat /\ live[n] - 1 = live[n] + (-1)
    BY DEF CallsOK, TypeOK
  <2>1. live[n] + (-1) \in Nat /\ -1 \in Int
    BY <1>1, <2>0
  <2> DEFINE less == live[n] - 1
  <2>a. less = live[n] + (-1) /\ live' = [live EXCEPT ![n] = less]
    BY <1>1, <2>0
  <2> HIDE DEF less
  <2>b. live' = [live EXCEPT ![n] = live[n] + (-1)]
    BY <2>a
  <2>2. live' \in [Requests -> Nat] /\ LargeBytes' = LargeBytes + (-1) * Need(n)
    BY <1>1, <2>0, <2>1, <2>b, Allocated
  <2>3. (-1) * Need(n) = - Need(n)
    BY <1>2
  <2>4. LargeBytes \in Nat
    BY Numbers DEF CallsOK
  <2>q. QED BY <1>2, <2>2, <2>3, <2>4
<1>4. /\ LargeBytes \in Nat /\ Bytes(cached) \in Nat /\ idle \in Nat /\ Kept \in Nat
      /\ created \in Int /\ kSmallBlockSize \in Nat /\ Held(t) \in Nat /\ cached \in Counts
  BY Numbers DEF CallsOK
<1>5. cached' \in Counts /\ Bytes(cached)' = Bytes(cached) + Need(n)
  <2> DEFINE sum == Added(cached, BlocksOf(n))
  <2>1. \A c \in AllSizes : sum[c] = cached[c] + BlocksOf(n)[c]
    BY DEF Added
  <2>2. sum \in Counts
    BY <1>2, <1>4 DEF Added, Counts
  <2> HIDE DEF sum
  <2>3. Bytes(sum) = Bytes(cached) + Need(n)
    BY <1>2, <1>4, <2>1, <2>2, BytesAdded
  <2>4. cached' = sum
    BY <1>1 DEF sum
  <2>5. Bytes(cached)' = Bytes(sum)
    BY <2>4 DEF Bytes
  <2>q. QED BY <2>2, <2>3, <2>4, <2>5
<1>6. returned' \in [Threads -> 0..Capacity]
  BY <1>1, <1>2, GaveBack DEF CallsOK
<1>7. TypeOK'
  BY <1>1, <1>3, <1>5, <1>6 DEF CallsOK, TypeOK, pages
<1>8. \A u \in Threads : Progress(u)'
  BY <1>1 DEF CallsOK, Progress
<1>9. Held(t)' = Held(t)
  BY <1>1, Untouched
<1>10. idle' = idle /\ Kept' = Kept
  BY <1>1 DEF pages, Kept
<1>11. Moved(t)
  <2>1. kSmallBlockSize * (idle' - idle) = 0 /\ kSmallBlockSize * (Kept' - Kept) = 0
    BY <1>4, <1>10
  <2>2. /\ created' - created = 0 /\ Held(t)' - Held(t) = 0
        /\ LargeBytes' - LargeBytes = - Need(n) /\ Bytes(cached)' - Bytes(cached) = Need(n)
    BY <1>1, <1>2, <1>3, <1>4, <1>5, <1>9
  <2>q. QED BY <1>2, <2>1, <2>2 DEF Moved
<1>q. QED BY <1>1, <1>5, <1>7, <1>8, <1>10, <1>11 DEF CallsOK

(* ... and of a small one: some of its pages turn idle.                    *)
LEMMA FreeSmallMoved ==
  ASSUME CallsOK, NEW t \in Threads, NEW n \in Requests, FreeSmall(t, n)
  PROVE  /\ CallsOK' /\ Moved(t) /\ UNCHANGED <<call, cached>>
         /\ \E k \in Nat : /\ GiveBack(t, kSmallBlockSize * k) /\ kSmallBlockSize * k \in Nat
                           /\ kSmallBlockSize * idle' = kSmallBlockSize * idle + kSmallBlockSize * k
<1>1. /\ call[t] = NoCall /\ live[n] > 0 /\ live' = [live EXCEPT ![n] = @ - 1]
      /\ UNCHANGED <<cached, stuck, lost, created, call>> /\ ~ is_large(n)
  BY DEF FreeSmall
<1>2. PICK u \in 0..pinned, e \in 0..(1 - edge) :
        /\ e <= u
        /\ pinned' = pinned - u /\ edge' = edge + e /\ idle' = idle + u - e
        /\ GiveBack(t, kSmallBlockSize * (u - e))
  BY DEF FreeSmall
<1>3. /\ pinned \in Nat /\ stuck \in Nat /\ idle \in Nat /\ edge \in Nat
      /\ u \in Nat /\ e \in Nat /\ u <= pinned
  BY <1>2 DEF CallsOK, TypeOK
<1> DEFINE k == u - e
<1>4. /\ k \in Nat /\ pinned' \in Nat /\ edge' \in Nat /\ stuck' \in Nat
      /\ idle' = idle + k /\ idle' \in Nat
      /\ idle' - idle = k /\ Kept' - Kept = - k /\ Kept \in Nat
  BY <1>1, <1>2, <1>3 DEF Kept
<1>5. GiveBack(t, kSmallBlockSize * k)
  BY <1>2
<1> HIDE DEF k
<1>6. live' \in [Requests -> Nat] /\ LargeBytes' = LargeBytes
  <2> DEFINE less == live[n] - 1
  <2>1. less \in Nat /\ live' = [live EXCEPT ![n] = less]
    BY <1>1 DEF CallsOK, TypeOK
  <2> HIDE DEF less
  <2>q. QED BY <1>1, <2>1, SmallAllocated DEF CallsOK
<1>7. /\ LargeBytes \in Nat /\ Bytes(cached) \in Nat /\ created \in Int
      /\ kSmallBlockSize \in Nat /\ Held(t) \in Nat
  BY Numbers DEF CallsOK
<1> DEFINE z == kSmallBlockSize * k
<1>8. /\ z \in Nat /\ kSmallBlockSize * (idle' - idle) = z /\ kSmallBlockSize * (Kept' - Kept) = - z
      /\ kSmallBlockSize * idle' = kSmallBlockSize * idle + z
  <2>1. \A p, a, b \in Nat : p * b \in Nat /\ p * (- b) = - (p * b) /\ p * (a + b) = p * a + p * b
    OBVIOUS
  <2>q. QED BY <1>3, <1>4, <1>7, <2>1
<1>9. returned' \in [Threads -> 0..Capacity]
  BY <1>5, <1>8, GaveBack DEF CallsOK
<1>10. TypeOK'
  BY <1>1, <1>4, <1>6, <1>9 DEF CallsOK, TypeOK
<1>11. \A w \in Threads : Progress(w)'
  BY <1>1 DEF CallsOK, Progress
<1>12. Moved(t)
  <2> HIDE DEF z
  <2>1. Held(t)' = Held(t) /\ Bytes(cached)' = Bytes(cached)
    BY <1>1, Untouched
  <2>2. /\ created' - created = 0 /\ Held(t)' - Held(t) = 0
        /\ LargeBytes' - LargeBytes = 0 /\ Bytes(cached)' - Bytes(cached) = 0
    BY <1>1, <1>6, <1>7, <2>1
  <2>q. QED BY <1>8, <2>2 DEF Moved
<1>q. QED BY <1>1, <1>4, <1>5, <1>8, <1>10, <1>11, <1>12 DEF CallsOK

-----------------------------------------------------------------------------
(* MemoryAccounted *)

StepOf(t) ==
  \/ \E n \in Requests : AllocBegin(t, n) \/ FreeLarge(t, n) \/ FreeSmall(t, n)
  \/ AttemptLarge(t) \/ AttemptSmall(t) \/ TakeBlock(t) \/ Succeed(t) \/ TakeFails(t) \/ Rollback(t)
  \/ Retry(t) \/ GiveUp(t)
  \/ FlushSmall(t) \/ PurgeCollect(t) \/ PurgeRelease(t) \/ Trim(t)

LEMMA NextIsStep == Next <=> \E t \in Threads : StepOf(t)
  BY DEF Next, StepOf

LEMMA StepMoved ==
  ASSUME CallsOK, NEW t \in Threads, StepOf(t)
  PROVE  CallsOK' /\ Moved(t)
  BY AllocBeginMoved, FreeLargeMoved, FreeSmallMoved, AttemptLargeMoved, AttemptSmallMoved,
     TakeBlockMoved, SucceedMoved, TakeFailsMoved, RollbackMoved, RetryMoved, GiveUpMoved, FlushSmallMoved, PurgeCollectMoved,
     PurgeReleaseMoved, TrimMoved DEF StepOf

LEMMA OthersStay ==
  ASSUME CallsOK, NEW t \in Threads, StepOf(t)
  PROVE  \A u \in Threads : u # t => call'[u] = call[u]
<1> USE DEF CallsOK, TypeOK, pages
<1>1. ASSUME NEW n \in Requests, AllocBegin(t, n) \/ FreeLarge(t, n) \/ FreeSmall(t, n)
      PROVE  \A u \in Threads : u # t => call'[u] = call[u]
  BY <1>1 DEF AllocBegin, FreeLarge, FreeSmall
<1>2. CASE AttemptLarge(t) \/ TakeBlock(t) \/ Succeed(t)
  BY <1>2 DEF AttemptLarge, TakeBlock, Succeed
<1>6. CASE AttemptSmall(t)
  BY <1>6 DEF AttemptSmall
<1>3. CASE TakeFails(t) \/ Rollback(t)
  BY <1>3 DEF TakeFails, Rollback, Goto
<1>4. CASE Retry(t) \/ GiveUp(t) \/ FlushSmall(t)
  BY <1>4 DEF Retry, GiveUp, FlushSmall, Goto
<1>5. CASE PurgeCollect(t) \/ PurgeRelease(t) \/ Trim(t)
  BY <1>5 DEF PurgeCollect, PurgeRelease, Trim, Goto
<1>q. QED BY <1>1, <1>2, <1>3, <1>4, <1>5, <1>6 DEF StepOf

(* The types, and their primes. *)
Spare == Bytes(cached) + kSmallBlockSize * idle

Typed ==
  TypeOK => /\ LargeBytes \in Nat /\ Bytes(cached) \in Nat /\ idle \in Nat /\ Kept \in Nat
            /\ created \in Int /\ Spare \in Nat /\ kSmallBlockSize * idle \in Nat
            /\ \A t \in Threads : Held(t) \in Nat

LEMMA TypedNow == Typed
  BY Numbers DEF Typed, Spare

LEMMA TypedNext == Typed'
  BY TypedNow, PTL

LEMMA CallChange ==
  ASSUME TypeOK, TypeOK', NEW t \in Threads, \A u \in Threads : u # t => call'[u] = call[u]
  PROVE  InCalls(Threads)' = InCalls(Threads) - Held(t) + Held(t)'
<1> DEFINE f == [u \in Threads |-> Held(u)]
           g == [u \in Threads |-> Held(u)']
<1>1. InCalls(Threads) = Total(f) /\ InCalls(Threads)' = Total(g)
  BY DEF InCalls
<1>2. IsFiniteMap(f) /\ Held(t) \in Nat
  BY HeldMap
<1>3. Held(t)' \in Nat
  BY TypedNext DEF Typed
<1>4. /\ t \in DOMAIN f /\ DOMAIN g = DOMAIN f /\ f[t] = Held(t) /\ g[t] = Held(t)'
      /\ \A u \in DOMAIN f : u # t => g[u] = f[u]
  BY Untouched
<1> HIDE DEF f, g
<1>5. Total(g) = Total(f) - f[t] + g[t]
  BY <1>2, <1>3, <1>4, TotalChange
<1>q. QED BY <1>1, <1>4, <1>5

(* Sums of what is held outside and inside the calls. *)
LEMMA Balance ==
  ASSUME NEW l \in Int, NEW l1 \in Int, NEW b \in Int, NEW b1 \in Int,
         NEW x \in Int, NEW y \in Int, NEW z \in Int
  PROVE  /\ l + b + x \in Int /\ l1 + b1 + (x + y + z) \in Int
         /\ (l1 + b1 + (x + y + z)) - (l + b + x) = (l1 - l) + (b1 - b) + y + z
  OBVIOUS

LEMMA Carried ==
  ASSUME NEW c \in Int, NEW c1 \in Int, NEW e \in Int, NEW e1 \in Int,
         NEW i \in Int, NEW h \in Int, NEW h1 \in Int,
         c = e + i, c1 - c = (e1 - e) + (h1 - h)
  PROVE  c1 = e1 + (i - h + h1)
  OBVIOUS

LEMMA NextAccounted ==
  ASSUME CallsOK, MemoryAccounted, [Next]_vars
  PROVE  CallsOK' /\ MemoryAccounted'
<1>1. CASE UNCHANGED vars
  <2>1. /\ UNCHANGED <<cached, pages, live, created, returned>>
        /\ \A t \in Threads : call'[t] = call[t]
    BY <1>1 DEF vars
  <2>2. InCalls(Threads)' = InCalls(Threads)
    BY <1>1 DEF vars, InCalls, Held, Bytes
  <2>3. TypeOK' /\ \A t \in Threads : Progress(t)'
    BY <1>1 DEF vars, pages, CallsOK, TypeOK, Progress
  <2>4. UNCHANGED <<pinned, stuck, idle, edge, created>>
    BY <2>1 DEF pages
  <2>q. QED BY <2>1, <2>2, <2>3, <2>4, Untouched DEF MemoryAccounted, CallsOK
<1>2. ASSUME NEW t \in Threads, StepOf(t) PROVE CallsOK' /\ MemoryAccounted'
  <2>1. CallsOK' /\ Moved(t)
    BY <1>2, StepMoved
  <2>2. InCalls(Threads)' = InCalls(Threads) - Held(t) + Held(t)'
    BY <1>2, <2>1, OthersStay, CallChange DEF CallsOK
  <2>3. /\ LargeBytes \in Nat /\ Bytes(cached) \in Nat /\ idle \in Nat /\ Kept \in Nat
        /\ created \in Int /\ kSmallBlockSize \in Nat /\ Held(t) \in Nat
        /\ InCalls(Threads) \in Nat
    BY Numbers, HeldMap DEF CallsOK
  <2>6. /\ LargeBytes' \in Nat /\ Bytes(cached)' \in Nat /\ idle' \in Nat /\ Kept' \in Nat
        /\ created' \in Int /\ Held(t)' \in Nat
    BY <2>1, TypedNext DEF CallsOK, Typed
  <2>7. /\ kSmallBlockSize * (idle' + Kept') =
             kSmallBlockSize * (idle + Kept) + kSmallBlockSize * (idle' - idle)
               + kSmallBlockSize * (Kept' - Kept)
        /\ kSmallBlockSize * (idle + Kept) \in Int /\ kSmallBlockSize * (idle' - idle) \in Int
        /\ kSmallBlockSize * (Kept' - Kept) \in Int
    <3>1. \A k, a, b, c, d \in Int :
            /\ k * (c + d) = k * (a + b) + k * (c - a) + k * (d - b)
            /\ k * (a + b) \in Int /\ k * (c - a) \in Int /\ k * (d - b) \in Int
      OBVIOUS
    <3>q. QED BY <2>3, <2>6, <3>1
  <2>4. /\ pinned + stuck + idle + edge = idle + Kept
        /\ pinned' + stuck' + idle' + edge' = idle' + Kept'
    BY <2>1 DEF CallsOK, TypeOK, Kept
  <2>8. created = LargeBytes + Bytes(cached) + kSmallBlockSize * (idle + Kept) + InCalls(Threads)
    BY <2>4 DEF MemoryAccounted
  <2> DEFINE x == kSmallBlockSize * (idle + Kept)
             y == kSmallBlockSize * (idle' - idle)
             z == kSmallBlockSize * (Kept' - Kept)
             w == kSmallBlockSize * (idle' + Kept')
  <2>9. /\ w = x + y + z /\ x \in Int /\ y \in Int /\ z \in Int
        /\ created = LargeBytes + Bytes(cached) + x + InCalls(Threads)
        /\ created' - created =
             (LargeBytes' - LargeBytes) + (Bytes(cached)' - Bytes(cached)) + y + z
               + (Held(t)' - Held(t))
    BY <2>1, <2>7, <2>8 DEF Moved
  <2> HIDE DEF x, y, z, w
  <2>10. created' = LargeBytes' + Bytes(cached)' + w + InCalls(Threads)'
    <3> DEFINE l == LargeBytes  l1 == LargeBytes'  b == Bytes(cached)  b1 == Bytes(cached)'
               i == InCalls(Threads)  i1 == InCalls(Threads)'  h == Held(t)  h1 == Held(t)'
    <3>1. /\ l \in Int /\ l1 \in Int /\ b \in Int /\ b1 \in Int /\ i \in Int
          /\ h \in Int /\ h1 \in Int /\ created \in Int /\ created' \in Int
      BY <2>3, <2>6
    <3>2. /\ created = l + b + x + i /\ i1 = i - h + h1
          /\ created' - created = (l1 - l) + (b1 - b) + y + z + (h1 - h)
      BY <2>2, <2>9
    <3>3. w = x + y + z /\ x \in Int /\ y \in Int /\ z \in Int
      BY <2>9
    <3> HIDE DEF l, l1, b, b1, i, i1, h, h1
    <3> DEFINE e == l + b + x
               e1 == l1 + b1 + (x + y + z)
               m == (l1 - l) + (b1 - b) + y + z
    <3>4. e \in Int /\ e1 \in Int /\ e1 - e = m
      BY <3>1, <3>3, Balance
    <3>5. created = e + i /\ created' - created = m + (h1 - h)
      BY <3>2
    <3> HIDE DEF e, e1, m
    <3>6. created' = e1 + (i - h + h1)
      BY <3>1, <3>4, <3>5, Carried
    <3>q. QED BY <3>2, <3>3, <3>6 DEF e1, l1, b1, i1
  <2>q. QED BY <2>1, <2>4, <2>10 DEF MemoryAccounted, w
<1>q. QED BY <1>1, <1>2, NextIsStep

LEMMA InitAccounted == Init => MemoryAccounted
<1> SUFFICES ASSUME Init PROVE MemoryAccounted OBVIOUS
<1>1. \A n \in LargeRequests : live[n] * Need(n) = 0
  BY BlocksFacts DEF Init, LargeRequests
<1>2. LargeBytes = 0
  <2>1. IsFiniteSet(LargeRequests)
    BY RetryAssumption, FS_Subset DEF LargeRequests
  <2>2. Total([n \in LargeRequests |-> live[n] * Need(n)]) = 0
    BY <1>1, <2>1, TotalZero
  <2>q. QED BY <2>2 DEF LargeBytes, LargeRequests
<1>3. \A t \in Threads : Held(t) = 0
  BY DEF Init, Held
<1>4. InCalls(Threads) = 0
  BY <1>3, RetryAssumption, TotalZero DEF InCalls
<1>5. Bytes(cached) = 0
  BY BytesNone DEF Init
<1>6. kSmallBlockSize * (pinned + stuck + idle + edge) = 0 /\ created = 0
  <2>1. pinned + stuck + idle + edge = 0 /\ kSmallBlockSize \in Nat
    BY SizeFacts DEF Init
  <2>2. kSmallBlockSize * 0 = 0
    BY <2>1
  <2>q. QED BY <2>1, <2>2 DEF Init
<1>q. QED BY <1>2, <1>4, <1>5, <1>6 DEF MemoryAccounted

(* Every byte the driver holds is live, cached, on a page of the           *)
(* SmallAllocator or in the hands of one call, for any number of threads,  *)
(* classes and requests and any capacity: no retry, rollback or purge of   *)
(* alloc_impl leaks a block or gives one up twice.                         *)
THEOREM MemoryAccountedHolds == Spec => []MemoryAccounted
<1>1. Init => CallsOK /\ MemoryAccounted
  BY InitCalls, InitAccounted
<1>2. CallsOK /\ MemoryAccounted /\ [Next]_vars => CallsOK' /\ MemoryAccounted'
  BY NextAccounted
<1>q. QED BY <1>1, <1>2, PTL DEF Spec

-----------------------------------------------------------------------------
(* OomJustified *)

(* In its last attempt a call has flushed all the caches: what is in them  *)
(* again has been given back since by others.                              *)
Repaid(t) ==
  LastAttempt(t) =>
    /\ call[t].step \in {"attempt", "take"} =>
         returned[t] = Capacity \/ Spare <= returned[t]
    /\ call[t].step = "trim" =>
         returned[t] = Capacity \/ kSmallBlockSize * idle <= returned[t]

(* A step of t gives the caches at most what it credits to the others.     *)
Eased(t, n) ==
  /\ Spare' <= Spare + n
  /\ kSmallBlockSize * idle' <= kSmallBlockSize * idle + n
  /\ \A u \in Threads : u # t /\ LastAttempt(u) =>
       returned'[u] = Capacity \/ returned'[u] = returned[u] + n

LEMMA EasedOthers ==
  ASSUME TypeOK, TypeOK', NEW t \in Threads, NEW n \in Nat, Eased(t, n),
         NEW u \in Threads, u # t, call'[u] = call[u], Repaid(u)
  PROVE  Repaid(u)'
<1> SUFFICES ASSUME LastAttempt(u)'
             PROVE  /\ call[u].step \in {"attempt", "take"} =>
                         returned'[u] = Capacity \/ Spare' <= returned'[u]
                    /\ call[u].step = "trim" =>
                         returned'[u] = Capacity \/ kSmallBlockSize * idle' <= returned'[u]
  BY DEF Repaid
<1>1. LastAttempt(u)
  BY DEF LastAttempt
<1>2. /\ returned[u] \in Nat /\ returned'[u] \in Nat /\ returned'[u] <= Capacity /\ Capacity \in Nat
  BY RetryAssumption DEF TypeOK
<1>3. returned'[u] = Capacity \/ returned'[u] = returned[u] + n
  BY <1>1 DEF Eased
<1>4. Spare \in Nat /\ kSmallBlockSize * idle \in Nat
  BY TypedNow DEF Typed
<1>7. Spare' \in Nat /\ kSmallBlockSize * idle' \in Nat
  BY TypedNext DEF Typed
<1> DEFINE a == kSmallBlockSize * idle
           b == kSmallBlockSize * idle'
<1>8. Spare' <= Spare + n /\ b <= a + n
  BY DEF Eased
<1>9. /\ call[u].step \in {"attempt", "take"} =>
           returned[u] = Capacity \/ Spare <= returned[u]
      /\ call[u].step = "trim" => returned[u] = Capacity \/ a <= returned[u]
  BY <1>1 DEF Repaid
<1>10. a \in Nat /\ b \in Nat
  BY <1>4, <1>7
<1> HIDE DEF a, b
<1>11. \A x, y \in Nat : /\ y <= x + n /\ (returned[u] = Capacity \/ x <= returned[u])
                         => returned'[u] = Capacity \/ y <= returned'[u]
  BY <1>2, <1>3
<1>q. QED BY <1>4, <1>7, <1>8, <1>9, <1>10, <1>11 DEF b

LEMMA QuietlyEased ==
  ASSUME TypeOK, TypeOK', NEW t \in Threads, Bytes(cached)' <= Bytes(cached), idle' <= idle,
         \A u \in Threads : u # t => returned'[u] = returned[u]
  PROVE  Eased(t, 0) /\ Spare' <= Spare
<1>1. /\ Bytes(cached) \in Nat /\ Bytes(cached)' \in Nat /\ idle \in Nat /\ idle' \in Nat
      /\ kSmallBlockSize \in Nat
  BY TypedNow, TypedNext, Numbers DEF Typed
<1>2. /\ kSmallBlockSize * idle \in Nat /\ kSmallBlockSize * idle' \in Nat
      /\ kSmallBlockSize * idle' <= kSmallBlockSize * idle
  <2>1. \A k, a, b \in Nat : b <= a => k * a \in Nat /\ k * b \in Nat /\ k * b <= k * a
    OBVIOUS
  <2>q. QED BY <1>1, <2>1
<1>3. \A u \in Threads : returned[u] \in Nat
  BY RetryAssumption DEF TypeOK
<1> DEFINE a == kSmallBlockSize * idle
           b == kSmallBlockSize * idle'
           p == Bytes(cached)
           q == Bytes(cached)'
<1>4. a \in Nat /\ b \in Nat /\ b <= a /\ p \in Nat /\ q \in Nat /\ q <= p
  BY <1>1, <1>2
<1>5. Spare = p + a /\ Spare' = q + b
  BY DEF Spare
<1> HIDE DEF a, b, p, q
<1>6. q + b <= p + a + 0 /\ b <= a + 0 /\ q + b <= p + a
  BY <1>4
<1>7. Spare' <= Spare + 0 /\ Spare' <= Spare
  BY <1>5, <1>6
<1>8. kSmallBlockSize * idle' <= kSmallBlockSize * idle + 0
  BY <1>6 DEF a, b
<1>9. \A u \in Threads : u # t => returned'[u] = returned[u] + 0
  BY <1>3
<1>q. QED BY <1>7, <1>8, <1>9 DEF Eased

(* The caches grow by n: by a block that is rolled back, or by a free. *)
LEMMA GivenEased ==
  ASSUME TypeOK, TypeOK', NEW t \in Threads, NEW n \in Nat, GiveBack(t, n),
         Bytes(cached)' + kSmallBlockSize * idle' = Bytes(cached) + kSmallBlockSize * idle + n,
         kSmallBlockSize * idle' <= kSmallBlockSize * idle + n
  PROVE  Eased(t, n)
<1>1. Spare' = Spare + n
  BY DEF Spare
<1>2. Spare \in Nat
  BY TypedNow DEF Typed
<1>3. Spare' <= Spare + n
  BY <1>1, <1>2
<1>q. QED BY <1>3, GaveBack DEF Eased

LEMMA StepEased ==
  ASSUME CallsOK, NEW t \in Threads, StepOf(t)
  PROVE  \E n \in Nat : Eased(t, n)
<1>0. CallsOK' /\ TypeOK /\ TypeOK'
  BY StepMoved DEF CallsOK
<1>n. /\ Bytes(cached) \in Nat /\ kSmallBlockSize * idle \in Nat /\ kSmallBlockSize \in Nat
      /\ idle \in Nat /\ idle' \in Nat /\ Bytes(cached)' \in Nat
  BY <1>0, TypedNow, TypedNext, Numbers DEF Typed
<1>e. ASSUME Bytes(cached)' <= Bytes(cached), idle' <= idle,
             \A u \in Threads : u # t => returned'[u] = returned[u]
      PROVE  \E n \in Nat : Eased(t, n)
  BY <1>0, <1>e, QuietlyEased
<1>s. UNCHANGED <<cached, idle>> => Bytes(cached)' <= Bytes(cached) /\ idle' <= idle
  BY <1>n, Untouched
<1>r. \A u \in Threads : returned \in [Threads -> 0..Capacity]
  BY <1>0 DEF TypeOK
<1>1. ASSUME NEW m \in Requests, AllocBegin(t, m) PROVE \E n \in Nat : Eased(t, n)
  <2>1. UNCHANGED <<cached, idle, returned>>
    BY <1>1, PagesStay DEF AllocBegin
  <2>q. QED BY <2>1, <1>e, <1>s
<1>2. ASSUME NEW m \in Requests, FreeLarge(t, m) PROVE \E n \in Nat : Eased(t, n)
  <2>1. /\ GiveBack(t, Need(m)) /\ UNCHANGED idle
        /\ Bytes(cached)' = Bytes(cached) + Need(m) /\ Need(m) \in Nat
    BY <1>2, FreeLargeMoved, BlocksFacts
  <2>2. /\ Bytes(cached)' + kSmallBlockSize * idle' = Bytes(cached) + kSmallBlockSize * idle + Need(m)
        /\ kSmallBlockSize * idle' <= kSmallBlockSize * idle + Need(m)
    <3> DEFINE a == kSmallBlockSize * idle
    <3>1. kSmallBlockSize * idle' = a /\ a \in Nat
      BY <2>1, <1>n
    <3> HIDE DEF a
    <3>2. Bytes(cached)' + a = Bytes(cached) + a + Need(m) /\ a <= a + Need(m)
      BY <2>1, <3>1, <1>n
    <3>q. QED BY <3>1, <3>2 DEF a
  <2>q. QED BY <1>0, <2>1, <2>2, GivenEased
<1>12. ASSUME NEW m \in Requests, FreeSmall(t, m) PROVE \E n \in Nat : Eased(t, n)
  <2>1. PICK k \in Nat :
          /\ GiveBack(t, kSmallBlockSize * k) /\ kSmallBlockSize * k \in Nat
          /\ kSmallBlockSize * idle' = kSmallBlockSize * idle + kSmallBlockSize * k
    BY <1>12, FreeSmallMoved
  <2>2. Bytes(cached)' = Bytes(cached)
    BY <1>12, FreeSmallMoved, Untouched
  <2> DEFINE n == kSmallBlockSize * k
             a == kSmallBlockSize * idle
             b == kSmallBlockSize * idle'
  <2>3. n \in Nat /\ a \in Nat /\ b = a + n
    BY <2>1, <1>n
  <2>4. GiveBack(t, n)
    BY <2>1
  <2> HIDE DEF n, a, b
  <2>5. Bytes(cached)' + b = Bytes(cached) + a + n /\ b <= a + n
    BY <2>2, <2>3, <1>n
  <2>6. /\ Bytes(cached)' + kSmallBlockSize * idle' = Bytes(cached) + kSmallBlockSize * idle + n
        /\ kSmallBlockSize * idle' <= kSmallBlockSize * idle + n
    BY <2>5 DEF a, b
  <2>q. QED BY <1>0, <2>3, <2>4, <2>6, GivenEased
<1>3. CASE AttemptLarge(t) \/ AttemptSmall(t)
  <2>1. idle' <= idle
    <3>1. CASE AttemptLarge(t)
      BY <3>1, <1>n, PagesStay DEF AttemptLarge
    <3>2. CASE AttemptSmall(t)
      BY <3>2, AttemptSmallStep
    <3>q. QED BY <1>3, <3>1, <3>2
  <2>2. UNCHANGED <<cached, returned>>
    <3>1. CASE AttemptLarge(t)
      BY <3>1 DEF AttemptLarge
    <3>2. CASE AttemptSmall(t)
      BY <3>2 DEF AttemptSmall
    <3>q. QED BY <1>3, <3>1, <3>2
  <2>q. QED BY <2>1, <2>2, <1>e, <1>n, Untouched
<1>4. CASE TakeBlock(t)
  <2>1. Bytes(cached)' <= Bytes(cached)
    BY <1>4, TakeBlockMoved
  <2>2. UNCHANGED <<idle, returned>>
    BY <1>4, PagesStay DEF TakeBlock
  <2>q. QED BY <2>1, <2>2, <1>e, <1>n
<1>5. CASE Succeed(t) \/ GiveUp(t)
  <2>1. UNCHANGED <<cached, idle>> /\ returned' = [returned EXCEPT ![t] = 0]
    <3>1. CASE Succeed(t)
      <4>1. UNCHANGED <<cached, idle>>
        BY <3>1, SucceedMoved
      <4>q. QED BY <3>1, <4>1 DEF Succeed
    <3>2. CASE GiveUp(t)
      BY <3>2, PagesStay DEF GiveUp
    <3>q. QED BY <1>5, <3>1, <3>2
  <2>q. QED BY <2>1, <1>e, <1>s, <1>r
<1>6. CASE TakeFails(t) \/ Retry(t)
  <2>1. UNCHANGED <<cached, idle, returned>>
    <3>1. CASE TakeFails(t)
      BY <3>1, TakeFailsMoved
    <3>2. CASE Retry(t)
      BY <3>2, PagesStay DEF Retry
    <3>q. QED BY <1>6, <3>1, <3>2
  <2>q. QED BY <2>1, <1>e, <1>s
<1>7. CASE Rollback(t)
  <2>1. UNCHANGED idle
    BY <1>7, PagesStay DEF Rollback
  <2>2. CASE UNCHANGED <<cached, returned>>
    BY <2>1, <2>2, <1>e, <1>s
  <2>3. ASSUME NEW c \in AllSizes, Bytes(cached)' = Bytes(cached) + c, GiveBack(t, c)
        PROVE  \E n \in Nat : Eased(t, n)
    <3>1. c \in Nat
      BY SizeFacts
    <3> DEFINE a == kSmallBlockSize * idle
    <3>2. kSmallBlockSize * idle' = a /\ a \in Nat
      BY <2>1, <1>n
    <3> HIDE DEF a
    <3>3. Bytes(cached)' + a = Bytes(cached) + a + c /\ a <= a + c
      BY <3>1, <3>2, <2>3, <1>n
    <3>4. /\ Bytes(cached)' + kSmallBlockSize * idle' = Bytes(cached) + kSmallBlockSize * idle + c
          /\ kSmallBlockSize * idle' <= kSmallBlockSize * idle + c
      BY <3>2, <3>3 DEF a
    <3>q. QED BY <1>0, <2>3, <3>1, <3>4, GivenEased
  <2>q. QED BY <1>7, <2>2, <2>3, RollbackMoved
<1>8. CASE FlushSmall(t)
  <2>1. idle' = 0 /\ UNCHANGED returned /\ Bytes(cached)' = Bytes(cached) + kSmallBlockSize * idle
    BY <1>8, FlushSmallMoved
  <2> DEFINE a == kSmallBlockSize * idle
             b == kSmallBlockSize * idle'
  <2>2. a \in Nat /\ b = 0 /\ Bytes(cached)' = Bytes(cached) + a
    BY <2>1, <1>n
  <2>3. Spare = Bytes(cached) + a /\ Spare' = Bytes(cached)' + b
    BY DEF Spare
  <2> HIDE DEF a, b
  <2>4. Spare' <= Spare + 0 /\ b <= a + 0
    BY <2>2, <2>3, <1>n
  <2>5. kSmallBlockSize * idle' <= kSmallBlockSize * idle + 0
    BY <2>4 DEF a, b
  <2>6. \A u \in Threads : returned[u] \in Nat
    BY <1>r, RetryAssumption
  <2>7. \A u \in Threads : returned'[u] = returned[u] + 0
    BY <2>1, <2>6
  <2>8. Eased(t, 0)
    BY <2>4, <2>5, <2>7 DEF Eased
  <2>q. QED BY <2>8
<1>9. CASE PurgeCollect(t)
  <2>1. Bytes(cached)' <= Bytes(cached)
    BY <1>9, PurgeCollectMoved
  <2>2. UNCHANGED <<idle, returned>>
    BY <1>9, PagesStay DEF PurgeCollect
  <2>q. QED BY <2>1, <2>2, <1>e, <1>n
<1>10. CASE PurgeRelease(t)
  <2>1. UNCHANGED <<cached, idle, returned>>
    BY <1>10, PagesStay DEF PurgeRelease
  <2>q. QED BY <2>1, <1>e, <1>s
<1>11. CASE Trim(t)
  <2>1. UNCHANGED <<idle, returned>> /\ Bytes(cached)' = 0
    BY <1>11, TrimMoved
  <2>q. QED BY <2>1, <1>e, <1>n
<1>q. QED
  BY <1>1, <1>2, <1>3, <1>4, <1>5, <1>6, <1>7, <1>8, <1>9, <1>10, <1>11, <1>12 DEF StepOf

(* The call that steps. *)
LEMMA StepRepaid ==
  ASSUME CallsOK, NEW t \in Threads, StepOf(t), Repaid(t)
  PROVE  Repaid(t)'
<1>0. CallsOK' /\ TypeOK /\ TypeOK'
  BY StepMoved DEF CallsOK
<1>c. call \in [Threads -> Allocation \union {NoCall}]
  BY <1>0 DEF TypeOK
<1>i. \A u \in Threads : call[u].step \in Steps => call[u] \in Allocation
  BY <1>c DEF NoCall, Steps
<1>x. ASSUME ~ LastAttempt(t)' \/ call'[t].step \notin {"attempt", "take", "trim"}
      PROVE  Repaid(t)'
  BY <1>x DEF Repaid
<1>1. ASSUME NEW m \in Requests, AllocBegin(t, m) PROVE Repaid(t)'
  <2>1. call'[t].level = 0
    BY <1>1, <1>c DEF AllocBegin
  <2>q. QED BY <2>1, <1>x DEF LastAttempt
<1>2. ASSUME NEW m \in Requests, FreeLarge(t, m) \/ FreeSmall(t, m) PROVE Repaid(t)'
  <2>1. call'[t] = NoCall
    BY <1>2 DEF FreeLarge, FreeSmall
  <2>q. QED BY <2>1, <1>x DEF LastAttempt
<1>3. CASE AttemptLarge(t) \/ AttemptSmall(t) \/ TakeBlock(t)
  <2>1. Bytes(cached)' <= Bytes(cached) /\ idle' <= idle /\ UNCHANGED returned
    <3>1. /\ Bytes(cached) \in Nat /\ idle \in Nat
      BY <1>0, Numbers
    <3>2. CASE AttemptLarge(t) \/ AttemptSmall(t)
      <4>1. CASE AttemptLarge(t)
        BY <3>1, <4>1, PagesStay, Untouched DEF AttemptLarge
      <4>2. CASE AttemptSmall(t)
        <5>1. idle' <= idle
          BY <4>2, AttemptSmallStep
        <5>2. UNCHANGED <<cached, returned>>
          BY <4>2 DEF AttemptSmall
        <5>q. QED BY <3>1, <5>1, <5>2, Untouched
      <4>q. QED BY <3>2, <4>1, <4>2
    <3>3. CASE TakeBlock(t)
      <4>1. Bytes(cached)' <= Bytes(cached)
        BY <3>3, TakeBlockMoved
      <4>2. UNCHANGED <<idle, returned>>
        BY <3>3, PagesStay DEF TakeBlock
      <4>q. QED BY <3>1, <4>1, <4>2
    <3>q. QED BY <1>3, <3>2, <3>3
  <2>2. Spare' <= Spare
    BY <2>1, <1>0, QuietlyEased
  <2>3. /\ call[t].step \in {"attempt", "take"} /\ call[t] \in Allocation
        /\ call'[t].step = "take" /\ call'[t].level = call[t].level
    <3>1. call[t].step \in {"attempt", "take"}
      <4>1. CASE AttemptLarge(t)
        BY <4>1 DEF AttemptLarge, InStep
      <4>2. CASE AttemptSmall(t)
        BY <4>2 DEF AttemptSmall, InStep
      <4>3. CASE TakeBlock(t)
        BY <4>3 DEF TakeBlock, InStep
      <4>q. QED BY <1>3, <4>1, <4>2, <4>3
    <3>2. call[t] \in Allocation
      BY <3>1, <1>i DEF Steps
    <3>3. CASE AttemptLarge(t)
      BY <3>1, <3>2, <3>3, <1>c DEF AttemptLarge, Allocation
    <3>5. CASE AttemptSmall(t)
      BY <3>1, <3>2, <3>5, <1>c DEF AttemptSmall, Allocation
    <3>4. CASE TakeBlock(t)
      BY <3>1, <3>2, <3>4, <1>c DEF TakeBlock, InStep, Allocation
    <3>q. QED BY <1>3, <3>1, <3>2, <3>3, <3>4, <3>5
  <2>4. LastAttempt(t)' => LastAttempt(t)
    BY <2>3 DEF LastAttempt, Allocation, NoCall, Steps
  <2>5. LastAttempt(t)' => returned'[t] = Capacity \/ Spare' <= returned'[t]
    <3> SUFFICES ASSUME LastAttempt(t)' PROVE returned'[t] = Capacity \/ Spare' <= returned'[t]
      OBVIOUS
    <3>1. returned[t] = Capacity \/ Spare <= returned[t]
      BY <2>3, <2>4 DEF Repaid
    <3>2. Spare \in Nat /\ Spare' \in Nat
      BY <1>0, TypedNow, TypedNext DEF Typed
    <3>3. returned[t] \in Nat
      BY <1>0, RetryAssumption DEF TypeOK
    <3>q. QED BY <2>1, <2>2, <3>1, <3>2, <3>3
  <2>q. QED BY <2>3, <2>5 DEF Repaid
<1>4. CASE Succeed(t) \/ GiveUp(t)
  <2>1. call'[t] = NoCall
    BY <1>4, <1>c DEF Succeed, GiveUp
  <2>q. QED BY <2>1, <1>x DEF LastAttempt
<1>5. CASE TakeFails(t) \/ Rollback(t) \/ Retry(t) \/ PurgeCollect(t)
  <2>1. call[t].step \in Steps
    BY <1>5 DEF TakeFails, Rollback, Retry, PurgeCollect, InStep, Steps
  <2>2. call[t] \in Allocation
    BY <2>1, <1>i
  <2>3. CASE TakeFails(t)
    <3>1. call'[t].step \in {"rollback", "failed"}
      BY <2>2, <2>3, <1>c DEF TakeFails, Goto, Allocation
    <3>q. QED BY <3>1, <1>x
  <2>4. CASE Rollback(t)
    <3>1. call'[t].step \in {"rollback", "failed"}
      BY <2>4, RollbackMoved
    <3>q. QED BY <3>1, <1>x
  <2>5. CASE Retry(t)
    <3>1. call'[t].step = "flush"
      BY <2>2, <2>5, <1>c DEF Retry, Allocation
    <3>q. QED BY <3>1, <1>x
  <2>6. CASE PurgeCollect(t)
    <3>1. call'[t].step = "release"
      BY <2>2, <2>6, <1>c DEF PurgeCollect, Allocation
    <3>q. QED BY <3>1, <1>x
  <2>q. QED BY <1>5, <2>3, <2>4, <2>5, <2>6
<1>6. CASE FlushSmall(t)
  <2>1. /\ idle' = 0 /\ call'[t].step \in {"purge", "trim"}
        /\ UNCHANGED returned
    BY <1>6, FlushSmallMoved
  <2>2. kSmallBlockSize * idle' = 0 /\ returned[t] \in Nat
    BY <2>1, <1>0, SizeFacts, RetryAssumption DEF TypeOK
  <2>3. kSmallBlockSize * idle' <= returned'[t]
    BY <2>1, <2>2
  <2>q. QED BY <2>1, <2>3 DEF Repaid
<1>7. CASE PurgeRelease(t)
  <2>1. call'[t].level # 2
    BY <1>7, PurgeReleaseMoved
  <2>q. QED BY <2>1, <1>x DEF LastAttempt
<1>8. CASE Trim(t)
  <2>1. /\ Bytes(cached)' = 0 /\ UNCHANGED <<idle, returned>> /\ call[t].step = "trim"
    BY <1>8, TrimMoved
  <2>2. call[t] \in Allocation
    BY <2>1, <1>i DEF Steps
  <2>3. call'[t].step = "attempt" /\ call'[t].level = call[t].level
    BY <2>2, <1>8, <1>c DEF Trim, Goto, Allocation
  <2>4. LastAttempt(t)' => LastAttempt(t)
    BY <2>2, <2>3 DEF LastAttempt, Allocation, NoCall, Steps
  <2>5. Spare' = kSmallBlockSize * idle
    <3>1. kSmallBlockSize * idle \in Nat
      BY <1>0, Numbers
    <3>q. QED BY <2>1, <3>1 DEF Spare
  <2>6. LastAttempt(t)' => returned'[t] = Capacity \/ Spare' <= returned'[t]
    BY <2>1, <2>4, <2>5 DEF Repaid
  <2>q. QED BY <2>3, <2>6 DEF Repaid
<1>q. QED BY <1>1, <1>2, <1>3, <1>4, <1>5, <1>6, <1>7, <1>8 DEF StepOf

LEMMA NextRepaid ==
  ASSUME CallsOK, CallsOK', \A t \in Threads : Repaid(t), [Next]_vars
  PROVE  \A t \in Threads : Repaid(t)'
<1>1. CASE UNCHANGED vars
  BY <1>1 DEF vars, pages, Repaid, LastAttempt, Spare, Bytes
<1>2. ASSUME NEW t \in Threads, StepOf(t) PROVE \A u \in Threads : Repaid(u)'
  <2>1. Repaid(t)'
    BY <1>2, StepRepaid
  <2>2. PICK n \in Nat : Eased(t, n)
    BY <1>2, StepEased
  <2>3. \A u \in Threads : u # t => Repaid(u)'
    BY <1>2, <2>2, OthersStay, EasedOthers DEF CallsOK
  <2>q. QED BY <2>1, <2>3
<1>q. QED BY <1>1, <1>2, NextIsStep

LEMMA InitRepaid == Init => \A t \in Threads : Repaid(t)
  BY DEF Init, Repaid, LastAttempt

LEMMA Exceeds ==
  ASSUME NEW d \in Int, NEW l \in Nat, NEW s \in Nat, NEW x \in Nat, NEW i \in Nat,
         NEW c \in Nat, NEW r \in Nat, NEW rest \in Nat, NEW cap \in Nat,
         d + c > cap, d = l + s + x + i, r = cap \/ s <= r, c > 0
  PROVE  l + x + i + (c + rest) + r > cap
  OBVIOUS

LEMMA LacksMemory ==
  ASSUME CallsOK, MemoryAccounted, NEW t \in Threads, Repaid(t),
         TakeFails(t), call[t].level = 2
  PROVE  LargeBytes + kSmallBlockSize * (pinned + stuck + edge) + InCalls(Threads)
           + LayoutBytes(call[t].todo) + returned[t] > Capacity
<1>0. TypeOK
  BY DEF CallsOK
<1> DEFINE todo == call[t].todo
           c == Head(todo)
           rest == Total(Tail(todo))
           x == kSmallBlockSize * Kept
           y == kSmallBlockSize * idle
<1>1. call[t].step = "take" /\ todo # <<>> /\ ~ Available(c)
  BY DEF TakeFails, InStep
<1>2. call[t] # NoCall /\ call[t] \in Allocation
  BY <1>0, <1>1, Running DEF NoCall
<1>3. todo \in Seq(AllSizes)
  BY <1>2 DEF Allocation
<1>4. c \in Nat /\ c > 0 /\ LayoutBytes(todo) = c + rest /\ rest \in Nat
  <2>1. c \in AllSizes
    BY <1>1, <1>3
  <2>2. todo \in Seq(Nat)
    BY <1>3, SizeFacts, SeqSubset
  <2>3. IsFiniteMap(Tail(todo)) /\ Total(todo) = c + rest
    BY <1>1, <2>2, TotalTail
  <2>4. rest \in Nat
    BY <2>3, TotalNat
  <2>5. c \in Nat /\ c > 0
    <3> HIDE DEF c
    <3>q. QED BY <2>1, SizeFacts
  <2>q. QED BY <2>3, <2>4, <2>5 DEF LayoutBytes
<1>7. /\ LargeBytes \in Nat /\ Bytes(cached) \in Nat /\ idle \in Nat /\ Kept \in Nat
      /\ kSmallBlockSize \in Nat /\ x \in Nat /\ y \in Nat /\ created \in Int
      /\ Capacity \in Nat /\ InCalls(Threads) \in Nat
  BY <1>0, Numbers, HeldMap, RetryAssumption
<1>8. kSmallBlockSize * (idle + Kept) = y + x /\ pinned + stuck + idle + edge = idle + Kept
  <2>1. \A k, a, b \in Nat : k * (a + b) = k * a + k * b
    OBVIOUS
  <2>q. QED BY <1>0, <1>7, <2>1 DEF Kept, TypeOK
<1>9. created + c > Capacity
  <2>1. ~ (created + c <= Capacity)
    BY <1>1 DEF Available
  <2>q. QED BY <2>1, <1>4, <1>7
<1>10. returned[t] \in Nat
  BY <1>0, <1>7 DEF TypeOK
<1>11. Spare = Bytes(cached) + y /\ Spare \in Nat
  BY <1>7 DEF Spare
<1>12. returned[t] = Capacity \/ Spare <= returned[t]
  BY <1>1, <1>2 DEF Repaid, LastAttempt
<1>13. created = LargeBytes + Spare + x + InCalls(Threads)
  <2> DEFINE p == Bytes(cached)
             l == LargeBytes
             i == InCalls(Threads)
  <2>1. created = l + p + (y + x) + i
    BY <1>8 DEF MemoryAccounted
  <2>2. Spare = p + y /\ p \in Nat /\ l \in Nat /\ i \in Nat
    BY <1>7, <1>11
  <2> HIDE DEF p, l, i, x, y
  <2>3. created = l + Spare + x + i
    BY <1>7, <2>1, <2>2
  <2>q. QED BY <2>3 DEF l, i
<1> HIDE DEF todo, c, rest, x, y
<1>15. LargeBytes + x + InCalls(Threads) + (c + rest) + returned[t] > Capacity
  <2> DEFINE l == LargeBytes
             r == returned[t]
             i == InCalls(Threads)
  <2>1. /\ l \in Nat /\ r \in Nat /\ i \in Nat /\ created = l + Spare + x + i
        /\ r = Capacity \/ Spare <= r
    BY <1>7, <1>10, <1>12, <1>13
  <2> HIDE DEF l, r, i
  <2>2. l + x + i + (c + rest) + r > Capacity
    BY <2>1, <1>4, <1>7, <1>9, <1>11, Exceeds
  <2>q. QED BY <2>2 DEF l, r, i
<1>16. LargeBytes + x + InCalls(Threads) + LayoutBytes(todo) + returned[t] > Capacity
  BY <1>4, <1>15
<1>q. QED BY <1>16 DEF x, todo, Kept

(* An allocation that gives up after its third attempt lacked the memory:  *)
(* large blocks in use, pages under live or lost ranges and under          *)
(* high_water_, what the calls hold and the blocks it still needs exceed   *)
(* the device, but for what others gave back after it began its last flush *)
(* (the handlers of alloc_impl), for any threads, classes, requests and    *)
(* capacity.                                                               *)
THEOREM OomJustifiedHolds == Spec => OomJustified
<1>1. Init => \A t \in Threads : Repaid(t)
  BY InitRepaid
<1>2. Init => CallsOK /\ MemoryAccounted
  BY InitCalls, InitAccounted
<1>3. CallsOK /\ MemoryAccounted /\ [Next]_vars => CallsOK' /\ MemoryAccounted'
  BY NextAccounted
<1>4. CallsOK /\ MemoryAccounted /\ (\A t \in Threads : Repaid(t)) /\ [Next]_vars
        => (\A t \in Threads : Repaid(t))'
  <2> SUFFICES ASSUME CallsOK, MemoryAccounted, \A t \in Threads : Repaid(t), [Next]_vars
               PROVE  (\A t \in Threads : Repaid(t))'
    OBVIOUS
  <2>q. QED BY NextAccounted, NextRepaid
<1>5. CallsOK /\ MemoryAccounted /\ (\A t \in Threads : Repaid(t)) =>
        [\A t \in Threads :
           TakeFails(t) /\ call[t].level = 2 =>
             LargeBytes + kSmallBlockSize * (pinned + stuck + edge) + InCalls(Threads)
               + LayoutBytes(call[t].todo) + returned[t] > Capacity]_vars
  BY LacksMemory
<1>q. QED BY <1>1, <1>2, <1>3, <1>4, <1>5, PTL DEF Spec, OomJustified
=============================================================================
