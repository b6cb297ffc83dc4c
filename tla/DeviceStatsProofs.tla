--------------------------- MODULE DeviceStatsProofs ---------------------------
(***************************************************************************)
(* Proofs about DeviceStats for all finite sets of threads and of sizes    *)
(* and any number of calls.                                                *)
(***************************************************************************)
EXTENDS DeviceStats, TotalsProofs, TLAPS

LEMMA TypeStep == TypeOK /\ [Next]_vars => TypeOK'
<1> SUFFICES ASSUME TypeOK, [Next]_vars PROVE TypeOK' OBVIOUS
<1> USE DEF TypeOK, Records, Pools, Advance, Goto, bytes, history, overlap
<1>1. NoCall \in Records
  BY DEF NoCall, Call
<1>2. ASSUME NEW t \in Threads, Calls(t) PROVE TypeOK'
  <2>0. ASSUME NEW op, NEW p, NEW n, NEW step, Begin(t, op, p, n, step)
        PROVE  torn' \in [Resets -> SUBSET Pools] /\ solo' \subseteq Threads
    BY <2>0 DEF Begin
  <2>1. ASSUME NEW p \in Pools, NEW n \in Sizes, BeginAlloc(t, p, n) PROVE TypeOK'
    BY <2>0, <2>1, StatsAssumption DEF BeginAlloc, Begin, Call
  <2>2. ASSUME NEW p \in Pools, NEW n \in Sizes, BeginFree(t, p, n) PROVE TypeOK'
    BY <2>0, <2>2, StatsAssumption DEF BeginFree, Begin, Call
  <2>3. CASE BeginReset(t, "resetPeak", "load")
    BY <2>0, <2>3 DEF BeginReset, Begin, Call
  <2>4. CASE BeginReset(t, "resetAccumulated", "alloc")
    BY <2>0, <2>4 DEF BeginReset, Begin, Call
  <2>q. QED BY <1>2, <2>1, <2>2, <2>3, <2>4 DEF Calls
<1>3. ASSUME NEW t \in Threads, Step(t) PROVE TypeOK'
  <2>1. CASE AddCurrent(t)
    BY <2>1 DEF AddCurrent, At, Grown
  <2>2. CASE AddAccumulated(t)
    BY <2>2 DEF AddAccumulated, At
  <2>3. CASE AddNum(t)
    BY <2>3 DEF AddNum, At
  <2>4. CASE LoadPeak(t)
    BY <2>4 DEF LoadPeak, At
  <2>5. CASE UpdatePeak(t)
    BY <1>1, <2>5 DEF UpdatePeak, At, Publish, Return
  <2>6. CASE SubCurrent(t)
    BY <2>6 DEF SubCurrent, At
  <2>7. CASE AddFreed(t)
    BY <2>7 DEF AddFreed, At
  <2>8. CASE AddNumFrees(t)
    BY <1>1, <2>8 DEF AddNumFrees, At, Return
  <2>9. CASE LoadCurrent(t)
    BY <2>9 DEF LoadCurrent, At
  <2>10. CASE StorePeak(t)
    <3>1. torn' \in [Resets -> SUBSET Pools]
      BY <2>10 DEF StorePeak, Mends
    <3>q. QED BY <1>1, <2>10, <3>1 DEF StorePeak, At, NextPool, Return
  <2>11. CASE ClearAlloc(t) \/ ClearFreed(t) \/ ClearAllocs(t)
    BY <2>11 DEF ClearAlloc, ClearFreed, ClearAllocs, At
  <2>12. CASE ClearFrees(t)
    <3>1. torn' \in [Resets -> SUBSET Pools]
      BY <2>12 DEF ClearFrees, Mends
    <3>q. QED BY <1>1, <2>12, <3>1 DEF ClearFrees, At, NextPool, Return
  <2>q. QED BY <1>3, <2>1, <2>2, <2>3, <2>4, <2>5, <2>6, <2>7, <2>8, <2>9, <2>10,
               <2>11, <2>12 DEF Step
<1>4. CASE UNCHANGED vars
  BY <1>4 DEF vars
<1>q. QED BY <1>2, <1>3, <1>4 DEF Next

LEMMA TypeInit == Init => TypeOK
  BY DEF Init, TypeOK, Zero, NoCall, Call, Pools, Records

(* The counters, the calls and the histories stay what they are. *)
THEOREM TypeCorrect == Spec => []TypeOK
  BY TypeInit, TypeStep, PTL DEF Spec

-----------------------------------------------------------------------------
(* Which resets overlap other calls *)

(* The call of a thread in solo is the only one, and a reset of another    *)
(* thread has spoilt all that it resets.                                   *)
Alone ==
  /\ \A t \in solo, u \in Running : u = t
  /\ \A t \in Running \ solo : call[t].op \in Resets => torn[call[t].op] = Pools

LEMMA OneCall ==
  ASSUME TypeOK, NEW t \in Threads, Calls(t) \/ Step(t)
  PROVE  \A u \in Threads : u # t => call'[u] = call[u]
  BY DEF TypeOK, Calls, Step, BeginAlloc, BeginFree, BeginReset, Begin, AddCurrent,
     AddAccumulated, AddNum, LoadPeak, UpdatePeak, Publish, SubCurrent, AddFreed, AddNumFrees,
     LoadCurrent, StorePeak, ClearAlloc, ClearFreed, ClearAllocs, ClearFrees, NextPool, Goto,
     Return

(* Who takes a step is in a call. *)
LEMMA StepRuns ==
  ASSUME NEW t \in Threads, Step(t)
  PROVE  t \in Running
  BY DEF Step, AddCurrent, AddAccumulated, AddNum, LoadPeak, UpdatePeak, SubCurrent,
     AddFreed, AddNumFrees, LoadCurrent, StorePeak, ClearAlloc, ClearFreed, ClearAllocs,
     ClearFrees, At, Running

(* What a call that begins does to solo and torn. *)
LEMMA BeginOverlap ==
  ASSUME TypeOK, NEW t \in Threads, Calls(t)
  PROVE  /\ t \notin Running
         /\ Quiet => solo' = {t} /\ torn' = torn
         /\ ~ Quiet =>
              /\ solo' = {}
              /\ \A k \in Resets : torn[k] \subseteq torn'[k]
              /\ \A u \in Running : call[u].op \in Resets => torn'[call[u].op] = Pools
              /\ call'[t].op \in Resets => torn'[call'[t].op] = Pools
<1> SUFFICES ASSUME NEW op, NEW p, NEW n, NEW step, Begin(t, op, p, n, step)
             PROVE  /\ t \notin Running
                    /\ Quiet => solo' = {t} /\ torn' = torn
                    /\ ~ Quiet =>
                         /\ solo' = {}
                         /\ \A k \in Resets : torn[k] \subseteq torn'[k]
                         /\ \A u \in Running : call[u].op \in Resets => torn'[call[u].op] = Pools
                         /\ call'[t].op \in Resets => torn'[call'[t].op] = Pools
  BY DEF Calls, BeginAlloc, BeginFree, BeginReset
<1>1. /\ t \notin Running /\ solo' = (IF Quiet THEN {t} ELSE {})
      /\ torn' = [k \in Resets |->
                    IF ~ Quiet /\ (op = k \/ \E u \in Running : call[u].op = k)
                    THEN Pools ELSE torn[k]]
      /\ call'[t].op = op
  BY DEF Begin, Call, TypeOK
<1>2. torn \in [Resets -> SUBSET Pools]
  BY DEF TypeOK
<1>q. QED BY <1>1, <1>2

(* A step leaves solo as it is, and takes a pool out of torn only when it  *)
(* is the last of a reset of that pool by a thread in solo.                *)
LEMMA StepOverlap ==
  ASSUME TypeOK, NEW t \in Threads, Step(t)
  PROVE  /\ solo' = solo
         /\ \/ torn' = torn
            \/ /\ t \in solo
               /\ \/ /\ StorePeak(t) /\ call[t].op = "resetPeak"
                     /\ torn' = [torn EXCEPT !["resetPeak"] = @ \ {call[t].pool}]
                  \/ /\ ClearFrees(t) /\ call[t].op = "resetAccumulated"
                     /\ torn' = [torn EXCEPT !["resetAccumulated"] = @ \ {call[t].pool}]
<1>1. CASE StorePeak(t)
  <2>1. ASSUME t \notin solo PROVE torn' = torn
    BY <1>1, <2>1 DEF StorePeak, Mends, TypeOK, Resets
  <2>q. QED BY <1>1, <2>1 DEF StorePeak, Mends, At
<1>2. CASE ClearFrees(t)
  <2>1. ASSUME t \notin solo PROVE torn' = torn
    BY <1>2, <2>1 DEF ClearFrees, Mends, TypeOK, Resets
  <2>q. QED BY <1>2, <2>1 DEF ClearFrees, Mends, At
<1>3. CASE ~ (StorePeak(t) \/ ClearFrees(t))
  BY <1>3 DEF Step, AddCurrent, AddAccumulated, AddNum, LoadPeak, UpdatePeak, SubCurrent,
     AddFreed, AddNumFrees, LoadCurrent, ClearAlloc, ClearFreed, ClearAllocs, overlap
<1>q. QED BY <1>1, <1>2, <1>3

(* A call that goes on keeps its operation. *)
LEMMA OpKept ==
  ASSUME TypeOK, NEW t \in Threads, Step(t)
  PROVE  call'[t].op \in {call[t].op, "none"}
  BY DEF TypeOK, Records, Step, AddCurrent, AddAccumulated, AddNum, LoadPeak, UpdatePeak,
     Publish, SubCurrent, AddFreed, AddNumFrees, LoadCurrent, StorePeak, ClearAlloc,
     ClearFreed, ClearAllocs, ClearFrees, NextPool, Goto, Return, NoCall, Call

LEMMA AloneStep ==
  ASSUME TypeOK, TypeOK', Alone, NEW t \in Threads, Calls(t) \/ Step(t)
  PROVE  Alone'
<1>1. \A u \in Threads : u # t => call'[u] = call[u]
  BY OneCall
<1>2. CASE Calls(t)
  <2>1. CASE Quiet
    <3>1. solo' = {t} /\ \A u \in Running' : u = t
      BY <1>1, <1>2, <2>1, BeginOverlap DEF Quiet, Running
    <3>q. QED BY <3>1 DEF Alone
  <2>2. CASE ~ Quiet
    <3>1. ASSUME NEW u \in Running', call'[u].op \in Resets PROVE torn'[call'[u].op] = Pools
      BY <1>1, <1>2, <2>2, <3>1, BeginOverlap DEF Running
    <3>q. QED BY <1>2, <2>2, <3>1, BeginOverlap DEF Alone
  <2>q. QED BY <2>1, <2>2
<1>3. CASE Step(t)
  <2>1. t \in Running /\ solo' = solo /\ Running' \subseteq Running
    BY <1>1, <1>3, StepRuns, StepOverlap, OpKept DEF Running
  <2>2. \A u \in Running' : call'[u].op = call[u].op
    BY <1>1, <1>3, OpKept DEF Running
  <2>3. ASSUME NEW u \in Running' \ solo', call'[u].op \in Resets
        PROVE  torn'[call'[u].op] = Pools
    <3>1. u \in Running \ solo /\ call'[u].op = call[u].op
      BY <2>1, <2>2, <2>3
    <3>2. torn[call[u].op] = Pools
      BY <2>3, <3>1 DEF Alone
    <3>3. t \notin solo
      BY <2>1, <3>1 DEF Alone
    <3>q. QED BY <1>3, <3>1, <3>2, <3>3, StepOverlap
  <2>q. QED BY <2>1, <2>3 DEF Alone
<1>q. QED BY <1>2, <1>3

(* While something in solo runs, nobody else takes a step and what begins  *)
(* ends it.                                                                *)
LEMMA SoloSteps ==
  ASSUME TypeOK, Alone, NEW t \in Threads, Calls(t) \/ Step(t),
         NEW u \in Running, u \in solo'
  PROVE  u = t /\ u \in solo
<1>1. CASE Calls(t)
  <2>1. ~ Quiet
    BY DEF Quiet
  <2>q. QED BY <1>1, <2>1, BeginOverlap
<1>2. CASE Step(t)
  BY <1>2, StepRuns, StepOverlap DEF Alone
<1>q. QED BY <1>1, <1>2

-----------------------------------------------------------------------------
(* The peak *)

(* t has added its bytes to pool p and has not left the loop yet. *)
Pending(t, p) ==
  call[t].op = "recordAlloc" /\ call[t].pool = p /\ call[t].step # "current"

Reached(p) ==
  /\ peak_bytes[p] <= most[p]
  /\ \/ peak_bytes[p] = most[p]
     \/ \E t \in Threads : Pending(t, p) /\ call[t].cur = most[p]

(* The peak of p is the mark of p or on its way there. *)
PeakOf(p) ==
  /\ \A t \in Threads : Pending(t, p) => call[t].cur <= most[p]
  /\ \A t \in Threads : Pending(t, p) /\ call[t].step = "cas" => call[t].prev <= peak_bytes[p]
  /\ Reached(p)

(* What a reset alone has loaded is still true when it stores it. *)
Stored == \A t \in solo :
  At(t, "resetPeak", "store") => call[t].cur = current_bytes[call[t].pool]

PeakInv ==
  TypeOK /\ Alone /\ Stored /\ \A p \in Pools : p \in torn["resetPeak"] \/ PeakOf(p)

LEMMA PeakInit == Init => PeakInv
<1> SUFFICES ASSUME Init PROVE PeakInv OBVIOUS
<1>1. \A t \in Threads : call[t].op = "none"
  BY DEF Init, NoCall, Call
<1>2. Alone /\ Stored
  BY <1>1 DEF Init, Alone, Stored, Running
<1>3. \A p \in Pools : PeakOf(p)
  BY <1>1 DEF Init, Zero, PeakOf, Reached, Pending
<1>q. QED BY <1>2, <1>3, TypeInit DEF PeakInv

(* What an access leaves true that changes neither the peak nor the mark   *)
(* of p: the call of t stays pending or not.                               *)
LEMMA PeakKept ==
  ASSUME TypeOK, TypeOK', NEW t \in Threads, NEW p \in Pools, PeakOf(p),
         peak_bytes'[p] = peak_bytes[p], most'[p] = most[p],
         \A u \in Threads : u # t => call'[u] = call[u],
         Pending(t, p)' <=> Pending(t, p),
         Pending(t, p) => call'[t].cur = call[t].cur,
         Pending(t, p)' /\ call'[t].step = "cas" => call'[t].prev <= peak_bytes[p]
  PROVE  PeakOf(p)'
<1>1. \A u \in Threads : /\ Pending(u, p)' <=> Pending(u, p)
                         /\ Pending(u, p) => call'[u].cur = call[u].cur
  BY DEF Pending
<1>2. \A u \in Threads : Pending(u, p)' => call'[u].cur <= most'[p]
  BY <1>1 DEF PeakOf
<1>3. Reached(p)'
  BY <1>1 DEF Reached, PeakOf
<1>4. ASSUME NEW u \in Threads, Pending(u, p)', call'[u].step = "cas"
      PROVE  call'[u].prev <= peak_bytes'[p]
  <2>1. CASE u = t
    BY <1>4, <2>1
  <2>2. CASE u # t
    BY <1>1, <1>4, <2>2 DEF PeakOf
  <2>q. QED BY <2>1, <2>2
<1>q. QED BY <1>2, <1>3, <1>4 DEF PeakOf

LEMMA StoredStep ==
  ASSUME PeakInv, NEW t \in Threads, Calls(t) \/ Step(t)
  PROVE  Stored'
<1> SUFFICES ASSUME NEW u \in Threads, u \in solo', At(u, "resetPeak", "store")'
             PROVE  call'[u].cur = current_bytes'[call'[u].pool]
  BY TypeStep DEF Stored, PeakInv, TypeOK, Next
<1> USE DEF PeakInv, TypeOK, Records, At, Pools
<1>1. \A v \in Threads : v # t => call'[v] = call[v]
  BY OneCall
<1>2. u = t /\ t \in solo
  <2>1. CASE Calls(t)
    <3>1. call'[t].op # "resetPeak" \/ call'[t].step = "load"
      BY <2>1 DEF Calls, BeginAlloc, BeginFree, BeginReset, Begin, Call
    <3>2. u # t /\ u \in Running
      BY <1>1, <3>1 DEF Running
    <3>q. QED BY <3>2, SoloSteps
  <2>2. CASE Step(t)
    <3>1. u \in Running
      BY <1>1, <2>2, StepRuns DEF Running
    <3>q. QED BY <3>1, SoloSteps
  <2>q. QED BY <2>1, <2>2
<1>3. CASE Calls(t)
  BY <1>2, <1>3 DEF Calls, BeginAlloc, BeginFree, BeginReset, Begin, Call
<1>4. CASE LoadCurrent(t)
  BY <1>2, <1>4 DEF LoadCurrent, bytes
<1>5. CASE Step(t) /\ ~ LoadCurrent(t)
  BY <1>2, <1>5 DEF Step, AddCurrent, AddAccumulated, AddNum, LoadPeak, UpdatePeak, Publish,
     SubCurrent, AddFreed, AddNumFrees, StorePeak, ClearAlloc, ClearFreed, ClearAllocs,
     ClearFrees, Goto, NextPool, Return, NoCall, Call
<1>q. QED BY <1>3, <1>4, <1>5

(* A call leaves the loop: what it reached is in peak_bytes. *)
LEMMA Settled ==
  ASSUME TypeOK, NEW t \in Threads, NEW q \in Pools, PeakOf(q), Pending(t, q),
         call'[t].op = "none", \A u \in Threads : u # t => call'[u] = call[u],
         UNCHANGED most,
         peak_bytes'[q] \in Int, peak_bytes[q] <= peak_bytes'[q],
         peak_bytes'[q] <= most[q],
         call[t].cur = most[q] => peak_bytes'[q] = most[q]
  PROVE  PeakOf(q)'
<1> USE DEF TypeOK, Records
<1>1. /\ \A u \in Threads : u # t => (Pending(u, q)' <=> Pending(u, q))
      /\ ~ Pending(t, q)'
  BY DEF Pending
<1>2. \A u \in Threads : Pending(u, q)' => call'[u].cur <= most'[q]
  BY <1>1 DEF PeakOf
<1>3. ASSUME NEW u \in Threads, Pending(u, q)', call'[u].step = "cas"
      PROVE  call'[u].prev <= peak_bytes'[q]
  <2>1. u # t /\ call'[u] = call[u] /\ call[u].prev <= peak_bytes[q]
    BY <1>1, <1>3 DEF PeakOf
  <2>2. call[u].prev \in Int /\ peak_bytes[q] \in Int
    OBVIOUS
  <2>q. QED BY <2>1, <2>2
<1>4. Reached(q)'
  <2>1. \A u \in Threads : u # t => (Pending(u, q) => Pending(u, q)' /\ call'[u] = call[u])
    BY <1>1
  <2>2. /\ peak_bytes[q] <= most[q] /\ peak_bytes[q] \in Int /\ most[q] \in Int
    BY DEF Reached, PeakOf
  <2>3. peak_bytes[q] = most[q] => peak_bytes'[q] = most[q]
    <3>1. \A a, b \in Int : a <= b /\ b <= a => a = b
      OBVIOUS
    <3>q. QED BY <2>2, <3>1
  <2>q. QED BY <2>1, <2>2, <2>3 DEF Reached, PeakOf
<1>q. QED BY <1>2, <1>3, <1>4 DEF PeakOf

(* The steps that reach or settle the mark of q. *)
LEMMA AddCurrentMark ==
  ASSUME TypeOK, TypeOK', NEW t \in Threads, AddCurrent(t), NEW q \in Pools,
         q = call[t].pool, PeakOf(q)
  PROVE  PeakOf(q)'
<1> DEFINE c == current_bytes[q] + call[t].size
<1> USE DEF TypeOK, Records, Pending, At
<1>1. /\ call'[t].op = "recordAlloc" /\ call'[t].pool = q
      /\ call'[t].cur = c /\ call'[t].step = "accumulated"
      /\ \A u \in Threads : u # t => call'[u] = call[u]
      /\ call[t].step = "current" /\ peak_bytes' = peak_bytes
      /\ most' = [most EXCEPT ![q] = Grown(@, c)]
  BY DEF AddCurrent
<1>2. /\ q \in Pools /\ c \in Int
      /\ c <= most'[q] /\ (most'[q] = c \/ most'[q] = most[q]) /\ most[q] <= most'[q]
  BY <1>1 DEF Grown
<1> HIDE DEF c
<1>5. /\ Pending(t, q)' /\ ~ Pending(t, q)
      /\ \A u \in Threads : u # t => (Pending(u, q)' <=> Pending(u, q))
  BY <1>1
<1>6. ASSUME NEW u \in Threads, Pending(u, q)' PROVE call'[u].cur <= most'[q]
  <2>1. CASE u = t
    BY <1>1, <1>2, <2>1
  <2>2. CASE u # t
    <3>1. call'[u] = call[u] /\ call[u].cur <= most[q]
      BY <1>1, <1>5, <1>6, <2>2 DEF PeakOf
    <3>2. call[u].cur \in Int /\ most[q] \in Int /\ most'[q] \in Int
      BY <1>2
    <3>q. QED BY <1>2, <3>1, <3>2
  <2>q. QED BY <2>1, <2>2
<1>7. ASSUME NEW u \in Threads, Pending(u, q)', call'[u].step = "cas"
      PROVE  call'[u].prev <= peak_bytes'[q]
  BY <1>1, <1>5, <1>7 DEF PeakOf
<1>8. Reached(q)'
  <2>1. peak_bytes'[q] <= most'[q]
    BY <1>1, <1>2 DEF PeakOf, Reached
  <2>2. CASE most'[q] = c
    BY <1>1, <1>5, <2>1, <2>2 DEF Reached
  <2>3. CASE most'[q] = most[q]
    <3>1. \A u \in Threads : Pending(u, q) => Pending(u, q)' /\ call'[u].cur = call[u].cur
      BY <1>1, <1>5
    <3>2. \/ peak_bytes[q] = most[q]
          \/ \E u \in Threads : Pending(u, q) /\ call[u].cur = most[q]
      BY DEF PeakOf, Reached
    <3>3. \/ peak_bytes'[q] = most'[q]
          \/ \E u \in Threads : Pending(u, q)' /\ call'[u].cur = most'[q]
      BY <1>1, <2>3, <3>1, <3>2
    <3>q. QED BY <2>1, <3>3 DEF Reached
  <2>q. QED BY <1>2, <2>2, <2>3
<1>q. QED BY <1>6, <1>7, <1>8 DEF PeakOf

LEMMA UpdatePeakMark ==
  ASSUME TypeOK, TypeOK', NEW t \in Threads, UpdatePeak(t), NEW q \in Pools,
         q = call[t].pool, PeakOf(q)
  PROVE  PeakOf(q)'
<1> USE DEF TypeOK, Records, At
<1>1. /\ At(t, "recordAlloc", "cas") /\ Pending(t, q)
      /\ call[t].prev <= peak_bytes[q] /\ call[t].cur <= most[q]
      /\ \A u \in Threads : u # t => call'[u] = call[u]
      /\ UNCHANGED most
  BY DEF UpdatePeak, Publish, Return, history, Pending, PeakOf
<1>2. /\ peak_bytes[q] <= most[q] /\ peak_bytes[q] \in Int /\ most[q] \in Int
      /\ call[t].cur \in Int /\ call[t].prev \in Int
  BY DEF PeakOf, Reached
<1>3. CASE call[t].cur <= call[t].prev /\ Publish(t) /\ UNCHANGED peak_bytes
  <2>1. call'[t].op = "none"
    BY <1>3 DEF Publish, Return, NoCall, Call
  <2>2. call[t].cur = most[q] => peak_bytes[q] = most[q]
    <3>1. \A a, b, c, d \in Int : a <= b /\ b <= c /\ c <= d /\ a = d => c = d
      OBVIOUS
    <3>2. call[t].cur <= call[t].prev /\ call[t].prev <= peak_bytes[q]
      BY <1>1, <1>3
    <3> HIDE DEF TypeOK, Records, At
    <3>q. QED BY <1>2, <3>1, <3>2
  <2>q. QED BY <1>1, <1>2, <1>3, <2>1, <2>2, Settled
<1>4. CASE /\ call[t].cur > call[t].prev /\ peak_bytes[q] = call[t].prev
           /\ peak_bytes' = [peak_bytes EXCEPT ![q] = call[t].cur] /\ Publish(t)
  <2>1. call'[t].op = "none"
    BY <1>4 DEF Publish, Return, NoCall, Call
  <2>2. peak_bytes'[q] = call[t].cur /\ peak_bytes[q] <= peak_bytes'[q]
    BY <1>2, <1>4
  <2>q. QED BY <1>1, <1>2, <2>1, <2>2, Settled
<1>5. CASE /\ call[t].cur > call[t].prev
           /\ call' = [call EXCEPT ![t].prev = peak_bytes[q]]
           /\ UNCHANGED <<peak_bytes, live>>
  <2>1. /\ call'[t].op = "recordAlloc" /\ call'[t].pool = q /\ call'[t].step = "cas"
        /\ call'[t].cur = call[t].cur /\ call'[t].prev = peak_bytes[q]
    BY <1>1, <1>5
  <2>2. Pending(t, q)' /\ peak_bytes'[q] = peak_bytes[q] /\ most'[q] = most[q]
    BY <1>1, <1>5, <2>1 DEF Pending
  <2>3. call'[t].prev <= peak_bytes[q]
    BY <1>2, <2>1
  <2> HIDE DEF TypeOK, Records, At
  <2>q. QED BY <1>1, <2>1, <2>2, <2>3, PeakKept
<1>q. QED BY <1>3, <1>4, <1>5 DEF UpdatePeak

LEMMA StorePeakMark ==
  ASSUME TypeOK, Alone, Stored, NEW t \in Threads, t \in solo, StorePeak(t),
         NEW q \in Pools, q = call[t].pool
  PROVE  PeakOf(q)'
<1> USE DEF TypeOK, Records, At
<1>1. call[t].cur = current_bytes[q] /\ call[t].op = "resetPeak"
  BY DEF StorePeak, Stored
<1>2. /\ peak_bytes'[q] = current_bytes[q] /\ most'[q] = current_bytes[q]
      /\ current_bytes[q] \in Int
  BY <1>1 DEF StorePeak
<1>3. \A u \in Threads : call'[u].op # "recordAlloc"
  <2>1. \A u \in Threads : u # t => call[u].op = "none"
    BY <1>1 DEF Alone, Running
  <2>q. QED BY <1>1, <2>1 DEF StorePeak, NextPool, Return, NoCall, Call
<1>4. \A u \in Threads : ~ Pending(u, q)'
  BY <1>3 DEF Pending
<1>q. QED BY <1>2, <1>4 DEF PeakOf, Reached

(* A step of another pool, or one that moves neither peak nor mark. *)
LEMMA OtherMark ==
  ASSUME TypeOK, TypeOK', NEW t \in Threads, Calls(t) \/ Step(t), NEW p \in Pools, PeakOf(p),
         AddCurrent(t) \/ UpdatePeak(t) \/ StorePeak(t) => p # call[t].pool
  PROVE  PeakOf(p)'
<1> USE DEF TypeOK, Records, Pending, At, bytes, history
<1>1. \A u \in Threads : u # t => call'[u] = call[u]
  BY OneCall
<1>2. CASE AddCurrent(t)
  <2>1. peak_bytes'[p] = peak_bytes[p] /\ most'[p] = most[p]
    BY <1>2 DEF AddCurrent
  <2>2. ~ Pending(t, p) /\ ~ Pending(t, p)'
    BY <1>2 DEF AddCurrent
  <2>q. QED BY <1>1, <2>1, <2>2, PeakKept
<1>3. CASE UpdatePeak(t)
  <2>1. peak_bytes'[p] = peak_bytes[p] /\ most'[p] = most[p]
    BY <1>3 DEF UpdatePeak, Publish
  <2>2. ~ Pending(t, p) /\ ~ Pending(t, p)'
    BY <1>3 DEF UpdatePeak, Publish, Return, NoCall, Call
  <2>q. QED BY <1>1, <2>1, <2>2, PeakKept
<1>4. CASE StorePeak(t)
  <2>1. peak_bytes'[p] = peak_bytes[p] /\ most'[p] = most[p]
    BY <1>4 DEF StorePeak
  <2>2. ~ Pending(t, p) /\ ~ Pending(t, p)'
    BY <1>4 DEF StorePeak, NextPool, Return, NoCall, Call
  <2>q. QED BY <1>1, <2>1, <2>2, PeakKept
<1>5. CASE ~ (AddCurrent(t) \/ UpdatePeak(t) \/ StorePeak(t))
  <2>1. UNCHANGED <<peak_bytes, most>>
    BY <1>5 DEF Calls, Step, BeginAlloc, BeginFree, BeginReset, Begin,
       AddAccumulated, AddNum, LoadPeak, SubCurrent, AddFreed, AddNumFrees, LoadCurrent,
       ClearAlloc, ClearFreed, ClearAllocs, ClearFrees
  <2>2. /\ Pending(t, p)' <=> Pending(t, p)
        /\ Pending(t, p) => call'[t].cur = call[t].cur
        /\ Pending(t, p)' /\ call'[t].step = "cas" => call'[t].prev <= peak_bytes[p]
    <3>1. CASE Calls(t)
      BY <3>1 DEF Calls, BeginAlloc, BeginFree, BeginReset, Begin, Call, Running
    <3>2. CASE AddAccumulated(t) \/ AddNum(t) \/ LoadPeak(t)
      BY <3>2 DEF AddAccumulated, AddNum, LoadPeak, Goto
    <3>3. CASE SubCurrent(t) \/ AddFreed(t) \/ AddNumFrees(t)
      BY <3>3 DEF SubCurrent, AddFreed, AddNumFrees, Goto, Return, NoCall, Call
    <3>4. CASE LoadCurrent(t) \/ ClearAlloc(t) \/ ClearFreed(t) \/ ClearAllocs(t) \/ ClearFrees(t)
      BY <3>4 DEF LoadCurrent, ClearAlloc, ClearFreed, ClearAllocs, ClearFrees, NextPool,
         Goto, Return, NoCall, Call
    <3>q. QED BY <1>5, <3>1, <3>2, <3>3, <3>4 DEF Step
  <2>q. QED BY <1>1, <2>1, <2>2, PeakKept
<1>q. QED BY <1>2, <1>3, <1>4, <1>5

LEMMA PeakStep == PeakInv /\ [Next]_vars => PeakInv'
<1> SUFFICES ASSUME PeakInv, [Next]_vars PROVE PeakInv' OBVIOUS
<1>1. TypeOK'
  BY TypeStep DEF PeakInv
<1>2. ASSUME NEW t \in Threads, Calls(t) \/ Step(t) PROVE PeakInv'
  <2>1. Alone' /\ Stored'
    BY <1>1, <1>2, AloneStep, StoredStep DEF PeakInv
  <2>2. ASSUME NEW p \in Pools, p \notin torn'["resetPeak"] PROVE PeakOf(p)'
    <3>1. CASE StorePeak(t) /\ p = call[t].pool
      <4>1. CASE t \in solo
        BY <3>1, <4>1, StorePeakMark DEF PeakInv
      <4>2. CASE t \notin solo
        <5>1. t \in Running \ solo /\ call[t].op = "resetPeak"
          BY <3>1, <4>2 DEF StorePeak, At, Running
        <5>2. torn["resetPeak"] = Pools
          BY <5>1 DEF PeakInv, Alone, Resets
        <5>3. torn' = torn
          BY <3>1, <4>2, StepOverlap DEF PeakInv, Step
        <5>q. QED BY <2>2, <5>2, <5>3
      <4>q. QED BY <4>1, <4>2
    <3>2. CASE ~ (StorePeak(t) /\ p = call[t].pool)
      <4>1. p \notin torn["resetPeak"]
        <5>1. CASE Calls(t)
          BY <2>2, <5>1, BeginOverlap DEF PeakInv, Resets
        <5>2. CASE Step(t)
          BY <2>2, <3>2, <5>2, StepOverlap DEF PeakInv, TypeOK, Resets
        <5>q. QED BY <1>2, <5>1, <5>2
      <4>2. PeakOf(p)
        BY <4>1 DEF PeakInv
      <4>3. CASE AddCurrent(t) /\ p = call[t].pool
        BY <1>1, <4>2, <4>3, AddCurrentMark DEF PeakInv
      <4>4. CASE UpdatePeak(t) /\ p = call[t].pool
        BY <1>1, <4>2, <4>4, UpdatePeakMark DEF PeakInv
      <4>q. QED BY <1>1, <1>2, <3>2, <4>2, <4>3, <4>4, OtherMark DEF PeakInv
    <3>q. QED BY <3>1, <3>2
  <2>q. QED BY <1>1, <2>1, <2>2 DEF PeakInv
<1>3. CASE UNCHANGED vars
  <2>1. UNCHANGED <<current_bytes, peak_bytes, most, call, torn, solo>>
    BY <1>3 DEF vars, bytes, history, overlap
  <2>2. Alone' /\ Stored'
    BY <2>1 DEF PeakInv, Alone, Stored, Running, At
  <2>3. \A p \in Pools : PeakOf(p) => PeakOf(p)'
    BY <2>1 DEF PeakOf, Reached, Pending
  <2>q. QED BY <1>1, <2>1, <2>2, <2>3 DEF PeakInv
<1>q. QED BY <1>2, <1>3 DEF Next

(* peak_bytes is the most bytes in use since the last reset, but for       *)
(* allocations still in the loop: no schedule of the compare-and-swap      *)
(* loops loses a peak, and a reset that overlaps no other call mends what  *)
(* an overlapping one has spoilt.                                          *)
THEOREM PeakExactHolds == Spec => []PeakExact
<1>1. PeakInv => PeakExact
  <2> SUFFICES ASSUME PeakInv PROVE PeakExact OBVIOUS
  <2>1. \A t \in Threads, p \in Pools : Pending(t, p) =>
          t \in Running /\ call[t].op = "recordAlloc" /\ call[t].pool = p
    BY DEF Pending, Running
  <2>q. QED BY <2>1 DEF PeakInv, PeakOf, Reached, PeakExact
<1>2. PeakInv /\ [Next]_vars => PeakInv'
  BY PeakStep
<1>q. QED BY <1>1, <1>2, PeakInit, PTL DEF Spec

-----------------------------------------------------------------------------
(* The counters *)

(* What the call of t has added to a counter of pool p and not yet to the  *)
(* live allocations, or taken from these and not yet from the counter: an  *)
(* allocation at a step of as, or a free at a step of fs, counts for n.    *)
Due(t, p, as, fs, n) ==
  IF /\ call[t].pool = p
     /\ \/ call[t].op = "recordAlloc" /\ call[t].step \in as
        \/ call[t].op = "recordFree" /\ call[t].step \in fs
  THEN n ELSE 0

CurrentDue(t, p) == Due(t, p, {"accumulated", "num", "load", "cas"}, {"current"}, call[t].size)
NetDue(t, p) == Due(t, p, {"num", "load", "cas"}, {"current", "accumulated"}, call[t].size)
NumDue(t, p) == Due(t, p, {"load", "cas"}, {"current", "accumulated", "num"}, 1)

CurrentOwed(p) == [t \in Threads |-> CurrentDue(t, p)]
NetOwed(p) == [t \in Threads |-> NetDue(t, p)]
NumOwed(p) == [t \in Threads |-> NumDue(t, p)]

LiveSizes(p) == [n \in Sizes |-> n * live[p][n]]

Calling == \A t \in Threads :
  /\ call[t].op \in {"recordAlloc", "recordFree"} => call[t].size \in Sizes
  /\ call[t].op = "recordAlloc" => call[t].step \in {"current", "accumulated", "num", "load", "cas"}
  /\ call[t].op = "recordFree" => call[t].step \in {"current", "accumulated", "num"}
  /\ call[t].op = "resetPeak" => call[t].step \in {"load", "store"}
  /\ call[t].op = "resetAccumulated" => call[t].step \in {"alloc", "freed", "allocs", "frees"}

CounterTypes ==
  /\ live \in [Pools -> [Sizes -> Nat]]
  /\ accumulated_alloc \in [Pools -> Int] /\ accumulated_freed \in [Pools -> Int]
  /\ num_allocs \in [Pools -> Int] /\ num_frees \in [Pools -> Int]
  /\ base \in [Pools -> [bytes : Int, count : Int]]
  /\ most_total \in Int

CurrentIs(p) == current_bytes[p] = Total(LiveSizes(p)) + Total(CurrentOwed(p))
NetIs(p) == accumulated_alloc[p] - accumulated_freed[p]
              = Total(LiveSizes(p)) - base[p].bytes + Total(NetOwed(p))
NumIs(p) == num_allocs[p] - num_frees[p] = Total(live[p]) - base[p].count + Total(NumOwed(p))

(* resetAccumulated has cleared some of the counters of p, not yet all: if *)
(* it is alone, those stay cleared.                                        *)
Clearing(t, p) ==
  call[t].op = "resetAccumulated" /\ call[t].pool = p /\ call[t].step # "alloc"
Cleared == \A t \in solo, p \in Pools : Clearing(t, p) =>
  /\ accumulated_alloc[p] = 0
  /\ call[t].step \in {"allocs", "frees"} => accumulated_freed[p] = 0
  /\ call[t].step = "frees" => num_allocs[p] = 0
Counted == \A p \in Pools :
  /\ CurrentIs(p)
  /\ \/ p \in torn["resetAccumulated"]
     \/ \E t \in Threads : Clearing(t, p)
     \/ NetIs(p) /\ NumIs(p)

CounterInv == TypeOK /\ Alone /\ Calling /\ CounterTypes /\ Cleared /\ Counted

LEMMA DueNat ==
  ASSUME TypeOK, NEW t \in Threads, NEW p
  PROVE  CurrentDue(t, p) \in Nat /\ NetDue(t, p) \in Nat /\ NumDue(t, p) \in Nat
<1>1. call[t].size \in Nat
  BY DEF TypeOK, Records
<1>q. QED BY <1>1 DEF CurrentDue, NetDue, NumDue, Due

LEMMA OwedFinite ==
  ASSUME TypeOK, NEW p
  PROVE  IsFiniteMap(CurrentOwed(p)) /\ IsFiniteMap(NetOwed(p)) /\ IsFiniteMap(NumOwed(p))
  BY DueNat, StatsAssumption DEF IsFiniteMap, CurrentOwed, NetOwed, NumOwed

(* A step of t changes what t owes and nothing else. *)
LEMMA OwedStep ==
  ASSUME TypeOK, TypeOK', NEW t \in Threads, NEW p,
         \A u \in Threads : u # t => call'[u] = call[u]
  PROVE  /\ Total(CurrentOwed(p))' = Total(CurrentOwed(p)) - CurrentDue(t, p) + CurrentDue(t, p)'
         /\ Total(NetOwed(p))' = Total(NetOwed(p)) - NetDue(t, p) + NetDue(t, p)'
         /\ Total(NumOwed(p))' = Total(NumOwed(p)) - NumDue(t, p) + NumDue(t, p)'
<1> DEFINE f1 == CurrentOwed(p)
           g1 == [u \in Threads |-> CurrentDue(u, p)']
           f2 == NetOwed(p)
           g2 == [u \in Threads |-> NetDue(u, p)']
           f3 == NumOwed(p)
           g3 == [u \in Threads |-> NumDue(u, p)']
<1>1. \A u \in Threads : u # t =>
        /\ CurrentDue(u, p)' = CurrentDue(u, p)
        /\ NetDue(u, p)' = NetDue(u, p) /\ NumDue(u, p)' = NumDue(u, p)
  BY DEF CurrentDue, NetDue, NumDue, Due
<1>2. CurrentDue(t, p)' \in Nat /\ NetDue(t, p)' \in Nat /\ NumDue(t, p)' \in Nat
  <2>1. call'[t].size \in Nat
    BY DEF TypeOK, Records
  <2>q. QED BY <2>1 DEF CurrentDue, NetDue, NumDue, Due
<1>3. CurrentOwed(p)' = g1 /\ NetOwed(p)' = g2 /\ NumOwed(p)' = g3
  BY DEF CurrentOwed, NetOwed, NumOwed
<1>4. /\ DOMAIN f1 = Threads /\ DOMAIN g1 = Threads /\ f1[t] = CurrentDue(t, p) /\ g1[t] = CurrentDue(t, p)'
      /\ DOMAIN f2 = Threads /\ DOMAIN g2 = Threads /\ f2[t] = NetDue(t, p) /\ g2[t] = NetDue(t, p)'
      /\ DOMAIN f3 = Threads /\ DOMAIN g3 = Threads /\ f3[t] = NumDue(t, p) /\ g3[t] = NumDue(t, p)'
      /\ \A u \in Threads : u # t => g1[u] = f1[u] /\ g2[u] = f2[u] /\ g3[u] = f3[u]
  BY <1>1 DEF CurrentOwed, NetOwed, NumOwed
<1>5. IsFiniteMap(f1) /\ IsFiniteMap(f2) /\ IsFiniteMap(f3)
  BY OwedFinite
<1> HIDE DEF f1, g1, f2, g2, f3, g3
<1>6. Total(g1) = Total(f1) - f1[t] + g1[t]
  BY <1>2, <1>4, <1>5, TotalChange
<1>7. Total(g2) = Total(f2) - f2[t] + g2[t]
  BY <1>2, <1>4, <1>5, TotalChange
<1>8. Total(g3) = Total(f3) - f3[t] + g3[t]
  BY <1>2, <1>4, <1>5, TotalChange
<1>q. QED BY <1>3, <1>4, <1>6, <1>7, <1>8 DEF f1, f2, f3

LEMMA LiveFinite ==
  ASSUME CounterTypes, NEW p \in Pools
  PROVE  IsFiniteMap(LiveSizes(p)) /\ IsFiniteMap(live[p])
<1>1. \A n \in Sizes : n \in Nat /\ live[p][n] \in Nat /\ n * live[p][n] \in Nat
  BY StatsAssumption DEF CounterTypes
<1>2. DOMAIN live[p] = Sizes
  BY DEF CounterTypes
<1>q. QED BY <1>1, <1>2, StatsAssumption DEF IsFiniteMap, LiveSizes

(* An allocation of n bytes of pool q more, or fewer, is live. *)
LEMMA LiveStep ==
  ASSUME CounterTypes, NEW q \in Pools, NEW n \in Sizes, NEW d \in {1, -1},
         live' \in [Pools -> [Sizes -> Nat]], live'[q][n] = live[q][n] + d,
         \A m \in Sizes : m # n => live'[q][m] = live[q][m],
         \A p \in Pools : p # q => live'[p] = live[p]
  PROVE  \A p \in Pools :
           /\ Total(LiveSizes(p))' = Total(LiveSizes(p)) + (IF p = q THEN n * d ELSE 0)
           /\ Total(live[p])' = Total(live[p]) + (IF p = q THEN d ELSE 0)
<1> DEFINE g == LiveSizes(q)'
           f == LiveSizes(q)
           b == live'[q]
           a == live[q]
<1>1. \A p \in Pools : p # q => live'[p] = live[p] /\ LiveSizes(p)' = LiveSizes(p)
  BY DEF CounterTypes, LiveSizes
<1>2. /\ DOMAIN a = Sizes /\ DOMAIN b = Sizes /\ b[n] = a[n] + d /\ a[n] \in Nat /\ b[n] \in Nat
      /\ \A m \in Sizes : m # n => b[m] = a[m]
  BY DEF CounterTypes
<1>3. /\ DOMAIN f = Sizes /\ DOMAIN g = Sizes
      /\ \A m \in Sizes : f[m] = m * a[m] /\ g[m] = m * b[m]
  BY DEF LiveSizes
<1>4. n \in Nat /\ n \in Sizes
  BY StatsAssumption
<1>5. IsFiniteMap(f) /\ IsFiniteMap(a)
  BY LiveFinite
<1> HIDE DEF f, g, a, b
<1>6. Total(b) = Total(a) - a[n] + b[n]
  <2>1. n \in DOMAIN a /\ DOMAIN b = DOMAIN a /\ b[n] \in Nat
    BY <1>2, <1>4
  <2>2. \A m \in DOMAIN a : m # n => b[m] = a[m]
    BY <1>2
  <2>q. QED BY <1>5, <2>1, <2>2, TotalChange
<1>7. Total(g) = Total(f) - f[n] + g[n]
  <2>1. g[n] \in Nat
    <3>1. g[n] = n * b[n]
      BY <1>3, <1>4
    <3>2. \A x, y \in Nat : x * y \in Nat
      OBVIOUS
    <3>q. QED BY <1>2, <1>4, <3>1, <3>2
  <2>2. \A m \in DOMAIN f : m # n => g[m] = f[m]
    BY <1>2, <1>3
  <2>3. n \in DOMAIN f /\ DOMAIN g = DOMAIN f
    BY <1>3, <1>4
  <2>q. QED BY <1>5, <2>1, <2>2, <2>3, TotalChange
<1>8. g[n] = f[n] + n * d
  <2>1. f[n] = n * a[n] /\ g[n] = n * (a[n] + d)
    BY <1>2, <1>3, <1>4
  <2>2. \A x, y \in Nat : x * (y + 1) = x * y + x * 1 /\ x * (y + (-1)) = x * y + x * (-1)
    OBVIOUS
  <2>q. QED BY <1>2, <1>4, <2>1, <2>2
<1>9. Total(f) \in Nat /\ Total(a) \in Nat /\ f[n] \in Nat /\ g[n] \in Nat
  <2>1. Total(f) \in Nat /\ Total(a) \in Nat
    BY <1>5, TotalNat
  <2>2. \A x, y \in Nat : x * y \in Nat
    OBVIOUS
  <2>3. f[n] = n * a[n] /\ g[n] = n * b[n]
    BY <1>3, <1>4
  <2>q. QED BY <1>2, <1>4, <2>1, <2>2, <2>3
<1>10. Total(g) = Total(f) + n * d
  BY <1>4, <1>7, <1>8, <1>9
<1>11. Total(b) = Total(a) + d
  BY <1>2, <1>6, <1>9
<1>12. \A p \in Pools : p # q =>
         /\ Total(LiveSizes(p))' = Total(LiveSizes(p)) + 0
         /\ Total(live[p])' = Total(live[p]) + 0
  <2>1. \A p \in Pools : Total(LiveSizes(p)) \in Nat /\ Total(live[p]) \in Nat
    BY LiveFinite, TotalNat
  <2>2. \A p \in Pools : p # q =>
          Total(LiveSizes(p))' = Total(LiveSizes(p)) /\ Total(live[p])' = Total(live[p])
    BY <1>1
  <2>q. QED BY <2>1, <2>2
<1>13. /\ Total(LiveSizes(q))' = Total(g) /\ Total(LiveSizes(q)) = Total(f)
       /\ Total(live[q])' = Total(b) /\ Total(live[q]) = Total(a)
  BY DEF f, g, a, b
<1>q. QED BY <1>10, <1>11, <1>12, <1>13

(* What an access must leave true of its pool's counters, from what it     *)
(* changes in them, in the live allocations and in what t owes.            *)
LEMMA Balance ==
  ASSUME CounterInv, TypeOK', CounterTypes', NEW t \in Threads,
         \A u \in Threads : u # t => call'[u] = call[u], NEW p \in Pools,
         NEW d \in Int, Total(LiveSizes(p))' = Total(LiveSizes(p)) + d
  PROVE  /\ current_bytes'[p] - current_bytes[p] = d + CurrentDue(t, p)' - CurrentDue(t, p)
              => CurrentIs(p)'
         /\ /\ NetIs(p)
            /\ UNCHANGED base
            /\ (accumulated_alloc'[p] - accumulated_freed'[p])
                 - (accumulated_alloc[p] - accumulated_freed[p])
                 = d + NetDue(t, p)' - NetDue(t, p)
            => NetIs(p)'
<1>1. /\ Total(CurrentOwed(p)) \in Nat /\ Total(NetOwed(p)) \in Nat
      /\ Total(LiveSizes(p)) \in Nat
  BY OwedFinite, LiveFinite, TotalNat DEF CounterInv
<1>2. /\ Total(CurrentOwed(p))' = Total(CurrentOwed(p)) - CurrentDue(t, p) + CurrentDue(t, p)'
      /\ Total(NetOwed(p))' = Total(NetOwed(p)) - NetDue(t, p) + NetDue(t, p)'
  BY OwedStep DEF CounterInv
<1>3. CurrentDue(t, p) \in Nat /\ NetDue(t, p) \in Nat
  BY DueNat DEF CounterInv
<1>4. CurrentDue(t, p)' \in Nat /\ NetDue(t, p)' \in Nat
  <2>1. call'[t].size \in Nat
    BY DEF TypeOK, Records
  <2>q. QED BY <2>1 DEF CurrentDue, NetDue, Due
<1>5. /\ current_bytes[p] \in Int /\ current_bytes'[p] \in Int
      /\ accumulated_alloc[p] \in Int /\ accumulated_alloc'[p] \in Int
      /\ accumulated_freed[p] \in Int /\ accumulated_freed'[p] \in Int
      /\ base[p].bytes \in Int
  BY DEF CounterInv, TypeOK, CounterTypes
<1>6. CurrentIs(p)
  BY DEF CounterInv, Counted
<1>7. ASSUME current_bytes'[p] - current_bytes[p] = d + CurrentDue(t, p)' - CurrentDue(t, p)
      PROVE  CurrentIs(p)'
  <2>1. current_bytes[p] = Total(LiveSizes(p)) + Total(CurrentOwed(p))
    BY <1>6 DEF CurrentIs
  <2>2. current_bytes'[p] = Total(LiveSizes(p))' + Total(CurrentOwed(p))'
    <3>1. current_bytes'[p] = current_bytes[p] + d + CurrentDue(t, p)' - CurrentDue(t, p)
      <4>1. \A a, b, c, e, f \in Int : a - b = c + e - f => a = b + c + e - f
        OBVIOUS
      <4>2. /\ current_bytes[p] \in Int /\ current_bytes'[p] \in Int
            /\ CurrentDue(t, p) \in Int /\ CurrentDue(t, p)' \in Int
        BY <1>3, <1>4, <1>5
      <4>q. QED BY <1>7, <4>1, <4>2
    <3>2. current_bytes'[p]
            = (Total(LiveSizes(p)) + d) + (Total(CurrentOwed(p)) - CurrentDue(t, p) + CurrentDue(t, p)')
      BY <1>1, <1>3, <1>4, <2>1, <3>1
    <3>q. QED BY <1>2, <3>2
  <2>q. QED BY <2>2 DEF CurrentIs
<1>8. ASSUME NetIs(p), UNCHANGED base,
             (accumulated_alloc'[p] - accumulated_freed'[p])
               - (accumulated_alloc[p] - accumulated_freed[p])
               = d + NetDue(t, p)' - NetDue(t, p)
      PROVE  NetIs(p)'
  <2>1. accumulated_alloc[p] - accumulated_freed[p]
          = Total(LiveSizes(p)) - base[p].bytes + Total(NetOwed(p))
    BY <1>8 DEF NetIs
  <2>2. accumulated_alloc'[p] - accumulated_freed'[p]
          = Total(LiveSizes(p))' - base[p].bytes + Total(NetOwed(p))'
    BY <1>1, <1>2, <1>3, <1>4, <1>5, <1>8, <2>1
  <2>q. QED BY <1>8, <2>2 DEF NetIs
<1>q. QED BY <1>7, <1>8

LEMMA BalanceNum ==
  ASSUME CounterInv, TypeOK', CounterTypes', NEW t \in Threads,
         \A u \in Threads : u # t => call'[u] = call[u], NEW p \in Pools,
         NEW d \in Int, Total(live[p])' = Total(live[p]) + d,
         NumIs(p), UNCHANGED base,
         (num_allocs'[p] - num_frees'[p]) - (num_allocs[p] - num_frees[p])
           = d + NumDue(t, p)' - NumDue(t, p)
  PROVE  NumIs(p)'
<1>1. Total(NumOwed(p)) \in Nat /\ Total(live[p]) \in Nat
  BY OwedFinite, LiveFinite, TotalNat DEF CounterInv
<1>2. Total(NumOwed(p))' = Total(NumOwed(p)) - NumDue(t, p) + NumDue(t, p)'
  BY OwedStep DEF CounterInv
<1>3. NumDue(t, p) \in Nat /\ NumDue(t, p)' \in Nat
  BY DEF NumDue, Due
<1>4. /\ num_allocs[p] \in Int /\ num_allocs'[p] \in Int
      /\ num_frees[p] \in Int /\ num_frees'[p] \in Int /\ base[p].count \in Int
  BY DEF CounterInv, CounterTypes
<1>5. num_allocs[p] - num_frees[p] = Total(live[p]) - base[p].count + Total(NumOwed(p))
  BY DEF NumIs
<1>6. num_allocs'[p] - num_frees'[p] = Total(live[p])' - base[p].count + Total(NumOwed(p))'
  BY <1>1, <1>2, <1>3, <1>4, <1>5
<1>q. QED BY <1>6 DEF NumIs

LEMMA CounterTypesStep ==
  ASSUME CounterInv, NEW t \in Threads, Calls(t) \/ Step(t)
  PROVE  CounterTypes'
<1> USE DEF CounterTypes, Advance, Pools
<1>1. /\ current_bytes["small"] \in Int /\ current_bytes["large"] \in Int
      /\ call[t].size \in Nat /\ call[t].pool \in Pools
  BY DEF CounterInv, TypeOK, Records
<1>2. CASE Calls(t)
  <2>1. live' \in [Pools -> [Sizes -> Nat]]
    <3>1. ASSUME NEW p \in Pools, NEW n \in Sizes, BeginFree(t, p, n)
          PROVE  live' \in [Pools -> [Sizes -> Nat]]
      <4>1. live[p][n] - 1 \in Nat /\ live' = [live EXCEPT ![p][n] = @ - 1]
        BY <3>1 DEF CounterInv, BeginFree
      <4>q. QED BY <4>1 DEF CounterInv
    <3>q. QED BY <1>2, <3>1 DEF CounterInv, Calls, BeginAlloc, BeginReset
  <2>2. UNCHANGED <<accumulated, history>>
    BY <1>2 DEF Calls, BeginAlloc, BeginFree, BeginReset
  <2>q. QED BY <2>1, <2>2 DEF accumulated, history, CounterInv
<1>3. CASE AddCurrent(t)
  <2>1. most_total' \in Int
    BY <1>1, <1>3 DEF CounterInv, AddCurrent, Grown, Both
  <2>q. QED BY <1>3, <2>1 DEF CounterInv, AddCurrent, accumulated
<1>4. CASE AddAccumulated(t)
  BY <1>1, <1>4 DEF CounterInv, AddAccumulated, history
<1>5. CASE AddNum(t)
  BY <1>1, <1>5 DEF CounterInv, AddNum, history
<1>6. CASE LoadPeak(t) \/ LoadCurrent(t) \/ SubCurrent(t)
  BY <1>6 DEF CounterInv, LoadPeak, LoadCurrent, SubCurrent, accumulated, history
<1>7. CASE UpdatePeak(t)
  <2>1. call[t].size \in Sizes
    BY <1>7 DEF CounterInv, Calling, UpdatePeak, At
  <2>2. live[call[t].pool][call[t].size] + 1 \in Nat
    BY <1>1, <2>1 DEF CounterInv
  <2>3. live' \in [Pools -> [Sizes -> Nat]]
    BY <1>1, <1>7, <2>1, <2>2 DEF CounterInv, UpdatePeak, Publish
  <2>q. QED BY <1>7, <2>3 DEF CounterInv, UpdatePeak, accumulated, history
<1>8. CASE AddFreed(t)
  BY <1>1, <1>8 DEF CounterInv, AddFreed, history
<1>9. CASE AddNumFrees(t)
  BY <1>1, <1>9 DEF CounterInv, AddNumFrees, history
<1>10. CASE StorePeak(t)
  BY <1>1, <1>10 DEF CounterInv, StorePeak, Both, accumulated
<1>11. CASE ClearAlloc(t) \/ ClearFreed(t) \/ ClearAllocs(t)
  BY <1>11 DEF CounterInv, ClearAlloc, ClearFreed, ClearAllocs, history
<1>12. CASE ClearFrees(t)
  <2>1. \A p \in Pools : Total(LiveSizes(p)) \in Nat /\ Total(live[p]) \in Nat
    BY LiveFinite, TotalNat DEF CounterInv
  <2>2. LiveBytes(call[t].pool) \in Int /\ LiveCount(call[t].pool) \in Int
    BY <1>1, <2>1 DEF LiveBytes, LiveCount, LiveSizes
  <2>3. base' \in [Pools -> [bytes : Int, count : Int]]
    BY <1>1, <1>12, <2>2 DEF CounterInv, ClearFrees
  <2>4. num_frees' \in [Pools -> Int]
    BY <1>1, <1>12 DEF CounterInv, ClearFrees
  <2>q. QED BY <1>12, <2>3, <2>4 DEF CounterInv, ClearFrees
<1>q. QED BY <1>2, <1>3, <1>4, <1>5, <1>6, <1>7, <1>8, <1>9, <1>10, <1>11, <1>12 DEF Step

LEMMA CallingStep ==
  ASSUME CounterInv, NEW t \in Threads, Calls(t) \/ Step(t)
  PROVE  Calling'
<1> USE DEF Calling, At
<1>1. \A u \in Threads : u # t => call'[u] = call[u]
  BY OneCall DEF CounterInv
<1> DEFINE Good(c) ==
      /\ c.op \in {"recordAlloc", "recordFree"} => c.size \in Sizes
      /\ c.op = "recordAlloc" => c.step \in {"current", "accumulated", "num", "load", "cas"}
      /\ c.op = "recordFree" => c.step \in {"current", "accumulated", "num"}
      /\ c.op = "resetPeak" => c.step \in {"load", "store"}
      /\ c.op = "resetAccumulated" => c.step \in {"alloc", "freed", "allocs", "frees"}
<1>2. Good(call'[t])
  <2>1. call \in [Threads -> Records] /\ Good(call[t])
    BY DEF CounterInv, TypeOK
  <2> USE DEF Records
  <2>2. CASE Calls(t)
    BY <2>1, <2>2 DEF Calls, BeginAlloc, BeginFree, BeginReset, Begin, Call
  <2>3. CASE AddCurrent(t) \/ AddAccumulated(t) \/ AddNum(t) \/ LoadPeak(t)
    BY <2>1, <2>3 DEF AddCurrent, AddAccumulated, AddNum, LoadPeak, Goto
  <2>4. CASE UpdatePeak(t)
    BY <2>1, <2>4 DEF UpdatePeak, Publish, Return, NoCall, Call
  <2>5. CASE SubCurrent(t) \/ AddFreed(t) \/ AddNumFrees(t)
    BY <2>1, <2>5 DEF SubCurrent, AddFreed, AddNumFrees, Goto, Return, NoCall, Call
  <2>6. CASE LoadCurrent(t) \/ StorePeak(t)
    BY <2>1, <2>6 DEF LoadCurrent, StorePeak, NextPool, Return, NoCall, Call
  <2>7. CASE ClearAlloc(t) \/ ClearFreed(t) \/ ClearAllocs(t) \/ ClearFrees(t)
    BY <2>1, <2>7 DEF ClearAlloc, ClearFreed, ClearAllocs, ClearFrees, Goto, NextPool, Return,
       NoCall, Call
  <2>q. QED BY <2>2, <2>3, <2>4, <2>5, <2>6, <2>7 DEF Step
<1>q. QED BY <1>1, <1>2 DEF CounterInv

LEMMA LiveKept ==
  ASSUME CounterTypes, UNCHANGED live
  PROVE  \A p \in Pools : /\ Total(LiveSizes(p))' = Total(LiveSizes(p)) + 0
                          /\ Total(live[p])' = Total(live[p]) + 0
<1>1. \A p \in Pools : Total(LiveSizes(p)) \in Nat /\ Total(live[p]) \in Nat
  BY LiveFinite, TotalNat
<1>2. \A p \in Pools : Total(LiveSizes(p))' = Total(LiveSizes(p)) /\ Total(live[p])' = Total(live[p])
  BY DEF LiveSizes
<1>q. QED BY <1>1, <1>2

(* Every counter of p moves by what the live allocations of p move, d      *)
(* bytes and c allocations, and by what t owes.                            *)
CurrentMoves(t, p, d) ==
  current_bytes'[p] - current_bytes[p] = d + CurrentDue(t, p)' - CurrentDue(t, p)
OthersMove(t, p, d, c) ==
  /\ (accumulated_alloc'[p] - accumulated_freed'[p])
       - (accumulated_alloc[p] - accumulated_freed[p])
       = d + NetDue(t, p)' - NetDue(t, p)
  /\ (num_allocs'[p] - num_frees'[p]) - (num_allocs[p] - num_frees[p])
       = c + NumDue(t, p)' - NumDue(t, p)

LEMMA CountedMoves ==
  ASSUME CounterInv, NEW t \in Threads, Calls(t) \/ Step(t),
         TypeOK', CounterTypes', NEW p \in Pools, NEW d \in Int, NEW c \in Int,
         p \in torn["resetAccumulated"] => p \in torn'["resetAccumulated"],
         Total(LiveSizes(p))' = Total(LiveSizes(p)) + d,
         Total(live[p])' = Total(live[p]) + c,
         CurrentMoves(t, p, d),
         \/ Clearing(t, p)'
         \/ /\ ~ Clearing(t, p)
            /\ OthersMove(t, p, d, c)
            /\ UNCHANGED base
  PROVE  /\ CurrentIs(p)'
         /\ \/ p \in torn'["resetAccumulated"]
            \/ (\E u \in Threads : Clearing(u, p))'
            \/ NetIs(p)' /\ NumIs(p)'
<1>1. \A u \in Threads : u # t => call'[u] = call[u]
  BY OneCall DEF CounterInv
<1>2. CurrentIs(p)'
  BY <1>1, Balance DEF CurrentMoves
<1>3. CASE Clearing(t, p)'
  BY <1>2, <1>3
<1>4. CASE ~ Clearing(t, p) /\ OthersMove(t, p, d, c) /\ UNCHANGED base
  <2>1. CASE p \in torn["resetAccumulated"]
    BY <1>2, <2>1
  <2>2. CASE \E u \in Threads : Clearing(u, p)
    <3>1. PICK u \in Threads : Clearing(u, p)
      BY <2>2
    <3>2. Clearing(u, p)'
      BY <1>1, <1>4, <3>1 DEF Clearing
    <3>q. QED BY <1>2, <3>2
  <2>3. CASE NetIs(p) /\ NumIs(p)
    <3>1. NetIs(p)'
      BY <1>1, <1>4, <2>3, Balance DEF OthersMove
    <3>2. NumIs(p)'
      BY <1>1, <1>4, <2>3, BalanceNum DEF OthersMove
    <3>q. QED BY <1>2, <3>1, <3>2
  <2>q. QED BY <2>1, <2>2, <2>3 DEF CounterInv, Counted
<1>q. QED BY <1>3, <1>4

(* An access to a counter while nothing else of these changes. *)
LEMMA CountedAccess ==
  ASSUME CounterInv, NEW t \in Threads, NEW p \in Pools,
         \/ AddCurrent(t) \/ AddAccumulated(t) \/ AddNum(t) \/ LoadPeak(t)
         \/ SubCurrent(t) \/ AddFreed(t) \/ AddNumFrees(t) \/ LoadCurrent(t) \/ StorePeak(t)
  PROVE  /\ UNCHANGED <<live, base>> /\ ~ Clearing(t, p)
         /\ CurrentMoves(t, p, 0) /\ OthersMove(t, p, 0, 0)
<1> USE DEF At, Clearing, CurrentMoves, OthersMove, CurrentDue, NetDue, NumDue, Due
<1>1. /\ call \in [Threads -> Records]
      /\ call[t].size \in Nat /\ call[t].pool \in Pools
      /\ current_bytes \in [Pools -> Int]
      /\ current_bytes[p] \in Int
      /\ accumulated_alloc \in [Pools -> Int] /\ accumulated_freed \in [Pools -> Int]
      /\ accumulated_alloc[p] \in Int /\ accumulated_freed[p] \in Int
      /\ num_allocs \in [Pools -> Int] /\ num_frees \in [Pools -> Int]
      /\ num_allocs[p] \in Int /\ num_frees[p] \in Int
  BY DEF CounterInv, TypeOK, Records, CounterTypes
<1>2. CASE AddCurrent(t)
  BY <1>1, <1>2 DEF AddCurrent, Advance, accumulated, Records
<1>3. CASE AddAccumulated(t)
  BY <1>1, <1>3 DEF AddAccumulated, Advance, Goto, bytes, history, Records
<1>4. CASE AddNum(t)
  BY <1>1, <1>4 DEF AddNum, Advance, Goto, bytes, history, Records
<1>5. CASE LoadPeak(t)
  BY <1>1, <1>5 DEF LoadPeak, bytes, accumulated, history, Records
<1>6. CASE SubCurrent(t)
  BY <1>1, <1>6 DEF SubCurrent, Advance, Goto, accumulated, history, Records
<1>7. CASE AddFreed(t)
  BY <1>1, <1>7 DEF AddFreed, Advance, Goto, bytes, history, Records
<1>8. CASE AddNumFrees(t)
  BY <1>1, <1>8 DEF AddNumFrees, Advance, Return, NoCall, Call, bytes, history, Records
<1>9. CASE LoadCurrent(t)
  BY <1>1, <1>9 DEF LoadCurrent, bytes, accumulated, history, Records
<1>10. CASE StorePeak(t)
  BY <1>1, <1>10 DEF StorePeak, NextPool, Return, NoCall, Call, accumulated, Records
<1>q. QED BY <1>2, <1>3, <1>4, <1>5, <1>6, <1>7, <1>8, <1>9, <1>10

(* A call begins or ends, which may change what is live. *)
LEMMA CountedCall ==
  ASSUME CounterInv, TypeOK', CounterTypes', NEW t \in Threads, NEW p \in Pools,
         Calls(t) \/ UpdatePeak(t)
  PROVE  /\ UNCHANGED base /\ ~ Clearing(t, p)
         /\ \E d, c \in Int :
              /\ Total(LiveSizes(p))' = Total(LiveSizes(p)) + d
              /\ Total(live[p])' = Total(live[p]) + c
              /\ CurrentMoves(t, p, d) /\ OthersMove(t, p, d, c)
<1> DEFINE Moves(d, c) ==
      /\ Total(LiveSizes(p))' = Total(LiveSizes(p)) + d
      /\ Total(live[p])' = Total(live[p]) + c
      /\ CurrentMoves(t, p, d) /\ OthersMove(t, p, d, c)
<1> USE DEF At, CurrentDue, NetDue, NumDue, Due
<1>1. /\ call \in [Threads -> Records]
      /\ call[t].size \in Nat /\ call[t].pool \in Pools
      /\ current_bytes[p] \in Int
      /\ accumulated_alloc[p] \in Int /\ accumulated_freed[p] \in Int
      /\ num_allocs[p] \in Int /\ num_frees[p] \in Int
      /\ live \in [Pools -> [Sizes -> Nat]]
      /\ Sizes \in SUBSET Nat
  BY StatsAssumption DEF CounterInv, TypeOK, Records, CounterTypes
<1>2. UNCHANGED <<current_bytes, accumulated_alloc, accumulated_freed, num_allocs, num_frees, base>>
      /\ ~ Clearing(t, p)
  BY DEF Calls, BeginAlloc, BeginFree, BeginReset, Begin, Running, UpdatePeak, Clearing,
     bytes, accumulated, history
<1>3. ASSUME UNCHANGED live, UNCHANGED <<CurrentDue(t, p), NetDue(t, p), NumDue(t, p)>>
      PROVE  Moves(0, 0)
  <2>1. CurrentDue(t, p) \in Nat /\ NetDue(t, p) \in Nat /\ NumDue(t, p) \in Nat
    BY <1>1
  <2>2. /\ Total(LiveSizes(p))' = Total(LiveSizes(p)) + 0
        /\ Total(live[p])' = Total(live[p]) + 0
    BY <1>3, LiveKept DEF CounterInv
  <2>q. QED BY <1>1, <1>2, <1>3, <2>1, <2>2 DEF CurrentMoves, OthersMove
<1>4. CASE \E q \in Pools, n \in Sizes : BeginAlloc(t, q, n)
  <2>1. CurrentDue(t, p)' = 0 /\ NetDue(t, p)' = 0 /\ NumDue(t, p)' = 0 /\ live' = live
    BY <1>1, <1>4 DEF BeginAlloc, Begin, Call
  <2>2. CurrentDue(t, p) = 0 /\ NetDue(t, p) = 0 /\ NumDue(t, p) = 0
    BY <1>4 DEF BeginAlloc, Begin, Running
  <2>3. Moves(0, 0)
    BY <1>3, <2>1, <2>2
  <2>q. QED BY <1>2, <2>3
<1>5. CASE BeginReset(t, "resetPeak", "load") \/ BeginReset(t, "resetAccumulated", "alloc")
  <2>1. CurrentDue(t, p)' = 0 /\ NetDue(t, p)' = 0 /\ NumDue(t, p)' = 0 /\ live' = live
    BY <1>1, <1>5 DEF BeginReset, Begin, Call
  <2>2. CurrentDue(t, p) = 0 /\ NetDue(t, p) = 0 /\ NumDue(t, p) = 0
    BY <1>5 DEF BeginReset, Begin, Running
  <2>3. Moves(0, 0)
    BY <1>3, <2>1, <2>2
  <2>q. QED BY <1>2, <2>3
<1>6. ASSUME NEW q \in Pools, NEW n \in Sizes, BeginFree(t, q, n)
      PROVE  Moves(IF p = q THEN n * (-1) ELSE 0, IF p = q THEN -1 ELSE 0)
  <2>1. live' = [live EXCEPT ![q][n] = @ - 1]
    BY <1>6 DEF BeginFree
  <2>2. live[q][n] \in Nat /\ live'[q][n] = live[q][n] + (-1)
    BY <1>1, <2>1
  <2>3. /\ Total(LiveSizes(p))' = Total(LiveSizes(p)) + (IF p = q THEN n * (-1) ELSE 0)
        /\ Total(live[p])' = Total(live[p]) + (IF p = q THEN -1 ELSE 0)
    <3>1. -1 \in {1, -1} /\ live' \in [Pools -> [Sizes -> Nat]]
      BY DEF CounterTypes
    <3>2. /\ \A m \in Sizes : m # n => live'[q][m] = live[q][m]
          /\ \A r \in Pools : r # q => live'[r] = live[r]
      BY <1>1, <2>1
    <3>q. QED BY <2>2, <3>1, <3>2, LiveStep DEF CounterInv
  <2>4. CurrentDue(t, p) = 0 /\ NetDue(t, p) = 0 /\ NumDue(t, p) = 0
    BY <1>6 DEF BeginFree, Begin, Running
  <2>5. /\ call'[t].op = "recordFree" /\ call'[t].pool = q
        /\ call'[t].size = n /\ call'[t].step = "current"
    BY <1>1, <1>6 DEF BeginFree, Begin, Call
  <2>6. /\ CurrentDue(t, p)' = (IF p = q THEN n ELSE 0)
        /\ NetDue(t, p)' = (IF p = q THEN n ELSE 0)
        /\ NumDue(t, p)' = (IF p = q THEN 1 ELSE 0)
    BY <2>5
  <2>7. n \in Nat
    BY <1>1
  <2> HIDE DEF CurrentDue, NetDue, NumDue, Due, At
  <2>8. n * (-1) = -n /\ n * (-1) \in Int
    BY <2>7
  <2>9. CASE p = q
    BY <1>1, <1>2, <2>3, <2>4, <2>6, <2>7, <2>8, <2>9 DEF CurrentMoves, OthersMove
  <2>10. CASE p # q
    BY <1>1, <1>2, <2>3, <2>4, <2>6, <2>10 DEF CurrentMoves, OthersMove
  <2>q. QED BY <2>9, <2>10
<1>7. ASSUME UpdatePeak(t) PROVE \E d, c \in Int : Moves(d, c)
  <2>1. call[t].op = "recordAlloc" /\ call[t].step = "cas"
    BY <1>7 DEF UpdatePeak
  <2>2. PICK q \in Pools, n \in Sizes : q = call[t].pool /\ n = call[t].size
    BY <1>1, <2>1 DEF CounterInv, Calling
  <2>3. CASE call' = [call EXCEPT ![t].prev = peak_bytes[q]] /\ UNCHANGED live
    <3>1. UNCHANGED <<CurrentDue(t, p), NetDue(t, p), NumDue(t, p)>>
      BY <1>1, <2>3 DEF Records
    <3>2. Moves(0, 0)
      BY <1>3, <2>3, <3>1
    <3>q. QED BY <3>2
  <2>4. CASE Publish(t)
    <3>1. live' = [live EXCEPT ![q][n] = @ + 1] /\ call'[t].op = "none"
      BY <1>1, <2>2, <2>4 DEF Publish, Return, NoCall, Call
    <3>2. live[q][n] \in Nat /\ live'[q][n] = live[q][n] + 1
      BY <1>1, <3>1
    <3>3. /\ Total(LiveSizes(p))' = Total(LiveSizes(p)) + (IF p = q THEN n * 1 ELSE 0)
          /\ Total(live[p])' = Total(live[p]) + (IF p = q THEN 1 ELSE 0)
      <4>1. live' \in [Pools -> [Sizes -> Nat]] /\ 1 \in {1, -1}
        BY DEF CounterTypes
      <4>2. /\ \A m \in Sizes : m # n => live'[q][m] = live[q][m]
            /\ \A r \in Pools : r # q => live'[r] = live[r]
        BY <1>1, <3>1
      <4>q. QED BY <3>2, <4>1, <4>2, LiveStep DEF CounterInv
    <3>4. CurrentDue(t, p)' = 0 /\ NetDue(t, p)' = 0 /\ NumDue(t, p)' = 0
      BY <3>1
    <3>5. /\ CurrentDue(t, p) = (IF p = q THEN n ELSE 0)
          /\ NetDue(t, p) = (IF p = q THEN n ELSE 0)
          /\ NumDue(t, p) = (IF p = q THEN 1 ELSE 0)
      BY <2>1, <2>2
    <3>6. n \in Nat
      BY <1>1
    <3>7. Moves(IF p = q THEN n * 1 ELSE 0, IF p = q THEN 1 ELSE 0)
      <4> HIDE DEF CurrentDue, NetDue, NumDue, Due, At
      <4>1. n * 1 = n /\ n * 1 \in Int
        BY <3>6
      <4>2. CASE p = q
        BY <1>1, <1>2, <3>3, <3>4, <3>5, <3>6, <4>1, <4>2 DEF CurrentMoves, OthersMove
      <4>3. CASE p # q
        BY <1>1, <1>2, <3>3, <3>4, <3>5, <4>3 DEF CurrentMoves, OthersMove
      <4>q. QED BY <4>2, <4>3
    <3>8. (IF p = q THEN n * 1 ELSE 0) \in Int /\ (IF p = q THEN 1 ELSE 0) \in Int
      BY <3>6
    <3> HIDE DEF Moves
    <3>q. QED BY <3>7, <3>8
  <2>q. QED BY <1>7, <2>2, <2>3, <2>4 DEF UpdatePeak
<1>8. ASSUME NEW q \in Pools, NEW n \in Sizes, BeginFree(t, q, n)
      PROVE  \E d, c \in Int : Moves(d, c)
  <2>1. (IF p = q THEN n * (-1) ELSE 0) \in Int /\ (IF p = q THEN -1 ELSE 0) \in Int
    BY <1>1
  <2>2. Moves(IF p = q THEN n * (-1) ELSE 0, IF p = q THEN -1 ELSE 0)
    BY <1>6, <1>8
  <2> HIDE DEF Moves
  <2>q. QED BY <2>1, <2>2
<1>q. QED BY <1>2, <1>4, <1>5, <1>7, <1>8 DEF Calls

(* Nobody is in recordAlloc or recordFree. *)
NobodyRecords == \A t \in Threads : call[t].op \notin {"recordAlloc", "recordFree"}
NothingOwed == \A p \in Pools :
  Total(CurrentOwed(p)) = 0 /\ Total(NetOwed(p)) = 0 /\ Total(NumOwed(p)) = 0

LEMMA NothingIsOwed == TypeOK /\ NobodyRecords => NothingOwed
<1> SUFFICES ASSUME TypeOK, NobodyRecords, NEW p \in Pools
             PROVE  Total(CurrentOwed(p)) = 0 /\ Total(NetOwed(p)) = 0 /\ Total(NumOwed(p)) = 0
  BY DEF NothingOwed
<1>1. ASSUME NEW f, IsFiniteMap(f), \A x \in DOMAIN f : f[x] = 0 PROVE Total(f) = 0
  <2>1. Total(f) \in Nat
    BY <1>1, TotalNat
  <2>2. Total(f) <= 0 * Cardinality(DOMAIN f) /\ Cardinality(DOMAIN f) \in Nat
    BY <1>1, TotalBounds, 0 \in Nat, \A x \in DOMAIN f : f[x] <= 0
  <2>q. QED BY <2>1, <2>2
<1>2. IsFiniteMap(CurrentOwed(p)) /\ IsFiniteMap(NetOwed(p)) /\ IsFiniteMap(NumOwed(p))
  BY OwedFinite
<1>3. /\ \A t \in DOMAIN CurrentOwed(p) : CurrentOwed(p)[t] = 0
      /\ \A t \in DOMAIN NetOwed(p) : NetOwed(p)[t] = 0
      /\ \A t \in DOMAIN NumOwed(p) : NumOwed(p)[t] = 0
  BY DEF NobodyRecords, CurrentOwed, NetOwed, NumOwed, CurrentDue, NetDue, NumDue, Due
<1>q. QED BY <1>1, <1>2, <1>3

(* resetAccumulated clears the counters of a pool, and what they count     *)
(* from then on starts at what is live.                                    *)
LEMMA CountedClear ==
  ASSUME CounterInv, NEW t \in Threads,
         ClearAlloc(t) \/ ClearFreed(t) \/ ClearAllocs(t) \/ ClearFrees(t),
         TypeOK', CounterTypes', NEW p \in Pools
  PROVE  /\ CurrentIs(p)'
         /\ \/ p \in torn'["resetAccumulated"]
            \/ (\E u \in Threads : Clearing(u, p))'
            \/ NetIs(p)' /\ NumIs(p)'
<1> DEFINE q == call[t].pool
<1>1. /\ call \in [Threads -> Records]
      /\ current_bytes[p] \in Int /\ q \in Pools
      /\ accumulated_alloc \in [Pools -> Int] /\ accumulated_freed \in [Pools -> Int]
      /\ num_allocs \in [Pools -> Int] /\ num_frees \in [Pools -> Int]
      /\ accumulated_alloc[p] \in Int /\ accumulated_freed[p] \in Int
      /\ num_allocs[p] \in Int /\ num_frees[p] \in Int
  BY DEF CounterInv, TypeOK, Records, CounterTypes
<1>2. /\ call[t].op = "resetAccumulated" /\ t \in Running
      /\ call'[t].op \in {"resetAccumulated", "none"}
      /\ UNCHANGED <<current_bytes, live>>
  <2>1. call[t].op = "resetAccumulated"
    BY DEF ClearAlloc, ClearFreed, ClearAllocs, ClearFrees, At
  <2>2. UNCHANGED <<current_bytes, live>>
    BY DEF ClearAlloc, ClearFreed, ClearAllocs, ClearFrees, bytes
  <2>3. CASE ClearAlloc(t) \/ ClearFreed(t) \/ ClearAllocs(t)
    BY <1>1, <2>1, <2>2, <2>3 DEF ClearAlloc, ClearFreed, ClearAllocs, Goto, Running, Records
  <2>4. CASE ClearFrees(t)
    BY <1>1, <2>1, <2>2, <2>4 DEF ClearFrees, NextPool, Return, NoCall, Call, Running, Records
  <2>q. QED BY <2>3, <2>4
<1>0. Step(t)
  BY DEF Step
<1>3. \A u \in Threads : u # t => call'[u] = call[u]
  BY OneCall DEF CounterInv, Step
<1>4. /\ Total(LiveSizes(p))' = Total(LiveSizes(p)) + 0
      /\ Total(live[p])' = Total(live[p]) + 0
  BY <1>2, LiveKept DEF CounterInv
<1>5. CurrentMoves(t, p, 0)
  BY <1>1, <1>2 DEF CurrentMoves, CurrentDue, Due
<1>9. CurrentIs(p)'
  BY <1>3, <1>4, <1>5, Balance DEF CurrentMoves
<1>10. CASE t \notin solo
  <2>1. torn["resetAccumulated"] = Pools
    BY <1>2, <1>10 DEF CounterInv, Alone, Resets
  <2>2. torn' = torn
    BY <1>0, <1>10, StepOverlap DEF CounterInv
  <2>q. QED BY <1>9, <2>1, <2>2
<1>11. ASSUME ~ ClearFrees(t) PROVE torn' = torn
  BY <1>11 DEF ClearAlloc, ClearFreed, ClearAllocs, overlap
<1>6. CASE ~ ClearFrees(t) /\ p = q
  <2>1. Clearing(t, p)'
    BY <1>1, <1>6 DEF ClearAlloc, ClearFreed, ClearAllocs, Goto, Records, Clearing, At
  <2>q. QED BY <1>0, <1>4, <1>5, <1>6, <1>11, <2>1, CountedMoves, 0 \in Int
<1>7. CASE ~ ClearFrees(t) /\ p # q
  <2>1. /\ accumulated_alloc'[p] = accumulated_alloc[p]
        /\ accumulated_freed'[p] = accumulated_freed[p]
        /\ num_allocs'[p] = num_allocs[p] /\ num_frees'[p] = num_frees[p]
        /\ UNCHANGED base
    BY <1>1, <1>7 DEF ClearAlloc, ClearFreed, ClearAllocs, history
  <2>2. OthersMove(t, p, 0, 0)
    BY <1>1, <1>2, <2>1 DEF OthersMove, NetDue, NumDue, Due
  <2>3. ~ Clearing(t, p)
    BY <1>7 DEF Clearing
  <2>q. QED BY <1>0, <1>4, <1>5, <1>7, <1>11, <2>1, <2>2, <2>3, CountedMoves, 0 \in Int
<1>8. CASE ClearFrees(t) /\ t \in solo
  <2>0. \A u \in Threads : u # t => call[u].op = "none"
    BY <1>8 DEF CounterInv, Alone, Running
  <2>1. CurrentIs(p)'
    BY <1>9
  <2>2. NothingOwed'
    <3>1. NobodyRecords'
      BY <1>2, <1>3, <2>0 DEF NobodyRecords
    <3>2. (TypeOK /\ NobodyRecords => NothingOwed)'
      BY NothingIsOwed, PTL
    <3>q. QED BY <3>1, <3>2
  <2>3. CASE p = q
    <3>1. /\ accumulated_alloc[p] = 0 /\ accumulated_freed[p] = 0 /\ num_allocs[p] = 0
      BY <1>8, <2>3 DEF CounterInv, Cleared, Clearing, ClearFrees, At
    <3>2. /\ num_frees'[p] = 0
          /\ base'[p] = [bytes |-> LiveBytes(p), count |-> LiveCount(p)]
          /\ accumulated_alloc'[p] = 0 /\ accumulated_freed'[p] = 0 /\ num_allocs'[p] = 0
      BY <1>1, <1>8, <2>3, <3>1 DEF ClearFrees, CounterInv, CounterTypes
    <3>3. base'[p].bytes = Total(LiveSizes(p)) /\ base'[p].count = Total(live[p])
      BY <3>2 DEF LiveBytes, LiveCount, LiveSizes
    <3>4. Total(LiveSizes(p)) \in Nat /\ Total(live[p]) \in Nat
      BY LiveFinite, TotalNat DEF CounterInv
    <3>5. Total(NetOwed(p))' = 0 /\ Total(NumOwed(p))' = 0
      BY <2>2 DEF NothingOwed
    <3>6. NetIs(p)'
      BY <1>4, <3>2, <3>3, <3>4, <3>5 DEF NetIs
    <3>7. NumIs(p)'
      BY <1>4, <3>2, <3>3, <3>4, <3>5 DEF NumIs
    <3>q. QED BY <2>1, <3>6, <3>7
  <2>4. CASE p # q
    <3>1. /\ accumulated_alloc'[p] = accumulated_alloc[p]
          /\ accumulated_freed'[p] = accumulated_freed[p]
          /\ num_allocs'[p] = num_allocs[p] /\ num_frees'[p] = num_frees[p]
          /\ base'[p] = base[p]
      BY <1>1, <1>8, <2>4 DEF ClearFrees, CounterInv, CounterTypes
    <3>2. p \in torn["resetAccumulated"] \/ (NetIs(p) /\ NumIs(p))
      <4>1. ~ \E u \in Threads : Clearing(u, p)
        BY <2>0, <2>4 DEF Clearing
      <4>q. QED BY <4>1 DEF CounterInv, Counted
    <3>3. Total(NetOwed(p)) = 0 /\ Total(NumOwed(p)) = 0
      <4>1. NobodyRecords
        BY <1>2, <1>3, <2>0 DEF NobodyRecords
      <4>q. QED BY <4>1, NothingIsOwed DEF NothingOwed, CounterInv
    <3>4. Total(NetOwed(p))' = 0 /\ Total(NumOwed(p))' = 0
      BY <2>2 DEF NothingOwed
    <3>5. Total(LiveSizes(p)) \in Nat /\ Total(live[p]) \in Nat
      BY LiveFinite, TotalNat DEF CounterInv
    <3>6. p \in torn["resetAccumulated"] => p \in torn'["resetAccumulated"]
      BY <1>0, <2>4, StepOverlap DEF CounterInv, TypeOK, Resets
    <3>7. CASE NetIs(p) /\ NumIs(p)
      <4>1. NetIs(p)'
        BY <1>4, <3>1, <3>3, <3>4, <3>5, <3>7 DEF NetIs
      <4>2. NumIs(p)'
        BY <1>4, <3>1, <3>3, <3>4, <3>5, <3>7 DEF NumIs
      <4>q. QED BY <2>1, <4>1, <4>2
    <3>q. QED BY <2>1, <3>2, <3>6, <3>7
  <2>q. QED BY <2>3, <2>4
<1>q. QED BY <1>6, <1>7, <1>8, <1>10

LEMMA ClearedStep ==
  ASSUME CounterInv, NEW t \in Threads, Calls(t) \/ Step(t)
  PROVE  Cleared'
<1> USE DEF Clearing, At
<1>1. \A u \in Threads : u # t => call'[u] = call[u]
  BY OneCall DEF CounterInv
<1>3. ASSUME NEW u \in Threads, u \in solo', NEW p \in Pools, Clearing(u, p)'
      PROVE  u = t /\ u \in solo
  <2>1. CASE Step(t)
    <3>1. u \in Running
      BY <1>1, <1>3, <2>1, StepRuns DEF Running
    <3>q. QED BY <1>3, <3>1, SoloSteps DEF CounterInv
  <2>2. CASE Calls(t)
    <3>1. ~ Clearing(t, p)'
      BY <2>2 DEF Calls, BeginAlloc, BeginFree, BeginReset, Begin, Call, CounterInv, TypeOK
    <3>2. u # t /\ u \in Running
      BY <1>1, <1>3, <3>1 DEF Running
    <3>q. QED BY <1>3, <3>2, SoloSteps DEF CounterInv
  <2>q. QED BY <2>1, <2>2
<1>4. ASSUME NEW p \in Pools, Clearing(t, p)', t \in solo
      PROVE  /\ accumulated_alloc'[p] = 0
             /\ call'[t].step \in {"allocs", "frees"} => accumulated_freed'[p] = 0
             /\ call'[t].step = "frees" => num_allocs'[p] = 0
  <2>1. /\ call \in [Threads -> Records]
        /\ accumulated_alloc \in [Pools -> Int] /\ accumulated_freed \in [Pools -> Int]
        /\ num_allocs \in [Pools -> Int]
    BY DEF CounterInv, TypeOK, CounterTypes
  <2>2. ~ Calls(t)
    BY <1>4, <2>1 DEF Calls, BeginAlloc, BeginFree, BeginReset, Begin, Call
  <2>3. ClearAlloc(t) \/ ClearFreed(t) \/ ClearAllocs(t) \/ ClearFrees(t)
    <3>1. call'[t].op = "resetAccumulated"
      BY <1>4
    <3>q. QED BY <2>1, <2>2, <3>1 DEF Step, AddCurrent, AddAccumulated, AddNum, LoadPeak, UpdatePeak,
             Publish, SubCurrent, AddFreed, AddNumFrees, LoadCurrent, StorePeak, NextPool,
             Goto, Return, NoCall, Call, Records
  <2>4. CASE ClearFrees(t)
    BY <1>4, <2>1, <2>4 DEF ClearFrees, NextPool, Return, NoCall, Call, Records
  <2>5. CASE ClearAlloc(t)
    BY <1>4, <2>1, <2>5 DEF ClearAlloc, Goto, Records
  <2>6. CASE ClearFreed(t)
    BY <1>4, <2>1, <2>6 DEF ClearFreed, Goto, Records, CounterInv, Cleared
  <2>7. CASE ClearAllocs(t)
    BY <1>4, <2>1, <2>7 DEF ClearAllocs, Goto, Records, CounterInv, Cleared
  <2>q. QED BY <2>3, <2>4, <2>5, <2>6, <2>7
<1>5. solo' \subseteq Threads
  BY TypeStep DEF CounterInv, TypeOK, Next
<1>q. QED BY <1>3, <1>4, <1>5 DEF Cleared

LEMMA CounterInit == Init => CounterInv
<1> SUFFICES ASSUME Init PROVE CounterInv OBVIOUS
<1>1. \A t \in Threads : call[t].op = "none"
  BY DEF Init, NoCall, Call
<1>2. TypeOK /\ Alone
  BY <1>1, TypeInit DEF Init, Alone, Running
<1>3. Calling /\ Cleared /\ \A t \in Threads, p \in Pools : ~ Clearing(t, p)
  BY <1>1 DEF Init, Calling, Cleared, Clearing
<1>4. CounterTypes
  BY DEF CounterTypes, Init, Zero
<1>5. Counted
  <2> SUFFICES ASSUME NEW p \in Pools PROVE CurrentIs(p) /\ NetIs(p) /\ NumIs(p)
    BY DEF Counted
  <2>1. Total(CurrentOwed(p)) = 0 /\ Total(NetOwed(p)) = 0 /\ Total(NumOwed(p)) = 0
    BY <1>1, <1>2, NothingIsOwed DEF NobodyRecords, NothingOwed
  <2>2. ASSUME NEW f, IsFiniteMap(f), \A x \in DOMAIN f : f[x] = 0 PROVE Total(f) = 0
    <3>1. Total(f) \in Nat
      BY <2>2, TotalNat
    <3>2. Total(f) <= 0 * Cardinality(DOMAIN f) /\ Cardinality(DOMAIN f) \in Nat
      BY <2>2, TotalBounds, 0 \in Nat, \A x \in DOMAIN f : f[x] <= 0
    <3>q. QED BY <3>1, <3>2
  <2>3. Total(LiveSizes(p)) = 0 /\ Total(live[p]) = 0
    <3>1. /\ \A n \in DOMAIN LiveSizes(p) : LiveSizes(p)[n] = 0
          /\ \A n \in DOMAIN live[p] : live[p][n] = 0
      BY StatsAssumption DEF Init, LiveSizes
    <3>q. QED BY <1>4, <2>2, <3>1, LiveFinite
  <2>4. /\ current_bytes[p] = 0 /\ accumulated_alloc[p] = 0 /\ accumulated_freed[p] = 0
        /\ num_allocs[p] = 0 /\ num_frees[p] = 0 /\ base[p].bytes = 0 /\ base[p].count = 0
    BY DEF Init, Zero
  <2>q. QED BY <2>1, <2>3, <2>4 DEF CurrentIs, NetIs, NumIs
<1>q. QED BY <1>2, <1>3, <1>4, <1>5 DEF CounterInv

LEMMA CounterStep == CounterInv /\ [Next]_vars => CounterInv'
<1> SUFFICES ASSUME CounterInv, [Next]_vars PROVE CounterInv' OBVIOUS
<1>1. TypeOK'
  BY TypeStep DEF CounterInv
<1>2. ASSUME NEW t \in Threads, Calls(t) \/ Step(t) PROVE CounterInv'
  <2>1. CounterTypes' /\ Calling' /\ Cleared' /\ Alone'
    BY <1>1, <1>2, CounterTypesStep, CallingStep, ClearedStep, AloneStep DEF CounterInv
  <2>2. ASSUME NEW p \in Pools
        PROVE  /\ CurrentIs(p)'
               /\ \/ p \in torn'["resetAccumulated"]
                  \/ (\E u \in Threads : Clearing(u, p))'
                  \/ NetIs(p)' /\ NumIs(p)'
    <3>0. ASSUME ~ ClearFrees(t), p \in torn["resetAccumulated"]
          PROVE  p \in torn'["resetAccumulated"]
      <4>1. CASE Calls(t)
        BY <3>0, <4>1, BeginOverlap DEF CounterInv, Resets
      <4>2. CASE Step(t)
        BY <3>0, <4>2, StepOverlap DEF CounterInv, TypeOK, Resets
      <4>q. QED BY <1>2, <4>1, <4>2
    <3>1. CASE ClearAlloc(t) \/ ClearFreed(t) \/ ClearAllocs(t) \/ ClearFrees(t)
      BY <1>1, <2>1, <3>1, CountedClear
    <3>2. CASE (Calls(t) \/ UpdatePeak(t)) /\ ~ ClearFrees(t)
      <4>1. UNCHANGED base /\ ~ Clearing(t, p)
        BY <1>1, <2>1, <3>2, CountedCall
      <4>2. PICK d \in Int, c \in Int :
              /\ Total(LiveSizes(p))' = Total(LiveSizes(p)) + d
              /\ Total(live[p])' = Total(live[p]) + c
              /\ CurrentMoves(t, p, d) /\ OthersMove(t, p, d, c)
        BY <1>1, <2>1, <3>2, CountedCall
      <4>q. QED BY <1>1, <1>2, <2>1, <3>0, <3>2, <4>1, <4>2, CountedMoves
    <3>3. CASE ~ (ClearAlloc(t) \/ ClearFreed(t) \/ ClearAllocs(t) \/ ClearFrees(t))
               /\ ~ (Calls(t) \/ UpdatePeak(t))
      <4>1. /\ UNCHANGED <<live, base>> /\ ~ Clearing(t, p)
            /\ CurrentMoves(t, p, 0) /\ OthersMove(t, p, 0, 0)
        BY <1>2, <3>3, CountedAccess DEF Step
      <4>2. /\ Total(LiveSizes(p))' = Total(LiveSizes(p)) + 0
            /\ Total(live[p])' = Total(live[p]) + 0
        BY <4>1, LiveKept DEF CounterInv
      <4>q. QED BY <1>1, <1>2, <2>1, <3>0, <3>3, <4>1, <4>2, CountedMoves, 0 \in Int
    <3>q. QED BY <3>1, <3>2, <3>3
  <2>q. QED BY <1>1, <2>1, <2>2 DEF CounterInv, Counted
<1>3. CASE UNCHANGED vars
  <2>1. UNCHANGED <<current_bytes, accumulated_alloc, accumulated_freed, num_allocs, num_frees,
                    call, live, base, most_total, solo, torn>>
    BY <1>3 DEF vars, bytes, accumulated, history, overlap
  <2>2. Calling' /\ CounterTypes' /\ Cleared' /\ Alone'
    BY <2>1 DEF CounterInv, Calling, CounterTypes, Cleared, Clearing, Alone, Running
  <2>3. Counted'
    <3>1. \A p : /\ CurrentOwed(p)' = CurrentOwed(p) /\ NetOwed(p)' = NetOwed(p)
                 /\ NumOwed(p)' = NumOwed(p) /\ LiveSizes(p)' = LiveSizes(p)
      BY <2>1 DEF CurrentOwed, NetOwed, NumOwed, CurrentDue, NetDue, NumDue, Due, LiveSizes
    <3>2. \A p \in Pools : /\ CurrentIs(p) => CurrentIs(p)'
                           /\ NetIs(p) => NetIs(p)'
                           /\ NumIs(p) => NumIs(p)'
      BY <2>1, <3>1 DEF CurrentIs, NetIs, NumIs
    <3>3. \A t \in Threads, p \in Pools : Clearing(t, p)' <=> Clearing(t, p)
      BY <2>1 DEF Clearing
    <3>q. QED BY <2>1, <3>2, <3>3 DEF CounterInv, Counted
  <2>q. QED BY <1>1, <2>2, <2>3 DEF CounterInv
<1>q. QED BY <1>2, <1>3 DEF Next

(* With no call under way every counter is what the live allocations and   *)
(* the last reset make it, whatever the calls did in between: current_bytes *)
(* always, the others unless a reset overlapped another call since the     *)
(* last one that overlapped none.                                          *)
THEOREM CountersExactHolds == Spec => []CountersExact
<1>1. CounterInv => CountersExact
  <2> SUFFICES ASSUME CounterInv, Quiet, NEW p \in Pools
               PROVE  /\ PoolReport(p).current = LiveBytes(p)
                      /\ p \notin torn["resetAccumulated"] =>
                           /\ PoolReport(p).allocated - PoolReport(p).freed
                                = LiveBytes(p) - base[p].bytes
                           /\ PoolReport(p).count = LiveCount(p) - base[p].count
    BY DEF CountersExact
  <2>1. \A t \in Threads : call[t].op = "none"
    BY DEF Quiet, Running
  <2>2. Total(CurrentOwed(p)) = 0 /\ Total(NetOwed(p)) = 0 /\ Total(NumOwed(p)) = 0
    BY <2>1, NothingIsOwed DEF NobodyRecords, NothingOwed, CounterInv
  <2>3. CurrentIs(p) /\ (p \notin torn["resetAccumulated"] => NetIs(p) /\ NumIs(p))
    BY <2>1 DEF CounterInv, Counted, Clearing
  <2>4. LiveBytes(p) = Total(LiveSizes(p)) /\ LiveCount(p) = Total(live[p])
    BY DEF LiveBytes, LiveCount, LiveSizes
  <2>5. LiveBytes(p) \in Nat /\ LiveCount(p) \in Nat /\ base[p].bytes \in Int /\ base[p].count \in Int
    BY <2>4, LiveFinite, TotalNat DEF CounterInv, CounterTypes
  <2>6. /\ PoolReport(p).current = current_bytes[p]
        /\ PoolReport(p).allocated = accumulated_alloc[p]
        /\ PoolReport(p).freed = accumulated_freed[p]
        /\ PoolReport(p).count = num_allocs[p] - num_frees[p]
    BY DEF PoolReport
  <2>q. QED BY <2>2, <2>3, <2>4, <2>5, <2>6 DEF CurrentIs, NetIs, NumIs
<1>q. QED BY <1>1, CounterInit, CounterStep, PTL DEF Spec

-----------------------------------------------------------------------------
(* The peak of both pools *)

(* resetPeak has done the small pool and not yet the large one. *)
HalfReset(t) == call[t].op = "resetPeak" /\ call[t].pool = "large"

AggregateInv ==
  /\ most_total \in Int
  /\ \A p \in Pools : current_bytes[p] <= most[p]
  /\ Both(current_bytes) <= most_total
  /\ \/ torn["resetPeak"] # {}
     \/ \E t \in Threads : HalfReset(t)
     \/ most_total <= Both(most)
  /\ \A t \in solo : HalfReset(t) => most["small"] = current_bytes["small"]

LEMMA AggregateInit == Init => AggregateInv
<1> SUFFICES ASSUME Init PROVE AggregateInv OBVIOUS
<1>1. \A t \in Threads : ~ HalfReset(t)
  BY DEF Init, NoCall, Call, HalfReset
<1>2. \A t \in solo : ~ HalfReset(t)
  BY DEF Init
<1>q. QED BY <1>1, <1>2 DEF Init, Zero, Both, Pools, AggregateInv

LEMMA AggregateStep ==
  ASSUME PeakInv, AggregateInv, NEW t \in Threads, Calls(t) \/ Step(t)
  PROVE  AggregateInv'
<1> USE DEF Both, At
<1>1. \A u \in Threads : u # t => call'[u] = call[u]
  BY OneCall DEF PeakInv
<1>2. /\ call \in [Threads -> Records]
      /\ call[t].size \in Nat /\ call[t].pool \in Pools
      /\ Pools = {"small", "large"}
      /\ current_bytes \in [Pools -> Int] /\ most \in [Pools -> Int] /\ most_total \in Int
      /\ current_bytes["small"] \in Int /\ current_bytes["large"] \in Int
      /\ most["small"] \in Int /\ most["large"] \in Int
      /\ current_bytes["small"] <= most["small"] /\ current_bytes["large"] <= most["large"]
      /\ Both(current_bytes) <= most_total
      /\ torn \in [Resets -> SUBSET Pools] /\ solo' \subseteq Threads
  BY TypeStep DEF PeakInv, TypeOK, Records, Pools, AggregateInv, Next
<1>3. ASSUME NEW u \in Threads, u \in solo', HalfReset(u)'
      PROVE  u = t /\ t \in solo /\ Step(t)
  <2>1. CASE Step(t)
    <3>1. u \in Running
      BY <1>1, <1>3, <2>1, StepRuns DEF Running, HalfReset
    <3>q. QED BY <1>3, <2>1, <3>1, SoloSteps DEF PeakInv
  <2>2. CASE Calls(t)
    <3>1. ~ HalfReset(t)'
      BY <1>2, <2>2 DEF Calls, BeginAlloc, BeginFree, BeginReset, Begin, Call, HalfReset
    <3>2. u # t /\ u \in Running
      BY <1>1, <1>3, <3>1 DEF Running, HalfReset
    <3>q. QED BY <1>3, <2>2, <3>2, SoloSteps, BeginOverlap DEF PeakInv, Quiet
  <2>q. QED BY <2>1, <2>2
<1>4. ASSUME ~ StorePeak(t), torn'["resetPeak"] = {}
      PROVE  torn["resetPeak"] = {}
  <2>1. CASE Calls(t)
    BY <1>4, <2>1, BeginOverlap DEF PeakInv, Resets
  <2>2. CASE Step(t)
    BY <1>2, <1>4, <2>2, StepOverlap DEF PeakInv, Resets
  <2>q. QED BY <2>1, <2>2
<1>5. ASSUME ~ StorePeak(t) PROVE \A u \in Threads : HalfReset(u)' <=> HalfReset(u)
  <2>1. HalfReset(t)' <=> HalfReset(t)
    <3>1. CASE Calls(t)
      BY <1>2, <3>1 DEF Calls, BeginAlloc, BeginFree, BeginReset, Begin, Call, Running, HalfReset
    <3>2. CASE AddCurrent(t) \/ SubCurrent(t)
      BY <1>2, <3>2 DEF AddCurrent, SubCurrent, Goto, HalfReset, Records
    <3>3. CASE AddAccumulated(t) \/ AddNum(t) \/ LoadPeak(t) \/ AddFreed(t)
      BY <1>2, <3>3 DEF AddAccumulated, AddNum, LoadPeak, AddFreed, Goto, HalfReset, Records
    <3>4. CASE UpdatePeak(t) \/ AddNumFrees(t)
      BY <1>2, <3>4 DEF UpdatePeak, Publish, AddNumFrees, Return, NoCall, Call, HalfReset, Records
    <3>5. CASE LoadCurrent(t)
      BY <1>2, <3>5 DEF LoadCurrent, HalfReset, Records
    <3>6. CASE ClearAlloc(t) \/ ClearFreed(t) \/ ClearAllocs(t) \/ ClearFrees(t)
      BY <1>2, <3>6 DEF ClearAlloc, ClearFreed, ClearAllocs, ClearFrees, Goto, NextPool,
         Return, NoCall, Call, HalfReset, Records
    <3>q. QED BY <1>5, <3>1, <3>2, <3>3, <3>4, <3>5, <3>6 DEF Step
  <2>q. QED BY <1>1, <2>1 DEF HalfReset
<1>6. CASE AddCurrent(t) \/ SubCurrent(t)
  <2>1. ~ StorePeak(t) /\ ~ HalfReset(t)
    BY <1>6 DEF AddCurrent, SubCurrent, StorePeak, HalfReset
  <2>2. \A u \in solo' : ~ HalfReset(u)'
    BY <1>2, <1>3, <1>5, <2>1
  <2>3. \/ torn'["resetPeak"] # {}
        \/ \E u \in Threads : HalfReset(u)'
        \/ most_total <= Both(most)
    BY <1>4, <1>5, <2>1 DEF AggregateInv
  <2>4. PICK q \in Pools, n \in Nat : q = call[t].pool /\ n = call[t].size
    BY <1>2
  <2>5. CASE AddCurrent(t)
    <3>1. /\ current_bytes' = [current_bytes EXCEPT ![q] = @ + n]
          /\ most' = [most EXCEPT ![q] = Grown(@, current_bytes[q] + n)]
          /\ most_total' = Grown(most_total, Both(current_bytes) + n)
      BY <2>4, <2>5 DEF AddCurrent, Advance
    <3>2. /\ most_total' \in Int
          /\ \A p \in Pools : current_bytes'[p] <= most'[p]
          /\ Both(current_bytes)' <= most_total'
          /\ most_total <= Both(most) => most_total' <= Both(most)'
      <4>1. CASE q = "small"
        BY <1>2, <3>1, <4>1 DEF Grown
      <4>2. CASE q = "large"
        BY <1>2, <3>1, <4>2 DEF Grown
      <4>q. QED BY <1>2, <4>1, <4>2
    <3>q. QED BY <2>2, <2>3, <3>2 DEF AggregateInv
  <2>6. CASE SubCurrent(t)
    <3>1. /\ current_bytes' = [current_bytes EXCEPT ![q] = @ + (-n)]
          /\ most' = most /\ most_total' = most_total
      BY <2>4, <2>6 DEF SubCurrent, Advance, history
    <3>2. /\ \A p \in Pools : current_bytes'[p] <= most'[p]
          /\ Both(current_bytes)' <= most_total'
      <4>1. CASE q = "small"
        BY <1>2, <3>1, <4>1
      <4>2. CASE q = "large"
        BY <1>2, <3>1, <4>2
      <4>q. QED BY <1>2, <4>1, <4>2
    <3>q. QED BY <1>2, <2>2, <2>3, <3>1, <3>2 DEF AggregateInv
  <2>q. QED BY <1>6, <2>5, <2>6
<1>7. CASE StorePeak(t)
  <2>1. \A u \in solo' : u # t => ~ HalfReset(u)'
    BY <1>2, <1>3
  <2>2. CASE call[t].pool = "small"
    <3>1. /\ HalfReset(t)' /\ current_bytes' = current_bytes /\ most_total' = most_total
          /\ most'["small"] = current_bytes["small"] /\ most'["large"] = most["large"]
      BY <1>2, <1>7, <2>2 DEF StorePeak, NextPool, HalfReset, Records
    <3>q. QED BY <1>2, <2>1, <3>1 DEF AggregateInv
  <2>3. CASE call[t].pool = "large"
    <3>1. /\ ~ HalfReset(t)' /\ current_bytes' = current_bytes
          /\ most_total' = current_bytes["small"] + current_bytes["large"]
          /\ most'["large"] = current_bytes["large"] /\ most'["small"] = most["small"]
          /\ HalfReset(t)
      BY <1>2, <1>7, <2>3 DEF StorePeak, NextPool, Return, NoCall, Call, HalfReset
    <3>2. CASE t \in solo
      <4>1. most["small"] = current_bytes["small"]
        BY <3>1, <3>2 DEF AggregateInv
      <4>q. QED BY <1>2, <2>1, <3>1, <4>1 DEF AggregateInv
    <3>3. CASE t \notin solo
      <4>1. torn["resetPeak"] = Pools
        BY <1>7, <3>3 DEF PeakInv, Alone, Resets, StorePeak, Running
      <4>2. torn'["resetPeak"] # {}
        BY <1>2, <1>7, <3>3, <4>1, StepOverlap DEF PeakInv, Step
      <4>q. QED BY <1>2, <2>1, <3>1, <4>2 DEF AggregateInv
    <3>q. QED BY <3>2, <3>3
  <2>q. QED BY <1>2, <2>2, <2>3
<1>8. CASE ~ (AddCurrent(t) \/ SubCurrent(t) \/ StorePeak(t))
  <2>1. UNCHANGED <<current_bytes, most, most_total>>
    BY <1>8 DEF Calls, Step, BeginAlloc, BeginFree, BeginReset,
       AddAccumulated, AddNum, LoadPeak, UpdatePeak, AddFreed, AddNumFrees, LoadCurrent,
       ClearAlloc, ClearFreed, ClearAllocs, ClearFrees, bytes, history
  <2>2. \A u \in solo' : HalfReset(u)' => u \in solo /\ HalfReset(u)
    BY <1>2, <1>3, <1>5, <1>8
  <2>3. \/ torn'["resetPeak"] # {}
        \/ \E u \in Threads : HalfReset(u)'
        \/ most_total <= Both(most)
    BY <1>4, <1>5, <1>8 DEF AggregateInv
  <2>q. QED BY <2>1, <2>2, <2>3 DEF AggregateInv
<1>q. QED BY <1>6, <1>7, <1>8

(* The sum of the pools' peaks is never below what was in use in both at   *)
(* one time since the last reset, nor the bytes in use above it, unless    *)
(* that reset overlapped another call.                                     *)
THEOREM AggregatePeakCoversHolds == Spec => []AggregatePeakCovers
<1>1. PeakInv /\ AggregateInv => AggregatePeakCovers
  <2> SUFFICES ASSUME PeakInv, AggregateInv, Quiet, torn["resetPeak"] = {}
               PROVE  AggregateReport.current <= most_total /\ most_total <= AggregateReport.peak
    BY DEF AggregatePeakCovers
  <2>1. \A t \in Threads : call[t].op = "none"
    BY DEF Quiet, Running
  <2>2. \A p \in Pools : peak_bytes[p] = most[p]
    BY <2>1 DEF PeakInv, PeakOf, Reached, Pending
  <2>3. most_total <= Both(most) /\ Both(current_bytes) <= most_total
    BY <2>1 DEF AggregateInv, HalfReset
  <2>4. /\ AggregateReport.current = Both(current_bytes)
        /\ AggregateReport.peak = Both(peak_bytes)
    BY DEF AggregateReport, PoolReport, Both
  <2>q. QED BY <2>2, <2>3, <2>4 DEF Both, Pools
<1>2. PeakInv /\ [Next]_vars => PeakInv'
  BY PeakStep
<1>3. PeakInv /\ AggregateInv /\ [Next]_vars => AggregateInv'
  <2> SUFFICES ASSUME PeakInv, AggregateInv, [Next]_vars PROVE AggregateInv' OBVIOUS
  <2>1. CASE UNCHANGED vars
    BY <2>1 DEF vars, bytes, history, overlap, AggregateInv, HalfReset, Both
  <2>q. QED BY <2>1, AggregateStep DEF Next
<1>q. QED BY <1>1, <1>2, <1>3, PeakInit, AggregateInit, PTL DEF Spec

=============================================================================
