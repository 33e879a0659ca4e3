---------------------------- MODULE DeliveryProofs ----------------------------
(***************************************************************************)
(* Proofs about the circuit breaker, for any set of goroutines and any     *)
(* failure threshold, and about the failover queue, for any limits and any *)
(* request sizes.                                                          *)
(*                                                                         *)
(* The byte bound of the queue is not inductive by itself: Push appends to *)
(* an empty queue without comparing bytes with the limit, so it rests on   *)
(* the counter being exact, and exactness rests on the entries following   *)
(* one another without a gap (Contiguous).                                 *)
(***************************************************************************)
EXTENDS CircuitBreaker, MemoryQueue, SumProofs

-----------------------------------------------------------------------------
(* The circuit breaker *)

\* Every step of the circuit breaker keeps its variables in their domains.
THEOREM TypeCorrect == CircuitSpec => []CircuitTypeOK
<1>1. CircuitInit => CircuitTypeOK
  <2> SUFFICES ASSUME CircuitInit PROVE CircuitTypeOK
    OBVIOUS
  <2>1. elapsed \in BOOLEAN /\ abandoned \in BOOLEAN
    BY Zenon DEF CircuitInit
  <2>2. QED
    BY <2>1, ThresholdAssumption DEF CircuitInit, CircuitTypeOK, CircuitStates, CircuitSteps
<1>2. CircuitTypeOK /\ [CircuitNext]_circuitVars => CircuitTypeOK'
  <2> SUFFICES ASSUME CircuitTypeOK, [CircuitNext]_circuitVars PROVE CircuitTypeOK'
    OBVIOUS
  <2> USE ThresholdAssumption DEF CircuitTypeOK, CircuitStates, CircuitSteps, StepTo
  <2>1. CASE ResetTimeout
    BY <2>1 DEF ResetTimeout
  <2>2. ASSUME NEW g \in Callers,
               \/ AllowLoad(g) \/ AllowOpen(g) \/ AllowSwap(g)
               \/ AllowStore(g) \/ AllowHalf(g)
        PROVE  CircuitTypeOK'
    BY <2>2 DEF AllowLoad, AllowOpen, AllowSwap, AllowStore, AllowHalf
  <2>3. ASSUME NEW g \in Callers,
               Success(g) \/ SuccessReset(g) \/ SuccessClear(g) \/ SuccessClose(g)
        PROVE  CircuitTypeOK'
    BY <2>3 DEF Success, SuccessReset, SuccessClear, SuccessClose
  <2>4. ASSUME NEW g \in Callers, Failure(g) PROVE CircuitTypeOK'
    <3>1. consecutiveFails' \in 0..FailureThreshold
      BY <2>4 DEF Failure
    <3>2. tripped' \in SUBSET Callers
      BY <2>4 DEF Failure
    <3>3. QED
      BY <2>4, <3>1, <3>2 DEF Failure
  <2>5. ASSUME NEW g \in Callers,
               FailureStamp(g) \/ FailureLoad(g) \/ FailureClear(g) \/ FailureOpen(g)
        PROVE  CircuitTypeOK'
    BY ZenonT(30), <2>5 DEF FailureStamp, FailureLoad, FailureClear, FailureOpen
  <2>6. ASSUME NEW g \in Callers, Abandon(g) PROVE CircuitTypeOK'
    BY <2>6 DEF Abandon
  <2>7. CASE UNCHANGED circuitVars
    BY <2>7 DEF circuitVars
  <2>8. QED
    BY <2>1, <2>2, <2>3, <2>4, <2>5, <2>6, <2>7 DEF CircuitNext, Running
<1>3. QED
  BY <1>1, <1>2, PTL DEF CircuitSpec

\* When every granted request reports its outcome, a half-open circuit always
\* has a caller that will close or reopen it.  The goroutine that swapped the
\* state is such a caller until it stores a new state, and no other goroutine
\* can take that role away from it without storing a new state itself.
THEOREM ResolverInvariant == CircuitSpec => []HalfOpenHasResolver
<1>1. CircuitInit => HalfOpenHasResolver
  BY DEF CircuitInit, HalfOpenHasResolver
<1>2. CircuitTypeOK /\ HalfOpenHasResolver /\ [CircuitNext]_circuitVars => HalfOpenHasResolver'
  <2> SUFFICES ASSUME CircuitTypeOK, HalfOpenHasResolver, [CircuitNext]_circuitVars,
                      state' = "half_open", ~abandoned'
               PROVE  \E h \in Callers : Resolving(h)'
    BY DEF HalfOpenHasResolver
  <2>0. ~abandoned
    BY DEF CircuitNext, Running, ResetTimeout, AllowLoad, AllowOpen, AllowSwap, AllowStore, AllowHalf,
           Success, SuccessReset, SuccessClear, SuccessClose,
           Failure, FailureStamp, FailureLoad, FailureClear, FailureOpen, Abandon, circuitVars
  <2> USE DEF CircuitTypeOK, CircuitSteps, StepTo, Resolving
  <2>1. ASSUME NEW g \in Callers, AllowSwap(g), state = "open"
        PROVE  \E h \in Callers : Resolving(h)'
    BY <2>1 DEF AllowSwap
  <2>2. ASSUME state = "half_open"
        PROVE  \E h \in Callers : Resolving(h)'
    <3>1. PICK h \in Callers : Resolving(h)
      BY <2>0, <2>2 DEF HalfOpenHasResolver
    <3>2. CASE ResetTimeout
      BY <3>1, <3>2 DEF ResetTimeout
    <3>3. ASSUME NEW g \in Callers, AllowLoad(g) \/ AllowOpen(g)
          PROVE  Resolving(h)'
      BY <3>1, <3>3 DEF AllowLoad, AllowOpen
    <3>4. ASSUME NEW g \in Callers, AllowSwap(g) \/ AllowStore(g) \/ AllowHalf(g)
          PROVE  Resolving(h)'
      BY <2>2, <3>1, <3>4 DEF AllowSwap, AllowStore, AllowHalf
    <3>5. ASSUME NEW g \in Callers,
                 Success(g) \/ SuccessReset(g) \/ SuccessClear(g)
          PROVE  Resolving(h)'
      BY <2>2, <3>1, <3>5 DEF Success, SuccessReset, SuccessClear
    <3>6. ASSUME NEW g \in Callers,
                 Failure(g) \/ FailureStamp(g) \/ FailureLoad(g) \/ FailureClear(g)
          PROVE  Resolving(h)'
      BY <2>2, <3>1, <3>6 DEF Failure, FailureStamp, FailureLoad, FailureClear
    <3>7. ASSUME NEW g \in Callers, SuccessClose(g) \/ FailureOpen(g)
          PROVE  FALSE
      BY <3>7 DEF SuccessClose, FailureOpen
    <3>8. ASSUME NEW g \in Callers, Abandon(g)
          PROVE  FALSE
      BY <3>8 DEF Abandon
    <3>9. CASE UNCHANGED circuitVars
      BY <3>1, <3>9 DEF circuitVars
    <3>10. QED
      BY <3>2, <3>3, <3>4, <3>5, <3>6, <3>7, <3>8, <3>9 DEF CircuitNext, Running
  <2>3. ASSUME state # "half_open", ~ \E g \in Callers : AllowSwap(g)
        PROVE  FALSE
    BY <2>3 DEF CircuitNext, Running, ResetTimeout, AllowLoad, AllowOpen, AllowStore, AllowHalf,
           Success, SuccessReset, SuccessClear, SuccessClose,
           Failure, FailureStamp, FailureLoad, FailureClear, FailureOpen, Abandon, circuitVars
  <2>4. ASSUME NEW g \in Callers, AllowSwap(g), state # "half_open"
        PROVE  state = "open"
    BY <2>4 DEF AllowSwap
  <2>5. QED
    BY <2>1, <2>2, <2>3, <2>4
<1>3. QED
  BY <1>1, <1>2, TypeCorrect, PTL DEF CircuitSpec

\* Only the compare-and-swap of AllowRequest enters the half-open state, and
\* only from the open state, however the callers interleave.
THEOREM HalfOpenEntry == CircuitSpec => HalfOpenFromOpen
<1>1. [CircuitNext]_circuitVars =>
        [state' = "half_open" /\ state # "half_open" => state = "open"]_circuitVars
  BY DEF CircuitNext, Running, ResetTimeout, AllowLoad, AllowOpen, AllowSwap, AllowStore, AllowHalf,
         Success, SuccessReset, SuccessClear, SuccessClose,
         Failure, FailureStamp, FailureLoad, FailureClear, FailureOpen, Abandon, circuitVars
<1>2. QED
  BY <1>1, PTL DEF CircuitSpec, HalfOpenFromOpen

-----------------------------------------------------------------------------
(* The failover queue *)

\* each entry begins where the one before it ends; the last ends at total
Contiguous ==
    \A i \in 1..Len(entries) :
        /\ entries[i].start + entries[i].size <= total
        /\ entries[i].start + entries[i].size =
             IF i = Len(entries) THEN total ELSE entries[i + 1].start

\* the inductive invariant
IInv ==
    /\ TypeOK
    /\ Contiguous
    /\ BytesExact
    /\ CountBounded
    /\ BytesBounded
    /\ NewestInOrder

\* what the entries are, in the terms the provers need
LEMMA EntriesTyped ==
    ASSUME TypeOK
    PROVE  /\ Len(entries) \in Nat
           /\ \A i \in 1..Len(entries) :
                 /\ entries[i] \in Entry /\ entries[i].size \in Nat
                 /\ entries[i].start \in Nat /\ entries[i].id \in Nat
<1>1. entries \in Seq(Entry)
  BY DEF TypeOK
<1>2. Len(entries) \in Nat /\ \A i \in 1..Len(entries) : entries[i] \in Entry
  BY <1>1
<1>3. \A e \in Entry : e.size \in Nat /\ e.start \in Nat /\ e.id \in Nat
  BY DEF Entry
<1>4. QED
  BY <1>2, <1>3

\* Evicting the head keeps the invariant: the next entry begins where the
\* evicted one ended.
LEMMA EvictionKeeps == IInv /\ evictOldest => IInv'
<1> SUFFICES ASSUME IInv, evictOldest PROVE IInv'
  OBVIOUS
<1> DEFINE n == Len(entries)
<1> USE LimitsAssumption DEF IInv
<1>1. /\ entries \in Seq(Entry) /\ n \in Nat /\ n > 0
      /\ bytes \in Nat /\ total \in Nat /\ accepted \in Nat
      /\ Head(entries) = entries[1]
      /\ \A i \in 1..n : /\ entries[i] \in Entry /\ entries[i].size \in Nat
                         /\ entries[i].start \in Nat /\ entries[i].id \in Nat
  BY EntriesTyped DEF evictOldest, TypeOK
<1>2. /\ entries' \in Seq(Entry) /\ Len(entries') = n - 1
      /\ \A i \in 1..(n - 1) : entries'[i] = entries[i + 1]
  BY <1>1 DEF evictOldest
<1>3. accepted' = accepted /\ total' = total /\ pending' = pending
  BY DEF evictOldest
<1>4. bytes = total - entries[1].start
  BY <1>1 DEF BytesExact
<1>5. bytes' = total - (entries[1].start + entries[1].size)
  <2>1. entries[1].start + entries[1].size <= total
    BY <1>1 DEF Contiguous
  <2>2. bytes >= entries[1].size
    BY <1>1, <1>4, <2>1
  <2>3. QED
    BY <1>1, <1>4, <2>2 DEF evictOldest, Subtract
<1>6. bytes' \in Nat /\ bytes' <= bytes
  BY <1>1, <1>4, <1>5 DEF Contiguous
<1>7. TypeOK'
  BY <1>1, <1>2, <1>3, <1>6 DEF TypeOK
<1>8. Contiguous'
  <2> SUFFICES ASSUME NEW i \in 1..(n - 1)
               PROVE  /\ entries'[i].start + entries'[i].size <= total
                      /\ entries'[i].start + entries'[i].size =
                           IF i = n - 1 THEN total ELSE entries'[i + 1].start
    BY <1>2, <1>3 DEF Contiguous
  <2>1. i + 1 \in 1..n /\ entries'[i] = entries[i + 1]
    BY <1>1, <1>2
  <2>2. CASE i = n - 1
    BY <1>1, <2>1, <2>2 DEF Contiguous
  <2>3. CASE i # n - 1
    <3>1. i + 1 \in 1..(n - 1) /\ entries'[i + 1] = entries[i + 2] /\ i + 1 # n
      BY <1>1, <1>2, <2>3
    <3>2. QED
      BY <1>1, <2>1, <2>3, <3>1 DEF Contiguous
  <2>4. QED
    BY <2>2, <2>3
<1>9. BytesExact'
  <2>1. CASE n = 1
    <3>1. entries' = <<>>
      BY <1>2, <2>1
    <3>2. entries[1].start + entries[1].size = total
      BY <1>1, <2>1 DEF Contiguous
    <3>3. QED
      BY <1>1, <1>5, <3>1, <3>2 DEF BytesExact
  <2>2. CASE n > 1
    <3>1. entries' # <<>> /\ entries'[1] = entries[2]
      BY <1>1, <1>2, <2>2
    <3>2. entries[1].start + entries[1].size = entries[2].start
      BY <1>1, <2>2 DEF Contiguous
    <3>3. QED
      BY <1>1, <1>3, <1>5, <3>1, <3>2 DEF BytesExact
  <2>3. n = 1 \/ n > 1
    <3>1. \A k \in Nat : k > 0 => k = 1 \/ k > 1
      OBVIOUS
    <3>2. n \in Nat /\ n > 0
      BY <1>1
    <3>3. QED
      BY ZenonT(30), <3>1, <3>2
  <2>4. QED
    BY <2>1, <2>2, <2>3
<1>10. CountBounded' /\ BytesBounded'
  BY <1>1, <1>2, <1>6 DEF CountBounded, BytesBounded
<1>11. NewestInOrder'
  <2> SUFFICES ASSUME NEW i \in 1..(n - 1)
               PROVE  entries'[i].id = accepted - (n - 1) + i
    BY <1>2, <1>3 DEF NewestInOrder
  <2>1. i + 1 \in 1..n /\ entries'[i] = entries[i + 1]
    BY <1>1, <1>2
  <2>2. QED
    BY <1>1, <2>1 DEF NewestInOrder
<1>12. QED
  BY <1>7, <1>8, <1>9, <1>10, <1>11

\* Appending keeps the invariant: the new entry begins at total, and an empty
\* queue has no bytes.
LEMMA AppendKeeps == IInv /\ PushAppend => IInv'
<1> SUFFICES ASSUME IInv, PushAppend PROVE IInv'
  OBVIOUS
<1> DEFINE n == Len(entries)
           e == [id |-> accepted + 1, size |-> pending, start |-> total]
<1> USE LimitsAssumption DEF IInv, None
<1>1. /\ entries \in Seq(Entry) /\ n \in Nat
      /\ bytes \in Nat /\ total \in Nat /\ accepted \in Nat
      /\ pending \in Nat /\ pending <= MaxBytes
      /\ \A i \in 1..n : /\ entries[i] \in Entry /\ entries[i].size \in Nat
                         /\ entries[i].start \in Nat /\ entries[i].id \in Nat
  BY EntriesTyped DEF PushAppend, TypeOK
<1>2. e \in Entry /\ e.size = pending /\ e.start = total /\ e.id = accepted + 1
  BY <1>1 DEF Entry
<1>3. /\ entries' = Append(entries, e) /\ entries' \in Seq(Entry) /\ Len(entries') = n + 1
      /\ \A i \in 1..n : entries'[i] = entries[i]
      /\ entries'[n + 1] = e
  BY <1>1, <1>2 DEF PushAppend
<1>4. /\ accepted' = accepted + 1 /\ total' = total + pending
      /\ pending' = None /\ bytes' = bytes + pending /\ n < MaxSize
      /\ bytes + pending <= MaxBytes \/ entries = <<>>
  BY DEF PushAppend
<1>5. TypeOK'
  BY <1>1, <1>3, <1>4 DEF TypeOK
<1>6. Contiguous'
  <2> SUFFICES ASSUME NEW i \in 1..(n + 1)
               PROVE  /\ entries'[i].start + entries'[i].size <= total'
                      /\ entries'[i].start + entries'[i].size =
                           IF i = n + 1 THEN total' ELSE entries'[i + 1].start
    BY <1>3 DEF Contiguous
  <2>1. CASE i = n + 1
    BY <1>1, <1>2, <1>3, <1>4, <2>1
  <2>2. CASE i = n
    BY <1>1, <1>2, <1>3, <1>4, <2>2 DEF Contiguous
  <2>3. CASE i < n
    <3>1. i \in 1..n /\ i + 1 \in 1..n /\ entries'[i] = entries[i] /\ entries'[i + 1] = entries[i + 1]
      BY <1>1, <1>3, <2>3
    <3>2. QED
      BY <1>1, <1>4, <2>3, <3>1 DEF Contiguous
  <2>4. QED
    BY <1>1, <2>1, <2>2, <2>3
<1>7. BytesExact'
  <2>1. CASE n = 0
    <3>1. entries = <<>>
      BY <1>1, <2>1
    <3>2. entries' # <<>> /\ entries'[1] = e
      <4>1. n + 1 = 1
        BY <2>1
      <4>2. QED
        BY <1>3, <4>1
    <3>3. QED
      BY <1>1, <1>2, <1>4, <3>1, <3>2 DEF BytesExact
  <2>2. CASE n > 0
    <3>1. entries # <<>> /\ entries' # <<>> /\ entries'[1] = entries[1]
      BY <1>1, <1>3, <2>2
    <3>2. QED
      BY <1>1, <1>4, <2>2, <3>1 DEF BytesExact
  <2>3. QED
    BY <1>1, <2>1, <2>2
<1>8. CountBounded'
  BY <1>1, <1>3, <1>4 DEF CountBounded
<1>9. BytesBounded'
  BY <1>1, <1>4 DEF BytesBounded, BytesExact
<1>10. NewestInOrder'
  BY <1>1, <1>2, <1>3, <1>4 DEF NewestInOrder
<1>11. QED
  BY <1>5, <1>6, <1>7, <1>8, <1>9, <1>10

\* The queue never exceeds its limits, its byte counter is exact, and it holds
\* the newest accepted requests in order, for every MaxSize and MaxBytes.
THEOREM QueueInvariant == Spec => []IInv
<1>1. Init => IInv
  BY LimitsAssumption
  DEF Init, IInv, TypeOK, Contiguous, BytesExact, CountBounded, BytesBounded, NewestInOrder, None
<1>2. IInv /\ [Next]_vars => IInv'
  <2> SUFFICES ASSUME IInv, [Next]_vars PROVE IInv'
    OBVIOUS
  <2>1. ASSUME NEW size \in EntrySizes, PushLock(size) PROVE IInv'
    BY <2>1, SizesAssumption
    DEF PushLock, IInv, TypeOK, Contiguous, BytesExact, CountBounded, BytesBounded, NewestInOrder, None
  <2>2. ASSUME NEW size \in EntrySizes, PushTooLarge(size) PROVE IInv'
    BY <2>2
    DEF PushTooLarge, vars, IInv, TypeOK, Contiguous, BytesExact, CountBounded, BytesBounded, NewestInOrder
  <2>3. CASE EvictByCount
    BY <2>3, EvictionKeeps DEF EvictByCount
  <2>4. CASE EvictByBytes
    BY <2>4, EvictionKeeps DEF EvictByBytes
  <2>5. CASE PushAppend
    BY <2>5, AppendKeeps
  <2>6. CASE Pop
    BY <2>6, EvictionKeeps DEF Pop
  <2>7. CASE UNCHANGED vars
    BY <2>7 DEF vars, IInv, TypeOK, Contiguous, BytesExact, CountBounded, BytesBounded, NewestInOrder
  <2>8. QED
    BY <2>1, <2>2, <2>3, <2>4, <2>5, <2>6, <2>7 DEF Next
<1>3. QED
  BY <1>1, <1>2, PTL DEF Spec

\* The memory held by the failover queue is bounded by MaxBytes although Push
\* never compares an entry with the limit once the queue is empty.
THEOREM FailoverBytesBounded == Spec => []BytesBounded
<1>1. IInv => BytesBounded
  BY DEF IInv
<1>2. QED
  BY <1>1, QueueInvariant, PTL

\* The failover queue is always the newest accepted requests in order.
THEOREM FailoverNewestInOrder == Spec => []NewestInOrder
<1>1. IInv => NewestInOrder
  BY DEF IInv
<1>2. QED
  BY <1>1, QueueInvariant, PTL

-----------------------------------------------------------------------------
(* The queue implements the one its users see *)

Req == [id : Nat, size : Nat]

\* the two instances of FailoverQueue have the same operators, and the sum of Sums
LEMMA SameOperators ==
    ASSUME NEW q, NEW r
    PROVE  /\ Ops!AfterPush(q, r) = Abstract!AfterPush(q, r)
           /\ Abstract!BytesOf(q) = Prefix([i \in DOMAIN q |-> q[i].size], Len(q))
<1>1. Ops!AfterPush(q, r) = Abstract!AfterPush(q, r)
  BY DEF Ops!AfterPush, Ops!Without, Ops!Evicted, Ops!HasRoom, Ops!BytesOf, Ops!Prefix,
         Abstract!AfterPush, Abstract!Without, Abstract!Evicted, Abstract!HasRoom, Abstract!BytesOf, Abstract!Prefix
<1>2. Abstract!BytesOf(q) = Prefix([i \in DOMAIN q |-> q[i].size], Len(q))
  BY DEF Abstract!BytesOf, Abstract!Prefix, Prefix
<1>3. QED
  BY <1>1, <1>2

\* how a queue is without its oldest entries
LEMMA WithoutIs ==
    ASSUME NEW q \in Seq(Req), NEW n \in 0..Len(q)
    PROVE  LET w == Abstract!Without(q, n)
           IN  /\ w \in Seq(Req) /\ Len(w) = Len(q) - n
               /\ \A i \in 1..(Len(q) - n) : w[i] = q[n + i]
<1> DEFINE w == SubSeq(q, n + 1, Len(q))
<1>1. n \in Nat /\ Len(q) \in Nat /\ n <= Len(q) /\ \A i \in 1..Len(q) : q[i] \in Req
  OBVIOUS
<1>2. \A i \in (n + 1)..Len(q) : q[i] \in Req
  BY <1>1
<1>3. /\ w \in Seq(Req) /\ Len(w) = (IF n + 1 <= Len(q) THEN Len(q) - (n + 1) + 1 ELSE 0)
      /\ \A i \in 1..(Len(q) - (n + 1) + 1) : w[i] = q[(n + 1) + i - 1]
  BY <1>1, <1>2, SubSeqProperties
<1>4. Len(w) = Len(q) - n /\ \A i \in 1..(Len(q) - n) : w[i] = q[n + i]
  BY <1>1, <1>3
<1>5. QED
  BY <1>3, <1>4 DEF Abstract!Without

\* the number that Evicted chooses
LEMMA EvictedIs ==
    ASSUME NEW q \in Seq(Req), NEW r, NEW n \in 0..Len(q),
           Abstract!HasRoom(Abstract!Without(q, n), r),
           \A m \in 0..(n - 1) : ~Abstract!HasRoom(Abstract!Without(q, m), r)
    PROVE  Abstract!Evicted(q, r) = n
<1> DEFINE Room(m) == Abstract!HasRoom(Abstract!Without(q, m), r)
           P(k) == Room(k) /\ \A m \in 0..(k - 1) : ~Room(m)
<1>1. \A k \in 0..Len(q) : P(k) => k = n
  <2> SUFFICES ASSUME NEW k \in 0..Len(q), P(k) PROVE k = n
    OBVIOUS
  <2>1. k \in Int /\ n \in Int /\ k >= 0 /\ n >= 0
    OBVIOUS
  <2>2. P(n)
    OBVIOUS
  <2>3. ~(k < n)
    <3>1. k < n => k \in 0..(n - 1)
      BY <2>1
    <3> HIDE DEF Room
    <3>2. QED
      BY <2>2, <3>1
  <2>4. ~(n < k)
    <3>1. n < k => n \in 0..(k - 1)
      BY <2>1
    <3> HIDE DEF Room
    <3>2. QED
      BY <2>2, <3>1
  <2>5. QED
    BY <2>1, <2>3, <2>4
<1>2. P(n) /\ n \in 0..Len(q)
  OBVIOUS
<1>3. Abstract!Evicted(q, r) = CHOOSE k \in 0..Len(q) : P(k)
  BY DEF Abstract!Evicted
<1> HIDE DEF P
<1>4. QED
  BY <1>1, <1>2, <1>3

\* there is always such a number: the empty queue has room
LEMMA EvictedExists ==
    ASSUME NEW q \in Seq(Req), NEW r, r.size \in Nat, r.size <= MaxBytes
    PROVE  \E n \in 0..Len(q) :
              /\ Abstract!HasRoom(Abstract!Without(q, n), r)
              /\ \A m \in 0..(n - 1) : ~Abstract!HasRoom(Abstract!Without(q, m), r)
<1> DEFINE T == {n \in 0..Len(q) : Abstract!HasRoom(Abstract!Without(q, n), r)}
           e == Abstract!Without(q, Len(q))
<1>1. Len(q) \in Nat /\ Len(q) \in 0..Len(q)
  OBVIOUS
<1>2. e \in Seq(Req) /\ Len(e) = 0
  BY <1>1, WithoutIs
<1> HIDE DEF e
<1>3. Abstract!BytesOf(e) = 0
  <2> DEFINE f == [i \in DOMAIN e |-> e[i].size]
  <2>1. Abstract!BytesOf(e) = Prefix(f, Len(e))
    BY SameOperators
  <2> HIDE DEF f
  <2>2. Prefix(f, 0) = 0
    BY PrefixStep
  <2>3. QED
    BY <1>2, <2>1, <2>2
<1>4. Abstract!HasRoom(e, r)
  BY <1>2, <1>3, LimitsAssumption DEF Abstract!HasRoom
<1>5. Len(q) \in T
  BY <1>1, <1>4 DEF e
<1>6. T \subseteq Nat
  BY <1>1
<1>7. PICK n \in T : \A m \in T : n <= m
  BY <1>5, <1>6, LeastOf, Zenon
<1>8. ASSUME NEW m \in 0..(n - 1) PROVE ~Abstract!HasRoom(Abstract!Without(q, m), r)
  <2>1. m \in 0..Len(q) /\ ~(n <= m)
    BY <1>1, <1>7
  <2>2. m \notin T
    BY <1>7, <2>1
  <2>3. QED
    BY <2>1, <2>2
<1>9. QED
  BY <1>7, <1>8

\* a push onto a queue with room evicts nothing
LEMMA RoomForAll ==
    ASSUME NEW q \in Seq(Req), NEW r, Abstract!HasRoom(q, r)
    PROVE  Abstract!AfterPush(q, r) = Append(q, r)
<1>1. 0 \in 0..Len(q) /\ 0..(0 - 1) = {}
  OBVIOUS
<1>2. Abstract!Without(q, 0) = q
  <2> DEFINE w == Abstract!Without(q, 0)
  <2>1. w \in Seq(Req) /\ Len(w) = Len(q) /\ \A i \in 1..Len(q) : w[i] = q[i]
    BY <1>1, WithoutIs
  <2> HIDE DEF w
  <2>2. w = q
    BY <2>1, SeqEqual
  <2>3. QED
    BY <2>2 DEF w
<1>3. Abstract!Evicted(q, r) = 0
  BY <1>1, <1>2, EvictedIs
<1>4. QED
  BY <1>2, <1>3 DEF Abstract!AfterPush

\* without room the oldest entry has to go, and the rest is as if it had not been there
LEMMA NoRoomEvicts ==
    ASSUME NEW q \in Seq(Req), q # <<>>, NEW r, r.size \in Nat, r.size <= MaxBytes,
           ~Abstract!HasRoom(q, r)
    PROVE  Abstract!AfterPush(q, r) = Abstract!AfterPush(Tail(q), r)
<1> DEFINE t == Tail(q)
           Wq(n) == Abstract!Without(q, n)
           Wt(n) == Abstract!Without(t, n)
<1>1. t \in Seq(Req) /\ Len(q) \in Nat /\ Len(t) = Len(q) - 1 /\ Len(t) \in Nat
      /\ \A i \in 1..Len(t) : t[i] = q[i + 1]
  OBVIOUS
<1> HIDE DEF t
<1>2. ASSUME NEW n \in 0..Len(t) PROVE Wq(n + 1) = Wt(n)
  <2>1. n + 1 \in 0..Len(q)
    BY <1>1
  <2>2. /\ Wq(n + 1) \in Seq(Req) /\ Len(Wq(n + 1)) = Len(q) - (n + 1)
        /\ \A i \in 1..(Len(q) - (n + 1)) : Wq(n + 1)[i] = q[(n + 1) + i]
    BY <2>1, WithoutIs
  <2>3. /\ Wt(n) \in Seq(Req) /\ Len(Wt(n)) = Len(t) - n
        /\ \A i \in 1..(Len(t) - n) : Wt(n)[i] = t[n + i]
    BY ZenonT(30), <1>1, WithoutIs
  <2> HIDE DEF Wq, Wt
  <2>4. Len(q) - (n + 1) = Len(t) - n
    BY <1>1
  <2>5. \A i \in 1..(Len(t) - n) : t[n + i] = q[(n + 1) + i]
    BY <1>1
  <2>6. QED
    BY ZenonT(30), <2>2, <2>3, <2>4, <2>5, SeqEqual
<1>3. Wq(0) = q
  <2> DEFINE w == Abstract!Without(q, 0)
  <2>1. w \in Seq(Req) /\ Len(w) = Len(q) /\ \A i \in 1..Len(q) : w[i] = q[i]
    BY <1>1, WithoutIs
  <2> HIDE DEF w
  <2>2. w = q
    BY <2>1, SeqEqual
  <2>3. QED
    BY <2>2 DEF w
<1>4. PICK n \in 0..Len(t) : Abstract!HasRoom(Wt(n), r) /\ \A m \in 0..(n - 1) : ~Abstract!HasRoom(Wt(m), r)
  BY <1>1, EvictedExists
<1>5. Abstract!Evicted(t, r) = n
  BY <1>1, <1>4, EvictedIs
<1>6. n + 1 \in 0..Len(q) /\ n \in Nat /\ (n + 1) - 1 = n
  BY <1>1
<1>7. Abstract!HasRoom(Wq(n + 1), r)
  BY <1>2, <1>4
<1>8. ASSUME NEW m \in 0..n PROVE ~Abstract!HasRoom(Wq(m), r)
  <2>1. CASE m = 0
    BY <1>3, <2>1
  <2>2. CASE m # 0
    <3>1. m - 1 \in 0..(n - 1) /\ m - 1 \in 0..Len(t) /\ (m - 1) + 1 = m
      BY <1>6, <2>2, <1>1
    <3>2. Wq((m - 1) + 1) = Wt(m - 1)
      BY <1>2, <3>1
    <3>3. ~Abstract!HasRoom(Wt(m - 1), r)
      BY <1>4, <3>1
    <3>4. QED
      BY <3>1, <3>2, <3>3
  <2>3. QED
    BY <2>1, <2>2
<1>9. Abstract!Evicted(q, r) = n + 1
  BY <1>6, <1>7, <1>8, EvictedIs
<1>10. Abstract!AfterPush(q, r) = Append(Wq(n + 1), r) /\ Abstract!AfterPush(t, r) = Append(Wt(n), r)
  BY <1>5, <1>9 DEF Abstract!AfterPush
<1>11. QED
  BY <1>2, <1>10 DEF t

\* what the users see is requests
LEMMA ContentsTyped ==
    ASSUME TypeOK
    PROVE  /\ Contents \in Seq(Req) /\ Len(Contents) = Len(entries) /\ DOMAIN Contents = 1..Len(entries)
           /\ \A i \in 1..Len(entries) : Contents[i] = Request(entries[i].id, entries[i].size)
                                          /\ Contents[i].size = entries[i].size
<1>1. entries \in Seq(Entry) /\ DOMAIN entries = 1..Len(entries)
  BY DEF TypeOK
<1>2. \A i \in 1..Len(entries) : /\ Contents[i] = Request(entries[i].id, entries[i].size)
                                 /\ Contents[i] \in Req /\ Contents[i].size = entries[i].size
  BY <1>1, EntriesTyped DEF Contents, Request, Req
<1>3. Len(entries) \in Nat /\ DOMAIN Contents = 1..Len(entries) /\ Contents = [i \in 1..Len(entries) |-> Contents[i]]
  BY <1>1, EntriesTyped DEF Contents
<1> HIDE DEF Contents
<1>4. Contents \in Seq(Req)
  BY <1>2, <1>3
<1>5. Len(Contents) = Len(entries)
  BY <1>3, <1>4
<1>6. QED
  BY <1>2, <1>3, <1>4, <1>5

\* the byte counter is the bytes of the contents
LEMMA BytesAreContents ==
    ASSUME IInv
    PROVE  Abstract!BytesOf(Contents) = bytes
<1> DEFINE n == Len(entries)
           f == [i \in DOMAIN Contents |-> Contents[i].size]
           End(j) == IF j = n THEN total ELSE entries[j + 1].start
           S == {j \in Nat : j <= n => Prefix(f, j) = End(j) - End(0)}
<1>1. TypeOK /\ n \in Nat /\ total \in Nat
      /\ \A i \in 1..n : entries[i].size \in Nat /\ entries[i].start \in Nat
  BY EntriesTyped DEF IInv, TypeOK
<1>2. \A i \in 1..n : f[i] = entries[i].size /\ f[i] \in Nat
  BY <1>1, ContentsTyped
<1> HIDE DEF f
<1>3. \A j \in 0..n : End(j) \in Nat
  BY <1>1
<1>4. \A j \in 0..(n - 1) : End(j + 1) = End(j) + entries[j + 1].size
  BY <1>1 DEF IInv, Contiguous
<1> HIDE DEF End, n
<1>5. 0 \in S
  <2>1. Prefix(f, 0) = 0 /\ End(0) \in Nat
    BY <1>1, <1>3, PrefixStep
  <2>2. QED
    BY <2>1
<1>6. ASSUME NEW j \in Nat, j \in S PROVE j + 1 \in S
  <2> SUFFICES ASSUME j + 1 <= n PROVE Prefix(f, j + 1) = End(j + 1) - End(0)
    OBVIOUS
  <2>1. /\ j + 1 \in Nat /\ j + 1 # 0 /\ (j + 1) - 1 = j /\ j + 1 \in 1..n
        /\ j \in 0..(n - 1) /\ j \in 0..n /\ 0 \in 0..n /\ j <= n
        /\ \A i \in 1..(j + 1) : f[i] \in Nat
    BY <1>1, <1>2
  <2>2. Prefix(f, j + 1) = Prefix(f, j) + f[j + 1]
    BY <2>1, PrefixStep
  <2>3. Prefix(f, j) = End(j) - End(0)
    BY <1>6, <2>1
  <2>4. f[j + 1] = entries[j + 1].size /\ entries[j + 1].size \in Nat
    BY <1>1, <1>2, <2>1
  <2>5. End(j + 1) = End(j) + entries[j + 1].size /\ End(j) \in Nat /\ End(0) \in Nat
    BY <1>3, <1>4, <2>1
  <2>6. QED
    BY <2>2, <2>3, <2>4, <2>5
<1>7. Nat \subseteq S
  <2> HIDE DEF S
  <2> QED
    BY <1>5, <1>6, Induction, Zenon
<1>8. Prefix(f, n) = End(n) - End(0)
  BY <1>1, <1>7
<1>9. End(n) - End(0) = bytes
  <2>1. CASE n = 0
    <3>1. entries = <<>>
      BY <1>1, <2>1 DEF n, TypeOK
    <3>2. QED
      BY <1>1, <2>1, <3>1 DEF IInv, BytesExact, End
  <2>2. CASE n # 0
    <3>1. entries # <<>>
      BY <2>2 DEF n
    <3>2. QED
      BY <1>1, <2>2, <3>1 DEF IInv, BytesExact, End
  <2>3. QED
    BY <2>1, <2>2
<1>10. Abstract!BytesOf(Contents) = Prefix(f, Len(Contents)) /\ Len(Contents) = n
  BY ZenonT(30), <1>1, SameOperators, ContentsTyped DEF f, n
<1>11. QED
  BY <1>8, <1>9, <1>10

\* the loops of Push go on exactly while there is no room
LEMMA RoomIs ==
    ASSUME IInv, NEW r
    PROVE  Abstract!HasRoom(Contents, r) <=> Len(entries) < MaxSize /\ bytes + r.size <= MaxBytes
BY BytesAreContents, ContentsTyped DEF Abstract!HasRoom, IInv

\* the users see the head leave
LEMMA EvictionSeen ==
    ASSUME IInv, evictOldest
    PROVE  Contents # <<>> /\ Contents' = Tail(Contents)
<1> DEFINE n == Len(entries)
           c == Contents
           d == Contents'
<1>1. /\ entries \in Seq(Entry) /\ n \in Nat /\ n > 0
      /\ entries' \in Seq(Entry) /\ Len(entries') = n - 1
      /\ \A i \in 1..(n - 1) : entries'[i] = entries[i + 1]
  BY DEF IInv, TypeOK, evictOldest
<1>2. c \in Seq(Req) /\ Len(c) = n
      /\ \A i \in 1..n : c[i] = Request(entries[i].id, entries[i].size)
  BY ContentsTyped DEF IInv
<1>3. /\ DOMAIN d = 1..(n - 1)
      /\ d = [i \in 1..(n - 1) |-> d[i]]
      /\ \A i \in 1..(n - 1) : d[i] = Request(entries[i + 1].id, entries[i + 1].size)
  BY <1>1 DEF Contents
<1> HIDE DEF c, d, n
<1>4. c # <<>> /\ Tail(c) \in Seq(Req) /\ Len(Tail(c)) = n - 1
      /\ \A i \in 1..(n - 1) : Tail(c)[i] = c[i + 1]
  BY <1>1, <1>2
<1>5. \A i \in 1..(n - 1) : d[i] = Tail(c)[i] /\ d[i] \in Req
  <2>1. \A i \in 1..(n - 1) : i + 1 \in 1..n /\ Tail(c)[i] \in Req
    BY <1>1, <1>4
  <2>2. QED
    BY <1>2, <1>3, <1>4, <2>1
<1>6. d \in Seq(Req) /\ Len(d) = n - 1
  BY <1>1, <1>3, <1>5
<1>7. d = Tail(c)
  BY <1>4, <1>5, <1>6, SeqEqual
<1>8. QED
  BY <1>4, <1>7 DEF c, d

\* the users see the request arrive at the tail
LEMMA AppendSeen ==
    ASSUME IInv, PushAppend
    PROVE  Contents' = Append(Contents, Request(accepted + 1, pending))
<1> DEFINE n == Len(entries)
           c == Contents
           d == Contents'
           r == Request(accepted + 1, pending)
           x == [id |-> accepted + 1, size |-> pending, start |-> total]
<1>1. /\ entries \in Seq(Entry) /\ n \in Nat /\ x \in Entry /\ r \in Req
      /\ x.id = accepted + 1 /\ x.size = pending
      /\ entries' = Append(entries, x)
  BY DEF IInv, TypeOK, PushAppend, Entry, Req, Request, None
<1>2. c \in Seq(Req) /\ Len(c) = n
      /\ \A i \in 1..n : c[i] = Request(entries[i].id, entries[i].size)
  BY ContentsTyped DEF IInv
<1> HIDE DEF x
<1>3. /\ entries' \in Seq(Entry) /\ Len(entries') = n + 1 /\ entries'[n + 1] = x
      /\ \A i \in 1..n : entries'[i] = entries[i]
  BY <1>1
<1>4. /\ DOMAIN d = 1..(n + 1)
      /\ d = [i \in 1..(n + 1) |-> d[i]]
      /\ \A i \in 1..(n + 1) : d[i] = Request(entries'[i].id, entries'[i].size)
  BY <1>3 DEF Contents
<1> HIDE DEF c, d, n, r
<1>5. d[n + 1] = r
  <2>1. n + 1 \in 1..(n + 1)
    BY <1>1
  <2>2. QED
    BY <1>1, <1>3, <1>4, <2>1 DEF r
<1>6. \A i \in 1..n : d[i] = c[i]
  <2>1. \A i \in 1..n : i \in 1..(n + 1)
    BY <1>1
  <2>2. QED
    BY <1>2, <1>3, <1>4, <2>1
<1>7. /\ Append(c, r) \in Seq(Req) /\ Len(Append(c, r)) = n + 1
      /\ Append(c, r)[n + 1] = r /\ \A i \in 1..n : Append(c, r)[i] = c[i]
  BY <1>1, <1>2, AppendProperties
<1>8. \A i \in 1..(n + 1) : d[i] = Append(c, r)[i] /\ d[i] \in Req
  <2>1. \A i \in 1..(n + 1) : i = n + 1 \/ i \in 1..n
    BY <1>1
  <2>2. \A i \in 1..n : c[i] \in Req
    BY <1>2
  <2>3. QED
    BY <1>1, <1>5, <1>6, <1>7, <2>1, <2>2
<1>9. d \in Seq(Req) /\ Len(d) = n + 1
  <2> DEFINE m == n + 1
  <2>1. m \in Nat /\ d = [i \in 1..m |-> d[i]] /\ DOMAIN d = 1..m /\ \A i \in 1..m : d[i] \in Req
    BY <1>1, <1>4, <1>8
  <2> HIDE DEF m
  <2>2. d \in Seq(Req)
    BY <2>1
  <2>3. Len(d) = m
    BY <2>1, <2>2
  <2>4. QED
    BY <2>2, <2>3 DEF m
<1>10. d = Append(c, r)
  BY <1>7, <1>8, <1>9, SeqEqual
<1>11. QED
  BY <1>10 DEF c, d, r

\* the mapping, by whether a push holds the mutex
LEMMA MappedIs ==
    /\ pending = None => Mapped = Contents
    /\ pending # None => Mapped = Abstract!AfterPush(Contents, Request(accepted + 1, pending))
    /\ pending' = None => Mapped' = Contents'
    /\ pending' # None => Mapped' = Abstract!AfterPush(Contents', Request(accepted' + 1, pending'))
<1>1. \A q, r : Ops!AfterPush(q, r) = Abstract!AfterPush(q, r)
  BY ZenonT(30), SameOperators
<1>2. QED
  BY <1>1 DEF Mapped

\* an eviction of Push is no step of the queue the users see
LEMMA EvictionHidden ==
    ASSUME IInv, EvictByCount \/ EvictByBytes
    PROVE  Mapped' = Mapped
<1> DEFINE r == Request(accepted + 1, pending)
<1>1. evictOldest /\ pending # None /\ ~(Len(entries) < MaxSize /\ bytes + pending <= MaxBytes)
  <2>1. Len(entries) \in Nat /\ MaxSize \in Nat /\ MaxBytes \in Nat /\ bytes \in Nat /\ pending \in Nat \cup {None}
    BY LimitsAssumption, EntriesTyped DEF IInv, TypeOK
  <2>2. evictOldest /\ pending # None
    BY DEF EvictByCount, EvictByBytes
  <2>3. QED
    BY <2>1, <2>2 DEF EvictByCount, EvictByBytes, None
<1>2. pending' = pending /\ accepted' = accepted
  BY <1>1 DEF evictOldest
<1>3. r.size = pending /\ r.size \in Nat /\ r.size <= MaxBytes
  BY <1>1 DEF IInv, TypeOK, Request
<1>4. ~Abstract!HasRoom(Contents, r)
  BY <1>1, <1>3, RoomIs
<1>5. Contents \in Seq(Req)
  BY ContentsTyped DEF IInv
<1>6. Contents # <<>> /\ Contents' = Tail(Contents)
  BY <1>1, EvictionSeen
<1> HIDE DEF r
<1>7. Abstract!AfterPush(Contents, r) = Abstract!AfterPush(Tail(Contents), r)
  BY <1>3, <1>4, <1>5, <1>6, NoRoomEvicts
<1>8. QED
  BY <1>1, <1>2, <1>6, <1>7, MappedIs DEF r

\* the append of Push is no step of it either: the push took effect with the mutex
LEMMA AppendHidden ==
    ASSUME IInv, PushAppend
    PROVE  Mapped' = Mapped
<1> DEFINE r == Request(accepted + 1, pending)
<1>1. pending # None /\ pending' = None
  BY DEF PushAppend
<1>2. r.size = pending /\ pending \in Nat /\ pending <= MaxBytes
  BY <1>1 DEF IInv, TypeOK, Request
<1>3. Len(entries) < MaxSize /\ bytes + pending <= MaxBytes
  <2>1. entries = <<>> => bytes = 0
    BY DEF IInv, BytesExact
  <2>2. QED
    BY <1>2, <2>1 DEF PushAppend
<1>4. Abstract!HasRoom(Contents, r)
  BY <1>2, <1>3, RoomIs
<1>5. Contents \in Seq(Req)
  BY ContentsTyped DEF IInv
<1>6. Contents' = Append(Contents, r)
  BY AppendSeen
<1> HIDE DEF r
<1>7. Abstract!AfterPush(Contents, r) = Append(Contents, r)
  BY <1>4, <1>5, RoomForAll
<1>8. QED
  BY <1>1, <1>6, <1>7, MappedIs DEF r

\* Push and Pop of the failover queue are atomic to its users: the mutex is
\* where a push takes effect, and the two eviction loops together give up the
\* fewest oldest requests that make room.
THEOREM FailoverRefinement == Spec => ImplementsFailoverQueue
<1>1. Init => Abstract!Init
  <2> SUFFICES ASSUME Init PROVE Mapped = <<>>
    BY DEF Abstract!Init
  <2>1. Mapped = Contents /\ entries = <<>>
    BY MappedIs DEF Init
  <2>2. QED
    BY <2>1 DEF Contents
<1>2. IInv /\ [Next]_vars => [Abstract!Next]_Mapped
  <2> SUFFICES ASSUME IInv, [Next]_vars PROVE Abstract!Next \/ Mapped' = Mapped
    OBVIOUS
  <2>1. ASSUME NEW size \in EntrySizes, PushLock(size) PROVE Abstract!Next
    <3> DEFINE r == Request(accepted + 1, size)
    <3>1. pending = None /\ pending' = size /\ accepted < MaxPushes /\ size <= MaxBytes
          /\ entries' = entries /\ accepted' = accepted
      BY <2>1 DEF PushLock
    <3>2. size \in Nat /\ accepted \in Nat /\ size # None
      BY SizesAssumption DEF IInv, TypeOK, None
    <3>3. accepted + 1 \in 1..MaxPushes
      BY <3>1, <3>2, PushesAssumption
    <3>4. r \in AllRequests /\ r.size = size
      BY <3>3 DEF AllRequests, Request
    <3>5. Contents' = Contents
      BY <3>1 DEF Contents
    <3>6. Mapped' = Abstract!AfterPush(Mapped, r)
      BY <3>1, <3>2, <3>5, MappedIs
    <3>7. Abstract!Push(r)
      BY <3>1, <3>4, <3>6 DEF Abstract!Push
    <3>8. QED
      BY <3>4, <3>7 DEF Abstract!Next
  <2>2. ASSUME Pop PROVE Abstract!Next
    <3>1. pending = None /\ pending' = None /\ evictOldest
      BY <2>2 DEF Pop, evictOldest
    <3>2. Mapped # <<>> /\ Mapped' = Tail(Mapped)
      BY <3>1, EvictionSeen, MappedIs
    <3>3. QED
      BY <3>2 DEF Abstract!Next, Abstract!Pop
  <2>3. ASSUME UNCHANGED vars PROVE Mapped' = Mapped
    <3>1. entries' = entries /\ pending' = pending /\ accepted' = accepted
      BY <2>3 DEF vars
    <3>2. Contents' = Contents
      BY <3>1 DEF Contents
    <3>3. QED
      BY <3>1, <3>2, MappedIs
  <2>4. ASSUME NEW size \in EntrySizes, PushTooLarge(size) PROVE Mapped' = Mapped
    BY <2>3, <2>4 DEF PushTooLarge
  <2>5. QED
    BY <2>1, <2>2, <2>3, <2>4, EvictionHidden, AppendHidden DEF Next
<1>3. QED
  BY <1>1, <1>2, QueueInvariant, PTL DEF Spec, ImplementsFailoverQueue, Abstract!Spec

=============================================================================
