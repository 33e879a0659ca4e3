------------------------ MODULE MetricsBufferProofs ------------------------
(***************************************************************************)
(* Proofs about the buffer, for any number of producers, any sizes and     *)
(* capacities and every policy: an accepted entry is in one place, the     *)
(* final flush takes what is left, and the buffer exceeds its capacity     *)
(* only so far.                                                            *)
(*                                                                         *)
(* The inductive invariant IInv adds to EntryInOnePlace that entries on    *)
(* their way have numbers of their own (OnTheirWay), when the flush        *)
(* goroutine holds entries (Flushing), and what the shutdown has reached   *)
(* (Ending).                                                               *)
(*                                                                         *)
(* The counter currentBytes is not the number of buffered bytes: bytes are *)
(* counted after they are appended, taken off after they are evicted, and  *)
(* reset after they are taken.  The inductive invariant BInv adds to IInv  *)
(* who holds the mutex (Locks) and how far the counter can be from the     *)
(* bytes (Counted), in terms of the sums over all producers of what is     *)
(* appended and not counted (Uncounted), and of what has passed the test   *)
(* of the capacity and is not counted (InFlight).                          *)
(***************************************************************************)
EXTENDS MetricsBuffer, SumProofs, FiniteSetTheorems

\* where a producer is, and where it is before it has appended its entry
Before == {"enforce", "evict", "evict_add", "block", "wait", "waiting", "append"}
Where == {"idle", "count", "signal"} \cup Before

Shape ==
    /\ metrics \in Seq(Nat) /\ toSend \in Seq(Nat) /\ flushed \in Seq(Nat)
    /\ metricSizes \in Seq(Nat) /\ Len(metricSizes) = Len(metrics)
    /\ currentBytes \in Int
    /\ pc \in [Producers -> Where]
    /\ incoming \in [Producers -> [id : Nat, size : Nat]]
    /\ evictedBytes \in [Producers -> Nat]
    /\ adds \in Nat
    /\ conf \in Configs

\* an entry on its way is a new one, and the only one with its number
OnTheirWay ==
    /\ accepted \subseteq 1..adds
    /\ \A p \in Producers : pc[p] \in Before => incoming[p].id \in (1..adds) \ accepted
    /\ \A p, q \in Producers :
          p # q /\ pc[p] \in Before /\ pc[q] \in Before => incoming[p].id # incoming[q].id

\* the flush goroutine holds entries only during a flush
Flushing ==
    /\ fpc \in {"idle", "swap", "broadcast", "export", "done"}
    /\ fpc \in {"idle", "done"} => toSend = <<>>

\* the shutdown: once the context is cancelled nobody adds, unless main gave up,
\* and the final flush has left the buffer empty
Ending ==
    /\ (final => ctxDone) /\ (ctxDone => closing) /\ (fpc = "done" => ctxDone)
    /\ ctxDone /\ ~gaveUp => \A p \in Producers : pc[p] = "idle"
    /\ (fpc = "done" \/ (fpc # "idle" /\ final)) /\ ~gaveUp => metrics = <<>>

IInv == Shape /\ OnTheirWay /\ Flushing /\ Ending /\ EntryInOnePlace

-----------------------------------------------------------------------------
(* Sequences of entries *)

\* a new entry at the end is in one place
LEMMA AddOne ==
    ASSUME NEW s \in Seq(Nat), NEW e \in Nat, IsInjective(s), e \notin Range(s)
    PROVE  /\ Append(s, e) \in Seq(Nat) /\ IsInjective(Append(s, e))
           /\ Range(Append(s, e)) = Range(s) \cup {e}
<1> DEFINE a == Append(s, e)
<1>1. /\ a \in Seq(Nat) /\ Len(s) \in Nat /\ DOMAIN s = 1..Len(s)
      /\ DOMAIN a = 1..(Len(s) + 1)
      /\ \A i \in 1..Len(s) : a[i] = s[i]
      /\ a[Len(s) + 1] = e
  OBVIOUS
<1> HIDE DEF a
<1>2. \A i \in 1..Len(s) : s[i] # e
  BY <1>1, Zenon DEF Range
<1>3. IsInjective(a)
  <2> SUFFICES ASSUME NEW i \in 1..(Len(s) + 1), NEW j \in 1..(Len(s) + 1), a[i] = a[j]
               PROVE  i = j
    BY <1>1 DEF IsInjective
  <2>1. CASE i \in 1..Len(s) /\ j \in 1..Len(s)
    BY <2>1, <1>1 DEF IsInjective
  <2>2. CASE i = Len(s) + 1 \/ j = Len(s) + 1
    BY SMTT(30), ZenonT(30), <2>2, <1>1, <1>2
  <2>3. QED
    BY <2>1, <2>2, <1>1
<1>4. Range(a) = Range(s) \cup {e}
  <2>1. Len(s) + 1 \in 1..(Len(s) + 1) /\ 1..Len(s) \subseteq 1..(Len(s) + 1)
    BY <1>1
  <2>2. Range(a) \subseteq Range(s) \cup {e}
    BY <1>1 DEF Range
  <2>3. Range(s) \cup {e} \subseteq Range(a)
    BY <2>1, <1>1, Zenon DEF Range
  <2>4. QED
    BY <2>2, <2>3
<1>5. QED
  BY <1>1, <1>3, <1>4 DEF a

\* where the elements of a concatenation come from
LEMMA ConcatAt ==
    ASSUME NEW s \in Seq(Nat), NEW t \in Seq(Nat)
    PROVE  /\ s \o t \in Seq(Nat) /\ Len(s \o t) = Len(s) + Len(t)
           /\ DOMAIN (s \o t) = 1..(Len(s) + Len(t))
           /\ \A i \in 1..Len(s) : (s \o t)[i] = s[i]
           /\ \A i \in 1..Len(t) : (s \o t)[Len(s) + i] = t[i]
<1>1. s \o t \in Seq(Nat) /\ Len(s \o t) = Len(s) + Len(t)
      /\ \A i \in 1..(Len(s) + Len(t)) : (s \o t)[i] = IF i <= Len(s) THEN s[i] ELSE t[i - Len(s)]
  BY ConcatProperties
<1>2. QED
  BY <1>1

\* the first k of the entries at the end are taken out
LEMMA CutFirst ==
    ASSUME NEW s \in Seq(Nat), NEW t \in Seq(Nat), NEW k \in 0..Len(t), IsInjective(s \o t)
    PROVE  LET rest == s \o SubSeq(t, k + 1, Len(t))
               cut == {t[i] : i \in 1..k}
           IN  /\ SubSeq(t, k + 1, Len(t)) \in Seq(Nat)
               /\ Len(SubSeq(t, k + 1, Len(t))) = Len(t) - k
               /\ IsInjective(rest)
               /\ Range(rest) \cup cut = Range(s \o t) /\ Range(rest) \cap cut = {}
<1> DEFINE a == s \o t
           r == SubSeq(t, k + 1, Len(t))
           b == s \o r
           cut == {t[i] : i \in 1..k}
           m == Len(s)
           n == Len(t)
<1>1. m \in Nat /\ n \in Nat /\ k \in Nat /\ k <= n
  OBVIOUS
<1>2. /\ r \in Seq(Nat) /\ Len(r) = n - k
      /\ \A i \in 1..(n - k) : r[i] = t[k + i]
  <2>1. \A i \in (k + 1)..n : t[i] \in Nat
    BY <1>1
  <2>2. /\ r \in Seq(Nat) /\ Len(r) = (IF k + 1 <= n THEN n - (k + 1) + 1 ELSE 0)
        /\ \A i \in 1..(n - (k + 1) + 1) : r[i] = t[(k + 1) + i - 1]
    BY <1>1, <2>1, SubSeqProperties
  <2>3. QED
    BY <1>1, <2>2
<1>3. /\ DOMAIN a = 1..(m + n)
      /\ \A i \in 1..m : a[i] = s[i]
      /\ \A i \in 1..n : a[m + i] = t[i]
  BY ConcatAt
<1>4. /\ DOMAIN b = 1..(m + (n - k))
      /\ \A i \in 1..m : b[i] = s[i]
      /\ \A i \in 1..(n - k) : b[m + i] = t[k + i]
  <2> HIDE DEF r
  <2>1. /\ DOMAIN b = 1..(m + Len(r))
        /\ \A i \in 1..m : b[i] = s[i]
        /\ \A i \in 1..Len(r) : b[m + i] = r[i]
    BY <1>2, ConcatAt, Zenon
  <2> HIDE DEF b, m, n
  <2>2. QED
    BY <1>1, <1>2, <2>1, Zenon
<1>0. \A i, j \in 1..(m + n) : a[i] = a[j] => i = j
  BY <1>3, Zenon DEF IsInjective
<1> HIDE DEF a, b, r, m, n
<1> DEFINE at(i) == IF i <= m THEN i ELSE i + k
<1>5. \A i \in 1..(m + (n - k)) : at(i) \in 1..(m + n) /\ b[i] = a[at(i)]
  <2> SUFFICES ASSUME NEW i \in 1..(m + (n - k)) PROVE at(i) \in 1..(m + n) /\ b[i] = a[at(i)]
    OBVIOUS
  <2>1. CASE i <= m
    BY <2>1, <1>1, <1>3, <1>4
  <2>2. CASE ~(i <= m)
    <3>1. i - m \in 1..(n - k) /\ i = m + (i - m)
      BY <2>2, <1>1
    <3>2. b[i] = t[k + (i - m)]
      BY <3>1, <1>4
    <3>3. k + (i - m) \in 1..n /\ m + (k + (i - m)) = i + k
      BY <3>1, <1>1
    <3>4. a[i + k] = t[k + (i - m)]
      BY <3>3, <1>3, Zenon
    <3>5. QED
      BY <2>2, <3>2, <3>3, <3>4, <1>1
  <2>3. QED
    BY <2>1, <2>2
<1>6. \A i, j \in 1..(m + (n - k)) : at(i) = at(j) => i = j
  BY <1>1
<1>7. \A i \in 1..(m + (n - k)), j \in 1..k : at(i) # m + j
  BY <1>1
<1>8. \A j \in 1..k : m + j \in 1..(m + n) /\ a[m + j] = t[j]
  BY <1>1, <1>3
<1> HIDE DEF at
<1>9. IsInjective(b)
  <2> SUFFICES ASSUME NEW i \in 1..(m + (n - k)), NEW j \in 1..(m + (n - k)), b[i] = b[j]
               PROVE  i = j
    BY <1>4 DEF IsInjective
  <2>1. at(i) \in 1..(m + n) /\ at(j) \in 1..(m + n) /\ a[at(i)] = a[at(j)]
    BY <1>5
  <2>2. at(i) = at(j)
    BY <2>1, <1>0
  <2>3. QED
    BY <2>2, <1>6
<1>10. Range(b) \cap cut = {}
  <2> SUFFICES ASSUME NEW i \in 1..(m + (n - k)), NEW j \in 1..k, b[i] = t[j] PROVE FALSE
    BY <1>4 DEF Range
  <2>1. at(i) \in 1..(m + n) /\ m + j \in 1..(m + n) /\ a[at(i)] = a[m + j]
    BY <1>5, <1>8
  <2>2. at(i) = m + j
    BY <2>1, <1>0
  <2>3. QED
    BY <2>2, <1>7
<1>11. Range(b) \cup cut = Range(a)
  <2>0. /\ \A i \in 1..(m + n) : a[i] \in Range(a)
        /\ \A i \in 1..(m + (n - k)) : b[i] \in Range(b)
    BY <1>3, <1>4, Zenon DEF Range
  <2>1. Range(b) \subseteq Range(a)
    BY <2>0, <1>4, <1>5 DEF Range
  <2>2. cut \subseteq Range(a)
    BY <2>0, <1>8, Zenon
  <2>3. ASSUME NEW x \in 1..(m + n) PROVE a[x] \in Range(b) \cup cut
    <3>1. CASE x <= m
      <4>1. x \in 1..m /\ x \in 1..(m + (n - k))
        BY <3>1, <1>1
      <4>2. QED
        BY <4>1, <2>0, <1>3, <1>4
    <3>2. CASE ~(x <= m) /\ x - m <= k
      <4>1. x - m \in 1..k /\ x - m \in 1..n /\ x = m + (x - m)
        BY <3>2, <1>1
      <4>2. QED
        BY <4>1, <1>3
    <3>3. CASE ~(x <= m) /\ ~(x - m <= k)
      <4>1. x - k \in 1..(m + (n - k)) /\ at(x - k) = x
        BY <3>3, <1>1 DEF at
      <4>2. QED
        BY <4>1, <2>0, <1>5
    <3>4. QED
      BY <3>1, <3>2, <3>3
  <2>4. Range(a) \subseteq Range(b) \cup cut
    BY <1>3, <2>3, Zenon DEF Range
  <2>5. QED
    BY <2>1, <2>2, <2>4
<1>12. QED
  BY <1>2, <1>9, <1>10, <1>11 DEF a, b, r, n

-----------------------------------------------------------------------------
(* The steps of the producers *)

\* what is in which place
placed == <<metrics, metricSizes, toSend, flushed, accepted, evicted>>
shutdownVars == <<fpc, final, closing, ctxDone, gaveUp>>

\* evictOldest drops none, some or all of the entries
LEMMA EvictCount ==
    ASSUME Shape, NEW needed \in Int
    PROVE  LET n == Len(metrics)
               enough(i) == /\ i = n \/ Prefix(metricSizes, i) >= needed
                            /\ \A j \in 0..(i - 1) : Prefix(metricSizes, j) < needed
               k == CHOOSE i \in 0..n : enough(i)
           IN  k \in 0..n /\ enough(k)
<1> DEFINE n == Len(metrics)
           enough(i) == /\ i = n \/ Prefix(metricSizes, i) >= needed
                        /\ \A j \in 0..(i - 1) : Prefix(metricSizes, j) < needed
           T == {i \in 0..n : i = n \/ Prefix(metricSizes, i) >= needed}
<1>1. n \in Nat /\ T \subseteq Nat /\ n \in T
  BY DEF Shape
<1>2. PICK i \in T : \A j \in T : i <= j
  BY <1>1, LeastOf, Zenon
<1>3. i \in 0..n /\ (i = n \/ Prefix(metricSizes, i) >= needed)
  OBVIOUS
<1>4. ASSUME NEW j \in 0..(i - 1) PROVE Prefix(metricSizes, j) < needed
  <2>1. j \in 0..n /\ j < i /\ j # n
    BY <1>1, <1>3
  <2>2. ~(Prefix(metricSizes, j) >= needed)
    BY <2>1, <1>1, <1>2
  <2>3. j \in Nat /\ \A x \in 1..j : metricSizes[x] \in Nat
    <3>1. metricSizes \in Seq(Nat) /\ Len(metricSizes) = n
      BY DEF Shape
    <3>2. j \in Nat /\ \A x \in 1..j : x \in 1..n
      BY <2>1, <1>1
    <3> HIDE DEF n, T
    <3>3. QED
      BY <3>1, <3>2
  <2>4. Prefix(metricSizes, j) \in Nat
    BY <2>3, PrefixStep
  <2>5. QED
    BY <2>2, <2>4
<1>5. enough(i)
  BY <1>3, <1>4
<1> HIDE DEF enough
<1>6. \E x \in 0..n : enough(x)
  BY <1>3, <1>5
<1>7. (CHOOSE x \in 0..n : enough(x)) \in 0..n /\ enough(CHOOSE x \in 0..n : enough(x))
  BY <1>6, Zenon
<1>8. QED
  BY <1>7 DEF enough

\* a producer goes on with the entry it has, or has appended it
LEMMA MovePreserves ==
    ASSUME IInv, NEW p \in Producers, NEW w \in Where, pc[p] # "idle", w \in Before => pc[p] \in Before,
           pc' = [pc EXCEPT ![p] = w],
           incoming' = incoming \/ (w = "idle" /\ incoming' = [incoming EXCEPT ![p] = NoEntry]),
           evictedBytes' \in [Producers -> Nat], currentBytes' \in Int,
           UNCHANGED <<conf, placed, shutdownVars, adds>>
    PROVE  IInv'
<1> USE DEF IInv
<1>1. UNCHANGED <<metrics, metricSizes, toSend, flushed, accepted, evicted, fpc, final, closing, ctxDone, gaveUp>>
  BY DEF placed, shutdownVars
<1>2. /\ pc' \in [Producers -> Where] /\ pc'[p] = w
      /\ \A q \in Producers : q # p => pc'[q] = pc[q]
  BY DEF Shape
<1>3. /\ incoming' \in [Producers -> [id : Nat, size : Nat]]
      /\ \A q \in Producers : q # p \/ w # "idle" => incoming'[q] = incoming[q]
  <2>1. CASE incoming' = incoming
    BY <2>1 DEF Shape
  <2>2. CASE w = "idle" /\ incoming' = [incoming EXCEPT ![p] = NoEntry]
    <3>1. NoEntry \in [id : Nat, size : Nat]
      BY DEF NoEntry
    <3>2. QED
      BY <2>2, <3>1 DEF Shape
  <2>3. QED
    BY <2>1, <2>2
<1>4. Shape'
  BY <1>1, <1>2, <1>3 DEF Shape
<1>5. \A q \in Producers : pc'[q] \in Before => pc[q] \in Before /\ incoming'[q] = incoming[q]
  BY <1>2, <1>3 DEF Before
<1>6. OnTheirWay'
  BY <1>1, <1>5 DEF OnTheirWay
<1>7. Flushing' /\ Ending'
  BY <1>1 DEF Flushing, Ending
<1>8. EntryInOnePlace'
  BY <1>1 DEF EntryInOnePlace, Places
<1>9. QED
  BY <1>4, <1>6, <1>7, <1>8

\* a call of Add: the new entry has a number of its own
LEMMA KeepPreserves ==
    ASSUME IInv, NEW p \in Producers, NEW size \in Nat, Keep(p, size), ~ctxDone, UNCHANGED conf
    PROVE  IInv'
<1> USE DEF IInv
<1>1. /\ UNCHANGED <<metrics, metricSizes, toSend, flushed, accepted, evicted, fpc, final, closing,
                     ctxDone, gaveUp, evictedBytes, currentBytes, conf>>
      /\ adds' = adds + 1 /\ adds \in Nat
      /\ pc' = [pc EXCEPT ![p] = "enforce"]
      /\ incoming' = [incoming EXCEPT ![p] = [id |-> adds + 1, size |-> size]]
  BY DEF Keep, Goto, flusherVars, Shape
<1>2. /\ pc' \in [Producers -> Where] /\ pc'[p] = "enforce"
      /\ \A q \in Producers : q # p => pc'[q] = pc[q]
  BY <1>1 DEF Shape, Where, Before
<1>3. /\ incoming' \in [Producers -> [id : Nat, size : Nat]] /\ incoming'[p].id = adds + 1
      /\ \A q \in Producers : q # p => incoming'[q] = incoming[q]
  BY <1>1 DEF Shape
<1>4. Shape'
  BY <1>1, <1>2, <1>3 DEF Shape
<1>5. OnTheirWay'
  <2>1. accepted' \subseteq 1..adds' /\ adds + 1 \notin accepted' /\ adds + 1 \in 1..adds'
    BY <1>1 DEF OnTheirWay
  <2>2. \A q \in Producers : q # p /\ pc'[q] \in Before =>
            incoming'[q].id \in (1..adds') \ accepted' /\ incoming'[q].id # adds + 1
    BY <1>1, <1>2, <1>3 DEF OnTheirWay
  <2>3. QED
    BY <1>1, <1>2, <1>3, <2>1, <2>2 DEF OnTheirWay
<1>6. Flushing' /\ Ending'
  BY <1>1 DEF Flushing, Ending
<1>7. EntryInOnePlace'
  BY <1>1 DEF EntryInOnePlace, Places
<1>8. QED
  BY <1>4, <1>5, <1>6, <1>7

\* the append: the entry was nowhere before
LEMMA AppendPreserves ==
    ASSUME IInv, NEW p \in Producers, AppendEntry(p), UNCHANGED conf
    PROVE  IInv'
<1> USE DEF IInv
<1> DEFINE id == incoming[p].id
           size == incoming[p].size
<1>1. /\ metrics' = Append(metrics, id) /\ metricSizes' = Append(metricSizes, size)
      /\ accepted' = accepted \cup {id} /\ pc' = [pc EXCEPT ![p] = "count"] /\ pc[p] = "append"
      /\ UNCHANGED <<toSend, flushed, evicted, fpc, final, closing, ctxDone, gaveUp, evictedBytes,
                     currentBytes, conf, adds, incoming>>
  BY DEF AppendEntry, Goto, flusherVars
<1>2. id \in Nat /\ size \in Nat /\ id \in 1..adds /\ id \notin accepted
  BY <1>1 DEF Shape, OnTheirWay, Before
<1>3. /\ metrics' \in Seq(Nat) /\ metricSizes' \in Seq(Nat) /\ Len(metricSizes') = Len(metrics')
      /\ Len(metrics') = Len(metrics) + 1
  BY <1>1, <1>2 DEF Shape
<1>4. /\ pc' \in [Producers -> Where] /\ pc'[p] = "count"
      /\ \A q \in Producers : q # p => pc'[q] = pc[q]
  BY <1>1 DEF Shape, Where
<1>5. Shape'
  BY <1>1, <1>3, <1>4 DEF Shape
<1>6. OnTheirWay'
  BY <1>1, <1>2, <1>4, Zenon DEF OnTheirWay, Before
<1>7. Flushing' /\ Ending'
  BY <1>1 DEF Flushing, Ending
<1>8. EntryInOnePlace'
  <2>1. flushed \o toSend \in Seq(Nat) /\ Places \in Seq(Nat)
    BY ConcatAt DEF Shape, Places
  <2>2. Places' = Append(Places, id)
    <3> DEFINE a == flushed \o toSend
    <3>1. metrics \in Seq(Nat) /\ <<id>> \in Seq(Nat) /\ a \in Seq(Nat)
      BY <1>2, <2>1 DEF Shape
    <3>2. Places = a \o metrics /\ Places' = a \o Append(metrics, id)
      BY <1>1 DEF Places
    <3> HIDE DEF a, id
    <3>3. Append(metrics, id) = metrics \o <<id>>
      BY <1>2, <3>1, AppendIsConcat
    <3>4. (a \o metrics) \o <<id>> = a \o (metrics \o <<id>>)
      BY <3>1, ConcatAssociative
    <3>5. Append(Places, id) = Places \o <<id>>
      BY <1>2, <2>1, AppendIsConcat
    <3>6. QED
      BY <3>2, <3>3, <3>4, <3>5
  <2>3. id \notin Range(Places) /\ id \notin evicted /\ IsInjective(Places)
    BY <1>2 DEF EntryInOnePlace
  <2>4. IsInjective(Places') /\ Range(Places') = Range(Places) \cup {id}
    BY <1>2, <2>1, <2>2, <2>3, AddOne
  <2>5. QED
    BY <1>1, <1>3, <2>3, <2>4 DEF EntryInOnePlace
<1>9. QED
  BY <1>5, <1>6, <1>7, <1>8

\* the eviction: the oldest entries leave the buffer and are on record
LEMMA EvictPreserves ==
    ASSUME IInv, NEW p \in Producers, EvictTake(p), UNCHANGED conf
    PROVE  IInv'
<1> USE DEF IInv
<1> DEFINE n == Len(metrics)
           needed == currentBytes + incoming[p].size - conf.maxBufferBytes
<1>1. needed \in Int /\ n \in Nat
  BY ConfigsAssumption DEF Shape
<1>2. PICK k \in 0..n :
        /\ metrics' = SubSeq(metrics, k + 1, n)
        /\ metricSizes' = SubSeq(metricSizes, k + 1, n)
        /\ evictedBytes' = [evictedBytes EXCEPT ![p] = Prefix(metricSizes, k)]
        /\ evicted' = evicted \cup {metrics[i] : i \in 1..k}
  <2> HIDE DEF needed
  <2>1. LET enough(i) == /\ i = n \/ Prefix(metricSizes, i) >= needed
                         /\ \A j \in 0..(i - 1) : Prefix(metricSizes, j) < needed
            k == CHOOSE i \in 0..n : enough(i)
        IN  k \in 0..n
    BY <1>1, EvictCount
  <2>2. QED
    BY <2>1, Zenon DEF EvictTake, needed
<1>3. /\ pc' = [pc EXCEPT ![p] = "evict_add"] /\ pc[p] = "evict"
      /\ UNCHANGED <<toSend, flushed, accepted, fpc, final, closing, ctxDone, gaveUp,
                     currentBytes, conf, adds, incoming>>
  BY DEF EvictTake, Goto, flusherVars
<1>4. k \in Nat /\ k <= n /\ Prefix(metricSizes, k) \in Nat
  <2>0. metricSizes \in Seq(Nat) /\ k \in 0..Len(metricSizes)
    BY DEF Shape
  <2>1. k \in Nat /\ \A i \in 1..k : metricSizes[i] \in Nat
    BY <2>0
  <2>2. QED
    BY <1>1, <2>1, PrefixStep
<1>5. metricSizes' \in Seq(Nat) /\ Len(metricSizes') = n - k
  <2>1. \A i \in (k + 1)..n : metricSizes[i] \in Nat
    <3>1. metricSizes \in Seq(Nat) /\ Len(metricSizes) = n
      BY DEF Shape
    <3>2. \A i \in (k + 1)..n : i \in 1..n
      BY <1>1, <1>4
    <3> HIDE DEF n
    <3>3. QED
      BY <3>1, <3>2
  <2>2. QED
    BY <1>1, <1>2, <1>4, <2>1, SubSeqProperties
<1>6. /\ metrics' \in Seq(Nat) /\ Len(metrics') = n - k
      /\ IsInjective(Places')
      /\ Range(Places') \cup {metrics[i] : i \in 1..k} = Range(Places)
      /\ Range(Places') \cap {metrics[i] : i \in 1..k} = {}
  <2>1. flushed \o toSend \in Seq(Nat) /\ metrics \in Seq(Nat) /\ IsInjective((flushed \o toSend) \o metrics)
    BY ConcatAt DEF Shape, EntryInOnePlace, Places
  <2>2. Places' = (flushed \o toSend) \o SubSeq(metrics, k + 1, n) /\ Places = (flushed \o toSend) \o metrics
    BY <1>2, <1>3 DEF Places
  <2> DEFINE a == flushed \o toSend
  <2> HIDE DEF a
  <2>3. /\ SubSeq(metrics, k + 1, n) \in Seq(Nat)
        /\ Len(SubSeq(metrics, k + 1, n)) = n - k
        /\ IsInjective(a \o SubSeq(metrics, k + 1, n))
        /\ Range(a \o SubSeq(metrics, k + 1, n)) \cup {metrics[i] : i \in 1..k} = Range(a \o metrics)
        /\ Range(a \o SubSeq(metrics, k + 1, n)) \cap {metrics[i] : i \in 1..k} = {}
    BY <2>1, CutFirst, Zenon DEF a
  <2>4. QED
    BY <1>2, <2>2, <2>3 DEF a
<1>7. evictedBytes' \in [Producers -> Nat] /\ pc' \in [Producers -> Where]
      /\ pc'[p] = "evict_add" /\ \A q \in Producers : q # p => pc'[q] = pc[q]
  BY <1>2, <1>3, <1>4 DEF Shape, Where, Before
<1>8. Shape'
  BY <1>3, <1>5, <1>6, <1>7 DEF Shape
<1>9. OnTheirWay'
  BY <1>3, <1>7 DEF OnTheirWay, Before
<1>10. Flushing' /\ Ending'
  BY <1>3 DEF Flushing, Ending
<1>11. EntryInOnePlace'
  BY <1>2, <1>3, <1>5, <1>6 DEF EntryInOnePlace
<1>12. QED
  BY <1>8, <1>9, <1>10, <1>11

-----------------------------------------------------------------------------
(* The steps of the flush goroutine, and the shutdown *)

\* the entries of the buffer become those of the flush
LEMMA TakePreserves ==
    ASSUME IInv, NEW isFinal \in BOOLEAN, isFinal => ctxDone, FlushTake(isFinal), UNCHANGED conf
    PROVE  IInv'
<1> USE DEF IInv
<1>1. /\ fpc = "idle" /\ toSend = <<>>
      /\ UNCHANGED <<flushed, accepted, evicted, closing, ctxDone, gaveUp, conf, adds, incoming,
                     evictedBytes, currentBytes, pc>>
  BY DEF FlushTake, producerVars, Flushing
<1>2. CASE metrics = <<>>
  <2>1. fpc' = (IF isFinal THEN "done" ELSE "idle") /\ UNCHANGED <<metrics, metricSizes, toSend, final>>
    BY <1>2 DEF FlushTake
  <2>2. Shape' /\ OnTheirWay'
    BY <1>1, <2>1 DEF Shape, OnTheirWay
  <2>3. Flushing' /\ Ending'
    BY <1>1, <1>2, <2>1 DEF Flushing, Ending
  <2>4. EntryInOnePlace'
    BY <1>1, <2>1 DEF EntryInOnePlace, Places
  <2>5. QED
    BY <2>2, <2>3, <2>4
<1>3. CASE metrics # <<>>
  <2>1. /\ fpc' = "swap" /\ toSend' = metrics /\ final' = isFinal
        /\ metrics' = <<>> /\ metricSizes' = <<>>
    BY <1>3 DEF FlushTake
  <2>2. Shape' /\ OnTheirWay'
    BY <1>1, <2>1 DEF Shape, OnTheirWay
  <2>3. Flushing' /\ Ending'
    BY <1>1, <2>1 DEF Flushing, Ending
  <2>4. Places' = Places
    <3>1. flushed \in Seq(Nat) /\ metrics \in Seq(Nat) /\ flushed \o metrics \in Seq(Nat)
      BY ConcatAt DEF Shape
    <3>2. Places = (flushed \o <<>>) \o metrics /\ Places' = (flushed \o metrics) \o <<>>
      BY <1>1, <2>1 DEF Places
    <3>3. flushed \o <<>> = flushed /\ (flushed \o metrics) \o <<>> = flushed \o metrics
      BY <3>1, ConcatEmptySeq
    <3>4. QED
      BY <3>2, <3>3
  <2>5. EntryInOnePlace'
    BY <1>1, <2>1, <2>4 DEF EntryInOnePlace
  <2>6. QED
    BY <2>2, <2>3, <2>5
<1>4. QED
  BY <1>2, <1>3

\* the rest of a flush, and the shutdown
LEMMA FlushPreserves ==
    ASSUME IInv, FlushSwap \/ FlushBroadcast \/ FlushExport, UNCHANGED conf
    PROVE  IInv'
<1> USE DEF IInv
<1>1. CASE FlushSwap
  <2>1. /\ fpc = "swap" /\ fpc' = "broadcast" /\ currentBytes' \in Int
        /\ UNCHANGED <<metrics, metricSizes, toSend, flushed, accepted, evicted, closing, ctxDone, gaveUp,
                       conf, adds, incoming, evictedBytes, pc, final>>
    BY <1>1 DEF FlushSwap, producerVars
  <2>2. Shape' /\ OnTheirWay' /\ EntryInOnePlace'
    BY <2>1 DEF Shape, OnTheirWay, EntryInOnePlace, Places
  <2>3. Flushing' /\ Ending'
    BY <2>1 DEF Flushing, Ending
  <2>4. QED
    BY <2>2, <2>3
<1>2. CASE FlushBroadcast
  <2>1. /\ fpc = "broadcast" /\ fpc' = "export"
        /\ pc' = [p \in Producers |-> IF pc[p] = "waiting" THEN "block" ELSE pc[p]]
        /\ UNCHANGED <<metrics, metricSizes, toSend, flushed, accepted, evicted, closing, ctxDone, gaveUp,
                       conf, adds, incoming, evictedBytes, currentBytes, final>>
    BY <1>2 DEF FlushBroadcast
  <2>2. /\ pc' \in [Producers -> Where]
        /\ \A p \in Producers : /\ pc'[p] \in Before => pc[p] \in Before
                                /\ pc[p] = "idle" => pc'[p] = "idle"
    BY <2>1 DEF Shape, Where, Before
  <2>3. Shape' /\ OnTheirWay' /\ EntryInOnePlace'
    BY <2>1, <2>2 DEF Shape, OnTheirWay, EntryInOnePlace, Places
  <2>4. Flushing' /\ Ending'
    BY <2>1, <2>2 DEF Flushing, Ending
  <2>5. QED
    BY <2>3, <2>4
<1>3. CASE FlushExport
  <2>1. /\ fpc = "export" /\ fpc' = (IF final THEN "done" ELSE "idle")
        /\ flushed' = flushed \o toSend /\ toSend' = <<>>
        /\ UNCHANGED <<metrics, metricSizes, accepted, evicted, closing, ctxDone, gaveUp,
                       conf, adds, incoming, evictedBytes, currentBytes, pc, final>>
    BY <1>3 DEF FlushExport, producerVars
  <2>2. flushed' \in Seq(Nat) /\ flushed' \o <<>> = flushed'
    BY <2>1, ConcatAt, ConcatEmptySeq DEF Shape
  <2>3. Shape' /\ OnTheirWay'
    BY <2>1, <2>2 DEF Shape, OnTheirWay
  <2>4. Places' = Places
    BY <2>1, <2>2 DEF Places
  <2>5. EntryInOnePlace'
    BY <2>1, <2>4 DEF EntryInOnePlace
  <2>6. Flushing' /\ Ending'
    BY <2>1 DEF Flushing, Ending
  <2>7. QED
    BY <2>3, <2>5, <2>6
<1>4. QED
  BY <1>1, <1>2, <1>3

\* every step of a producer
LEMMA ProducerPreserves ==
    ASSUME IInv, NEW p \in Producers, Producer(p), UNCHANGED conf
    PROVE  IInv'
<1> USE DEF IInv
<1>1. evictedBytes \in [Producers -> Nat] /\ currentBytes \in Int /\ incoming[p].size \in Nat
      /\ evictedBytes[p] \in Nat
  BY DEF Shape
<1>2. CASE EnforceCapacity(p)
  <2>1. PICK w \in {"append", "idle", "block", "evict"} :
          /\ pc' = [pc EXCEPT ![p] = w]
          /\ \/ incoming' = incoming /\ evictedBytes' = evictedBytes
             \/ /\ w = "idle" /\ incoming' = [incoming EXCEPT ![p] = NoEntry]
                /\ evictedBytes' = [evictedBytes EXCEPT ![p] = 0]
    BY <1>2 DEF EnforceCapacity, Goto, Return
  <2>2. pc[p] = "enforce" /\ UNCHANGED <<conf, placed, shutdownVars, adds, currentBytes>>
    BY <1>2, Zenon DEF EnforceCapacity, flusherVars, placed, shutdownVars
  <2>3. evictedBytes' \in [Producers -> Nat]
    BY <1>1, <2>1
  <2>4. w \in Where /\ pc[p] \in Before /\ pc[p] # "idle"
    BY <2>2 DEF Where, Before
  <2>5. QED
    BY <1>1, <2>1, <2>2, <2>3, <2>4, MovePreserves, Zenon
<1>3. CASE EvictTake(p)
  BY <1>3, EvictPreserves
<1>4. CASE EvictAdd(p)
  <2>1. /\ pc[p] = "evict_add" /\ pc' = [pc EXCEPT ![p] = "append"] /\ currentBytes' \in Int
        /\ UNCHANGED <<conf, placed, shutdownVars, adds, incoming, evictedBytes>>
    BY <1>1, <1>4 DEF EvictAdd, Goto, flusherVars, placed, shutdownVars
  <2>2. "append" \in Where /\ pc[p] \in Before /\ pc[p] # "idle"
    BY <2>1 DEF Where, Before
  <2>3. QED
    BY <1>1, <2>1, <2>2, MovePreserves, Zenon
<1>5. CASE BlockTest(p) \/ BlockWait(p)
  <2>1. PICK w \in {"wait", "append", "waiting"} : pc' = [pc EXCEPT ![p] = w]
    BY <1>5 DEF BlockTest, BlockWait, Goto
  <2>2. pc[p] \in {"block", "wait"} /\ UNCHANGED <<conf, placed, shutdownVars, adds, incoming, evictedBytes, currentBytes>>
    BY <1>5 DEF BlockTest, BlockWait, flusherVars, placed, shutdownVars
  <2>3. w \in Where /\ pc[p] \in Before /\ pc[p] # "idle"
    BY <2>2 DEF Where, Before
  <2>4. QED
    BY <1>1, <2>1, <2>2, <2>3, MovePreserves, Zenon
<1>6. CASE AppendEntry(p)
  BY <1>6, AppendPreserves
<1>7. CASE CountBytes(p)
  <2>0. pc[p] = "count" /\ currentBytes' = currentBytes + incoming[p].size
    BY <1>7 DEF CountBytes
  <2>1. /\ pc[p] = "count" /\ pc' = [pc EXCEPT ![p] = "signal"] /\ currentBytes' \in Int
        /\ UNCHANGED <<conf, placed, shutdownVars, adds, incoming, evictedBytes>>
    BY <1>1, <1>7, <2>0 DEF CountBytes, Goto, flusherVars, placed, shutdownVars
  <2>2. "signal" \in Where /\ "signal" \notin Before /\ pc[p] # "idle"
    BY <2>1 DEF Where, Before
  <2>3. QED
    BY <1>1, <2>1, <2>2, MovePreserves, Zenon
<1>8. CASE SignalFlush(p)
  <2>1. /\ pc[p] = "signal" /\ pc' = [pc EXCEPT ![p] = "idle"]
        /\ incoming' = [incoming EXCEPT ![p] = NoEntry]
        /\ evictedBytes' = [evictedBytes EXCEPT ![p] = 0]
        /\ UNCHANGED <<conf, placed, shutdownVars, adds, currentBytes>>
    BY <1>8 DEF SignalFlush, Return, Goto, flusherVars, placed, shutdownVars
  <2>2. "idle" \in Where /\ "idle" \notin Before /\ pc[p] # "idle"
    BY <2>1 DEF Where, Before
  <2>3. evictedBytes' \in [Producers -> Nat]
    BY <1>1, <2>1
  <2>4. QED
    BY <1>1, <2>1, <2>2, <2>3, MovePreserves, Zenon
<1>9. QED
  BY <1>2, <1>3, <1>4, <1>5, <1>6, <1>7, <1>8 DEF Producer

\* every step
LEMMA StepPreserves == IInv /\ [Next]_vars => IInv'
<1> SUFFICES ASSUME IInv, [Next]_vars PROVE IInv'
  OBVIOUS
<1> USE DEF IInv
<1>1. CASE UNCHANGED vars
  BY <1>1 DEF vars, producerVars, flusherVars, Shape, OnTheirWay, Flushing, Ending, EntryInOnePlace, Places
<1>2. CASE Next
  <2>0. Step /\ UNCHANGED conf
    BY <1>2 DEF Next
  <2>1. ASSUME NEW p \in Producers, AddFiltered(p) PROVE IInv'
    <3>1. /\ adds' = adds + 1 /\ adds \in Nat
          /\ UNCHANGED <<metrics, metricSizes, toSend, flushed, accepted, evicted, fpc, final, closing,
                         ctxDone, gaveUp, evictedBytes, currentBytes, conf, pc, incoming>>
      BY <2>0, <2>1 DEF AddFiltered, producerVars, flusherVars, Shape
    <3>2. 1..adds \subseteq 1..adds'
      BY <3>1
    <3>3. Shape' /\ OnTheirWay'
      BY <3>1, <3>2 DEF Shape, OnTheirWay
    <3>4. Flushing' /\ Ending' /\ EntryInOnePlace'
      BY <3>1 DEF Flushing, Ending, EntryInOnePlace, Places
    <3>5. QED
      BY <3>3, <3>4
  <2>2. ASSUME NEW p \in Producers, NEW size \in conf.sizes, Add(p, size) \/ AddAggregated(p, size) PROVE IInv'
    <3>1. Keep(p, size) /\ ~ctxDone
      BY <2>2 DEF Add, AddAggregated, Ending
    <3>2. size \in Nat
      BY ConfigsAssumption DEF Shape
    <3>3. QED
      BY <2>0, <3>1, <3>2, KeepPreserves
  <2>3. ASSUME NEW p \in Producers, Producer(p) PROVE IInv'
    BY <2>0, <2>3, ProducerPreserves
  <2>4. CASE FlushTick \/ FlushSignalled \/ FlushFinal
    <3>1. PICK isFinal \in BOOLEAN : (isFinal => ctxDone) /\ FlushTake(isFinal)
      BY <2>4, Zenon DEF FlushTick, FlushSignalled, FlushFinal
    <3>2. QED
      BY <2>0, <3>1, TakePreserves
  <2>5. CASE FlushSwap \/ FlushBroadcast \/ FlushExport
    BY <2>0, <2>5, FlushPreserves
  <2>6. CASE StopReceivers
    <3>1. /\ closing' = TRUE
          /\ UNCHANGED <<metrics, metricSizes, toSend, flushed, accepted, evicted, fpc, final, adds,
                         ctxDone, gaveUp, evictedBytes, currentBytes, conf, pc, incoming>>
      BY <2>0, <2>6 DEF StopReceivers, producerVars, flusherVars
    <3>2. QED
      BY <3>1 DEF Shape, OnTheirWay, Flushing, Ending, EntryInOnePlace, Places
  <2>7. CASE CancelContext
    <3>1. /\ closing /\ ~ctxDone /\ ctxDone' = TRUE
          /\ gaveUp' = \E p \in Producers : pc[p] # "idle"
          /\ UNCHANGED <<metrics, metricSizes, toSend, flushed, accepted, evicted, fpc, final, adds,
                         closing, evictedBytes, currentBytes, conf, pc, incoming>>
      BY <2>0, <2>7 DEF CancelContext, producerVars, flusherVars
    <3>2. Shape' /\ OnTheirWay' /\ Flushing' /\ EntryInOnePlace'
      BY <3>1 DEF Shape, OnTheirWay, Flushing, EntryInOnePlace, Places
    <3>3. ~final /\ fpc # "done"
      BY <3>1 DEF Ending
    <3>4. Ending'
      BY <3>1, <3>3 DEF Ending
    <3>5. QED
      BY <3>2, <3>4
  <2>8. QED
    BY <2>0, <2>1, <2>2, <2>3, <2>4, <2>5, <2>6, <2>7, Zenon DEF Step, Flusher
<1>3. QED
  BY <1>1, <1>2

\* the start
LEMMA InitHolds == Init => IInv
<1> SUFFICES ASSUME Init PROVE IInv
  OBVIOUS
<1>1. Shape
  BY DEF Init, Shape, Where, NoEntry
<1>2. OnTheirWay /\ Flushing /\ Ending
  BY DEF Init, OnTheirWay, Flushing, Ending, Before
<1>3. EntryInOnePlace
  <2>1. <<>> \o <<>> \o <<>> = <<>>
    OBVIOUS
  <2>2. Places = <<>> /\ Len(metrics) = Len(metricSizes) /\ evicted = {} /\ accepted = {}
    BY <2>1 DEF Init, Places
  <2>3. DOMAIN <<>> = {}
    OBVIOUS
  <2>4. QED
    BY <2>2, <2>3 DEF EntryInOnePlace, IsInjective, Range
<1>4. QED
  BY <1>1, <1>2, <1>3 DEF IInv

\* Every entry that Add has accepted is in exactly one place, for any number of
\* producers, any sizes, capacities and policies.
THEOREM OnePlaceAlways == Spec => []EntryInOnePlace
<1>1. IInv => EntryInOnePlace
  BY DEF IInv
<1>2. QED
  BY InitHolds, StepPreserves, <1>1, PTL DEF Spec

\* Unless main gave up on handlers that were still running, the flush goroutine
\* ends only when everything that was accepted has been exported or evicted.
THEOREM FinalFlushAlways == Spec => []FinalFlushTakesAll
<1>1. IInv => FinalFlushTakesAll
  <2> SUFFICES ASSUME IInv, fpc = "done", ~gaveUp PROVE accepted \subseteq evicted \cup Range(flushed)
    BY DEF FinalFlushTakesAll
  <2>1. metrics = <<>> /\ toSend = <<>> /\ flushed \in Seq(Nat)
    BY DEF IInv, Ending, Flushing, Shape
  <2>2. Places = flushed
    <3>1. flushed \o <<>> = flushed
      BY <2>1, ConcatEmptySeq
    <3>2. QED
      BY <2>1, <3>1 DEF Places
  <2>3. QED
    BY <2>2 DEF IInv, EntryInOnePlace
<1>2. QED
  BY InitHolds, StepPreserves, <1>1, PTL DEF Spec


-----------------------------------------------------------------------------
(* Sums over the producers *)

N == Cardinality(Producers)
Order == CHOOSE f \in Bijection(1..N, Producers) : TRUE
Sum(g) == Prefix([i \in 1..N |-> g[Order[i]]], N)

\* the producers can be counted
LEMMA OrderCounts ==
    /\ N \in Nat /\ N >= 1 /\ Order \in [1..N -> Producers]
    /\ \A i, j \in 1..N : Order[i] = Order[j] => i = j
    /\ \A p \in Producers : \E i \in 1..N : Order[i] = p
<1>1. N \in Nat /\ ExistsBijection(1..N, Producers)
  BY ProducersAssumption, FS_CardinalityType DEF N
<1>2. N # 0
  BY ProducersAssumption, FS_EmptySet DEF N
<1>3. Order \in Bijection(1..N, Producers)
  <2>1. \E f \in Bijection(1..N, Producers) : TRUE
    BY <1>1 DEF ExistsBijection
  <2>2. QED
    BY <2>1, Zenon DEF Order
<1>4. QED
  BY <1>1, <1>2, <1>3 DEF Bijection, Injection, Surjection, IsInjective

\* the sum follows a change for one producer
LEMMA SumUpdate ==
    ASSUME NEW g \in [Producers -> Nat], NEW h \in [Producers -> Nat], NEW p \in Producers,
           \A q \in Producers : q # p => h[q] = g[q]
    PROVE  Sum(h) = Sum(g) + h[p] - g[p] /\ Sum(g) \in Nat /\ Sum(h) \in Nat
<1> DEFINE s == [i \in 1..N |-> g[Order[i]]]
           t == [i \in 1..N |-> h[Order[i]]]
<1>1. N \in Nat /\ s \in [1..N -> Nat] /\ t \in [1..N -> Nat]
  BY OrderCounts
<1>2. PICK k \in 1..N : Order[k] = p
  BY OrderCounts
<1>3. s[k] = g[p] /\ t[k] = h[p] /\ \A i \in 1..N : i # k => t[i] = s[i]
  BY <1>2, OrderCounts
<1>4. Sum(g) = Prefix(s, N) /\ Sum(h) = Prefix(t, N)
  BY DEF Sum
<1> HIDE DEF s, t
<1>5. Prefix(t, N) = Prefix(s, N) + t[k] - s[k]
  BY <1>1, <1>3, PrefixUpdate, Zenon
<1>6. Prefix(t, N) \in Nat /\ Prefix(s, N) \in Nat
  BY <1>1, PrefixStep
<1>7. QED
  BY <1>3, <1>4, <1>5, <1>6

\* a sum of values that are not larger is not larger
LEMMA SumMono ==
    ASSUME NEW g \in [Producers -> Nat], NEW h \in [Producers -> Nat],
           \A p \in Producers : g[p] <= h[p]
    PROVE  Sum(g) <= Sum(h) /\ Sum(g) \in Nat /\ Sum(h) \in Nat
<1> DEFINE s == [i \in 1..N |-> g[Order[i]]]
           t == [i \in 1..N |-> h[Order[i]]]
<1>1. N \in Nat /\ \A i \in 1..N : s[i] \in Nat /\ t[i] \in Nat /\ s[i] <= t[i]
  BY OrderCounts
<1>2. Sum(g) = Prefix(s, N) /\ Sum(h) = Prefix(t, N)
  BY DEF Sum
<1> HIDE DEF s, t
<1>3. Prefix(s, N) <= Prefix(t, N)
  BY <1>1, PrefixMono
<1>4. Prefix(s, N) \in Nat /\ Prefix(t, N) \in Nat
  BY <1>1, PrefixStep
<1>5. QED
  BY <1>2, <1>3, <1>4

\* values up to m
LEMMA SumBound ==
    ASSUME NEW g \in [Producers -> Nat], NEW m \in Nat, \A p \in Producers : g[p] <= m
    PROVE  /\ Sum(g) <= N * m
           /\ \A p \in Producers : g[p] = 0 => Sum(g) <= N * m - m
<1>1. ASSUME NEW h \in [Producers -> Nat], \A p \in Producers : h[p] <= m
      PROVE  Sum(h) <= N * m
  <2> DEFINE s == [i \in 1..N |-> h[Order[i]]]
  <2>1. N \in Nat /\ s \in [1..N -> Nat] /\ \A i \in 1..N : s[i] <= m
    BY <1>1, OrderCounts
  <2>2. Sum(h) = Prefix(s, N)
    BY DEF Sum
  <2> HIDE DEF s
  <2>3. QED
    BY <2>1, <2>2, PrefixBound, Zenon
<1>2. ASSUME NEW p \in Producers, g[p] = 0 PROVE Sum(g) <= N * m - m
  <2> DEFINE h == [g EXCEPT ![p] = m]
  <2>1. h \in [Producers -> Nat] /\ h[p] = m /\ \A q \in Producers : q # p => h[q] = g[q]
    OBVIOUS
  <2>2. \A q \in Producers : h[q] <= m
    BY <2>1
  <2> HIDE DEF h
  <2>3. Sum(h) <= N * m
    BY <2>1, <2>2, <1>1
  <2>4. Sum(h) = Sum(g) + h[p] - g[p] /\ Sum(g) \in Nat /\ Sum(h) \in Nat
    BY <2>1, SumUpdate
  <2>5. N * m \in Nat
    BY OrderCounts
  <2>6. QED
    BY <1>2, <2>1, <2>3, <2>4, <2>5
<1>3. QED
  BY <1>1, <1>2

-----------------------------------------------------------------------------
(* What the counter knows *)

Cap == conf.maxBufferBytes
Dropping == conf.fullPolicy = "drop_oldest"

\* what all calls of Add together can bring; what can be let in past a test of
\* the counter; and how far the counter can be wrong after evictions
Limit == N * LargestSize
Past == Cap + Limit - LargestSize
Slack == IF Dropping THEN 3 * Limit + 2 * LargestSize ELSE 0

\* bytes that are in the buffer and not yet counted, of producers that have passed
\* the test and are not counted, and evicted and not yet taken off the counter
Uncounted == [p \in Producers |-> IF pc[p] = "count" THEN incoming[p].size ELSE 0]
InFlight == [p \in Producers |->
    IF pc[p] \in {"count", "append", "evict_add"} THEN incoming[p].size ELSE 0]
Evicting == IF mu = Free THEN 0 ELSE IF pc[mu] = "evict_add" THEN evictedBytes[mu] ELSE 0

Balanced(c, b, e, x, t, swapping) ==
    /\ b + e <= c + x + Past + Slack
    /\ b + t - x <= 2 * Past + Slack
    /\ c + x - e >= -Slack /\ e <= Slack /\ t <= Past + Slack
    /\ swapping => /\ b + e <= c + x + Slack
                   /\ b + t - x <= Past + Slack /\ b + e <= Past + Slack
    /\ Dropping => /\ c - e + t <= Cap + (IF swapping THEN 3 * Limit ELSE 2 * Limit)
                   /\ c - e + x - b <= (IF swapping THEN Cap + 2 * Limit ELSE Limit)
    /\ ~Dropping => e = 0 /\ c >= 0 /\ c + t <= Past

Counted == Balanced(currentBytes, BufferedBytes, Evicting, Sum(Uncounted), Sum(InFlight), fpc = "swap")

Locks ==
    /\ mu = Free \/ mu \in Producers
    /\ \A p \in Producers : pc[p] \in {"evict_add", "wait"} <=> mu = p
    /\ \A p \in Producers : pc[p] \in {"evict", "evict_add"} => Dropping
    /\ \A p \in Producers : pc[p] # "idle" => incoming[p].size \in conf.sizes
    /\ metricSizes \in Seq(conf.sizes)

BInv == IInv /\ Locks /\ Counted

\* the constants of a configuration
LEMMA ConfNumbers ==
    ASSUME conf \in Configs
    PROVE  /\ Cap \in Nat /\ Cap >= 1 /\ LargestSize \in Nat /\ LargestSize >= 1
           /\ Limit \in Nat /\ Limit >= LargestSize
           /\ \A s \in conf.sizes : s \in Nat /\ s <= LargestSize
<1>1. Cap \in Nat /\ Cap >= 1 /\ conf.sizes \subseteq Nat \ {0}
      /\ \E s \in conf.sizes : \A t \in conf.sizes : t <= s
  BY ConfigsAssumption DEF Cap
<1>2. LargestSize \in conf.sizes /\ \A t \in conf.sizes : t <= LargestSize
  BY <1>1, Zenon DEF LargestSize
<1>3. LargestSize \in Nat /\ LargestSize >= 1
  BY <1>1, <1>2
<1>4. N * LargestSize \in Nat /\ N * LargestSize >= LargestSize
  BY <1>3, OrderCounts
<1>5. QED
  BY <1>1, <1>2, <1>3, <1>4 DEF Limit

\* the sums are numbers, and bounded
LEMMA FlightNumbers ==
    ASSUME IInv, Locks
    PROVE  /\ Uncounted \in [Producers -> Nat] /\ InFlight \in [Producers -> Nat]
           /\ Sum(Uncounted) \in Nat /\ Sum(InFlight) \in Nat
           /\ Sum(Uncounted) <= Sum(InFlight) /\ Sum(InFlight) <= Limit
           /\ \A p \in Producers : InFlight[p] = 0 => Sum(InFlight) <= Limit - LargestSize
           /\ Evicting \in Nat /\ BufferedBytes \in Nat /\ currentBytes \in Int
<1>1. conf \in Configs /\ pc \in [Producers -> Where] /\ incoming \in [Producers -> [id : Nat, size : Nat]]
      /\ evictedBytes \in [Producers -> Nat] /\ metricSizes \in Seq(Nat) /\ currentBytes \in Int
  BY DEF IInv, Shape
<1>2. /\ Uncounted \in [Producers -> Nat] /\ InFlight \in [Producers -> Nat]
      /\ \A p \in Producers : Uncounted[p] <= InFlight[p]
  BY <1>1 DEF Uncounted, InFlight
<1>3. LargestSize \in Nat /\ \A p \in Producers : InFlight[p] <= LargestSize
  <2>1. LargestSize \in Nat /\ \A s \in conf.sizes : s \in Nat /\ s <= LargestSize
    BY <1>1, ConfNumbers
  <2>2. QED
    BY <2>1 DEF InFlight, Locks
<1>4. Sum(Uncounted) \in Nat /\ Sum(InFlight) \in Nat /\ Sum(Uncounted) <= Sum(InFlight)
  BY <1>2, SumMono
<1>5. /\ Sum(InFlight) <= Limit
      /\ \A p \in Producers : InFlight[p] = 0 => Sum(InFlight) <= Limit - LargestSize
  BY <1>2, <1>3, SumBound DEF Limit
<1>6. Evicting \in Nat
  BY <1>1 DEF Evicting, Locks
<1>7. BufferedBytes \in Nat
  <2>1. Len(metricSizes) \in Nat /\ \A i \in 1..Len(metricSizes) : metricSizes[i] \in Nat
    BY <1>1
  <2>2. QED
    BY <2>1, PrefixStep DEF BufferedBytes
<1>8. QED
  BY <1>1, <1>2, <1>4, <1>5, <1>6, <1>7

\* how the balance changes: a test is passed,
LEMMA BalancePass ==
    ASSUME conf \in Configs, NEW c \in Int, NEW b \in Nat, NEW e \in Nat, NEW x \in Nat, NEW t \in Nat,
           NEW swapping \in BOOLEAN, NEW s \in Nat,
           Balanced(c, b, e, x, t, swapping), c + s <= Cap, t <= Limit - LargestSize, s <= LargestSize
    PROVE  Balanced(c, b, e, x, t + s, swapping)
<1>1. Cap \in Nat /\ LargestSize \in Nat /\ Limit \in Nat /\ Limit >= LargestSize
  BY ConfNumbers
<1>2. Slack \in Nat
  BY <1>1 DEF Slack
<1>3. c + t + s <= Past /\ Past \in Nat
  BY <1>1 DEF Past
<1>4. t + s <= Past + Slack
  BY <1>1, <1>2, <1>3 DEF Balanced, Slack, Past
<1>5. QED
  BY <1>1, <1>2, <1>3, <1>4 DEF Balanced, Past

\* an entry is appended,
LEMMA BalanceAppend ==
    ASSUME conf \in Configs, NEW c \in Int, NEW b \in Nat, NEW x \in Nat, NEW t \in Nat,
           NEW swapping \in BOOLEAN, NEW s \in Nat, Balanced(c, b, 0, x, t, swapping), t - x >= s
    PROVE  Balanced(c, b + s, 0, x + s, t, swapping)
<1>1. Cap \in Nat /\ LargestSize \in Nat /\ Limit \in Nat /\ Limit >= LargestSize
  BY ConfNumbers
<1>2. Slack \in Nat /\ Past \in Nat
  BY <1>1 DEF Slack, Past
<1>3. QED
  BY <1>1, <1>2 DEF Balanced

\* and counted,
LEMMA BalanceCount ==
    ASSUME conf \in Configs, NEW c \in Int, NEW b \in Nat, NEW e \in Nat, NEW x \in Nat, NEW t \in Nat,
           NEW swapping \in BOOLEAN, NEW s \in Nat, Balanced(c, b, e, x, t, swapping)
    PROVE  Balanced(c + s, b, e, x - s, t - s, swapping)
<1>1. Cap \in Nat /\ LargestSize \in Nat /\ Limit \in Nat /\ Limit >= LargestSize
  BY ConfNumbers
<1>2. Slack \in Nat /\ Past \in Nat
  BY <1>1 DEF Slack, Past
<1>3. QED
  BY <1>1, <1>2 DEF Balanced

\* entries are evicted, enough of them or all,
LEMMA BalanceEvict ==
    ASSUME conf \in Configs, Dropping, NEW c \in Int, NEW b \in Nat, NEW e \in Nat, NEW x \in Nat,
           NEW t \in Nat, NEW swapping \in BOOLEAN, NEW s \in Nat,
           Balanced(c, b, 0, x, t, swapping), t <= Limit - LargestSize, s <= LargestSize, x <= t,
           e <= b, e = b \/ c - e + s <= Cap, e = 0 \/ e <= c + s - Cap + LargestSize
    PROVE  Balanced(c, b - e, e, x, t + s, swapping)
<1>1. Cap \in Nat /\ LargestSize \in Nat /\ Limit \in Nat /\ Limit >= LargestSize /\ Cap >= 1
  BY ConfNumbers
<1>2. Slack = 3 * Limit + 2 * LargestSize /\ Past = Cap + Limit - LargestSize
  BY DEF Slack, Past
<1> HIDE DEF Cap, LargestSize, Limit
<1>3. c + t <= Cap + 3 * Limit
  BY <1>1 DEF Balanced
<1>4. e <= Slack
  BY <1>1, <1>2, <1>3
<1>5. c + x - e >= -Slack
  BY <1>1, <1>2 DEF Balanced
<1>6. /\ c - e + (t + s) <= Cap + (IF swapping THEN 3 * Limit ELSE 2 * Limit)
      /\ (b - e) + (t + s) - x <= 2 * Past + Slack
      /\ swapping => (b - e) + (t + s) - x <= Past + Slack
  <2>1. CASE e = b
    BY <2>1, <1>1, <1>2 DEF Balanced
  <2>2. CASE c - e + s <= Cap
    BY <2>2, <1>1, <1>2 DEF Balanced
  <2>3. QED
    BY <2>1, <2>2
<1>7. QED
  BY <1>1, <1>2, <1>4, <1>5, <1>6 DEF Balanced

\* and taken off the counter,
LEMMA BalanceEvicted ==
    ASSUME conf \in Configs, Dropping, NEW c \in Int, NEW b \in Nat, NEW e \in Nat, NEW x \in Nat,
           NEW t \in Nat, NEW swapping \in BOOLEAN, Balanced(c, b, e, x, t, swapping)
    PROVE  Balanced(c - e, b, 0, x, t, swapping)
<1>1. Cap \in Nat /\ LargestSize \in Nat /\ Limit \in Nat /\ Limit >= LargestSize
  BY ConfNumbers
<1>2. Slack \in Nat /\ Past \in Nat
  BY <1>1 DEF Slack, Past
<1>3. QED
  BY <1>1, <1>2 DEF Balanced

\* the flush takes the buffer,
LEMMA BalanceTake ==
    ASSUME conf \in Configs, NEW c \in Int, NEW b \in Nat, NEW x \in Nat, NEW t \in Nat, x <= t,
           Balanced(c, b, 0, x, t, FALSE)
    PROVE  Balanced(c, 0, 0, x, t, TRUE)
<1>1. Cap \in Nat /\ LargestSize \in Nat /\ Limit \in Nat /\ Limit >= LargestSize
  BY ConfNumbers
<1>2. Slack \in Nat /\ Past \in Nat
  BY <1>1 DEF Slack, Past
<1>3. QED
  BY <1>1, <1>2 DEF Balanced

\* and resets the counter
LEMMA BalanceSwap ==
    ASSUME conf \in Configs, NEW c \in Int, NEW b \in Nat, NEW e \in Nat, NEW x \in Nat, NEW t \in Nat,
           x <= t, t <= Limit, Balanced(c, b, e, x, t, TRUE)
    PROVE  Balanced(0, b, e, x, t, FALSE)
<1>1. Cap \in Nat /\ LargestSize \in Nat /\ Limit \in Nat /\ Limit >= LargestSize
  BY ConfNumbers
<1>2. Slack \in Nat /\ Past \in Nat
  BY <1>1 DEF Slack, Past
<1>3. QED
  BY <1>1, <1>2 DEF Balanced

-----------------------------------------------------------------------------
(* The steps *)

\* the limits are those of the next state
LEMMA CountedNext ==
    ASSUME UNCHANGED conf,
           Balanced(currentBytes', BufferedBytes', Evicting', Sum(Uncounted'), Sum(InFlight'), fpc' = "swap")
    PROVE  Counted'
BY SMTT(30), ZenonT(30) DEF Counted, Balanced, Past, Slack, Cap, Dropping, Limit, LargestSize

\* one producer moves
LEMMA FlightMove ==
    ASSUME IInv, IInv', NEW p \in Producers,
           \A q \in Producers : q # p => pc'[q] = pc[q] /\ incoming'[q] = incoming[q]
    PROVE  /\ Sum(Uncounted') = Sum(Uncounted) + Uncounted'[p] - Uncounted[p]
           /\ Sum(InFlight') = Sum(InFlight) + InFlight'[p] - InFlight[p]
<1>1. /\ pc \in [Producers -> Where] /\ incoming \in [Producers -> [id : Nat, size : Nat]]
      /\ pc' \in [Producers -> Where] /\ incoming' \in [Producers -> [id : Nat, size : Nat]]
  BY DEF IInv, Shape
<1>2. /\ Uncounted \in [Producers -> Nat] /\ InFlight \in [Producers -> Nat]
      /\ Uncounted' \in [Producers -> Nat] /\ InFlight' \in [Producers -> Nat]
  BY <1>1 DEF Uncounted, InFlight
<1>3. \A q \in Producers : q # p => Uncounted'[q] = Uncounted[q] /\ InFlight'[q] = InFlight[q]
  BY <1>1 DEF Uncounted, InFlight
<1>4. QED
  BY <1>2, <1>3, SumUpdate

\* a step of a producer that only passes the test, or not even that
LEMMA MoveCounted ==
    ASSUME BInv, IInv', NEW p \in Producers,
           \A q \in Producers : q # p => pc'[q] = pc[q] /\ incoming'[q] = incoming[q],
           UNCHANGED <<conf, metricSizes, currentBytes, fpc>>, Evicting' = Evicting,
           pc[p] \notin {"count", "append", "evict_add"},
           \/ pc'[p] \notin {"count", "append", "evict_add"}
           \/ /\ pc'[p] = "append" /\ pc[p] # "idle" /\ incoming'[p] = incoming[p]
              /\ currentBytes + incoming[p].size <= Cap
    PROVE  Counted'
<1> DEFINE x == Sum(Uncounted)
           t == Sum(InFlight)
           s == incoming[p].size
<1>1. /\ x \in Nat /\ t \in Nat /\ Evicting \in Nat /\ BufferedBytes \in Nat /\ currentBytes \in Int
      /\ InFlight[p] = 0 => t <= Limit - LargestSize
  BY FlightNumbers DEF BInv
<1>2. /\ Sum(Uncounted') = x + Uncounted'[p] - Uncounted[p]
      /\ Sum(InFlight') = t + InFlight'[p] - InFlight[p]
  BY FlightMove DEF BInv
<1>3. Uncounted[p] = 0 /\ InFlight[p] = 0 /\ Uncounted'[p] = 0
  BY DEF Uncounted, InFlight
<1>4. BufferedBytes' = BufferedBytes
  BY DEF BufferedBytes
<1>5. Balanced(currentBytes, BufferedBytes, Evicting, x, t, fpc = "swap") /\ conf \in Configs
  BY SMTT(30), ZenonT(30) DEF BInv, Counted, IInv, Shape
<1>6. CASE pc'[p] \notin {"count", "append", "evict_add"}
  <2>1. InFlight'[p] = 0
    BY <1>6 DEF InFlight
  <2> HIDE DEF x, t
  <2>2. Sum(Uncounted') = x /\ Sum(InFlight') = t
    BY <2>1, <1>1, <1>2, <1>3
  <2>3. QED
    BY <2>2, <1>4, <1>5, CountedNext
<1>7. CASE pc'[p] = "append" /\ pc[p] # "idle" /\ incoming'[p] = incoming[p] /\ currentBytes + s <= Cap
  <2>1. InFlight'[p] = s
    BY <1>7 DEF InFlight
  <2>2. s \in Nat /\ s <= LargestSize
    BY <1>5, <1>7, ConfNumbers DEF BInv, Locks
  <2> HIDE DEF x, t, s
  <2>3. Sum(Uncounted') = x /\ Sum(InFlight') = t + s
    BY <2>1, <2>2, <1>1, <1>2, <1>3
  <2>4. Balanced(currentBytes, BufferedBytes, Evicting, x, t + s, fpc = "swap")
    BY <2>2, <1>1, <1>3, <1>5, <1>7, BalancePass, Zenon
  <2>5. QED
    BY <2>3, <2>4, <1>4, CountedNext
<1>8. QED
  BY <1>6, <1>7

\* the append
LEMMA AppendCounted ==
    ASSUME BInv, IInv', NEW p \in Producers, AppendEntry(p), UNCHANGED conf
    PROVE  Counted'
<1> DEFINE x == Sum(Uncounted)
           t == Sum(InFlight)
           s == incoming[p].size
<1>1. /\ pc[p] = "append" /\ mu = Free /\ mu' = Free /\ pc' = [pc EXCEPT ![p] = "count"]
      /\ metricSizes' = Append(metricSizes, s) /\ UNCHANGED <<currentBytes, incoming, fpc>>
  BY DEF AppendEntry, Goto, flusherVars
<1>2. /\ x \in Nat /\ t \in Nat /\ BufferedBytes \in Nat /\ currentBytes \in Int
  BY FlightNumbers DEF BInv
<1>3. pc'[p] = "count" /\ \A q \in Producers : q # p => pc'[q] = pc[q]
  BY SMTT(30), ZenonT(30), <1>1 DEF BInv, IInv, Shape
<1>4. /\ Sum(Uncounted') = x + Uncounted'[p] - Uncounted[p]
      /\ Sum(InFlight') = t + InFlight'[p] - InFlight[p]
  BY <1>1, <1>3, FlightMove DEF BInv
<1>5. Uncounted[p] = 0 /\ InFlight[p] = s /\ Uncounted'[p] = s /\ InFlight'[p] = s
  BY <1>1, <1>3 DEF Uncounted, InFlight
<1>6. Evicting = 0 /\ Evicting' = 0
  BY <1>1 DEF Evicting
<1>7. s \in Nat /\ metricSizes \in Seq(Nat)
  BY DEF BInv, IInv, Shape
<1>8. BufferedBytes' = BufferedBytes + s
  <2> HIDE DEF s
  <2>1. QED
    BY <1>1, <1>7, PrefixAppend DEF BufferedBytes
<1>9. Balanced(currentBytes, BufferedBytes, 0, x, t, fpc = "swap") /\ conf \in Configs
  BY <1>6 DEF BInv, Counted, IInv, Shape
\* the entry of p is in flight and not yet in the buffer
<1>10. t - x >= s
  <2> DEFINE h == [InFlight EXCEPT ![p] = 0]
  <2>1. Uncounted \in [Producers -> Nat] /\ InFlight \in [Producers -> Nat]
    BY FlightNumbers DEF BInv
  <2>2. h \in [Producers -> Nat] /\ h[p] = 0 /\ \A q \in Producers : q # p => h[q] = InFlight[q]
    BY <2>1
  <2>3. \A q \in Producers : Uncounted[q] <= InFlight[q]
    BY <2>1 DEF Uncounted, InFlight
  <2>4. \A q \in Producers : Uncounted[q] <= h[q]
    BY <2>1, <2>2, <2>3, <1>5
  <2> HIDE DEF h
  <2>5. x <= Sum(h) /\ Sum(h) \in Nat
    BY <2>1, <2>2, <2>4, SumMono
  <2>6. Sum(h) = t + h[p] - InFlight[p]
    BY <2>1, <2>2, SumUpdate
  <2> HIDE DEF x, t, s
  <2>7. QED
    BY <2>2, <2>5, <2>6, <1>2, <1>5, <1>7
<1> HIDE DEF x, t, s
<1>11. Sum(Uncounted') = x + s /\ Sum(InFlight') = t
  BY <1>2, <1>4, <1>5, <1>7
<1>12. Balanced(currentBytes, BufferedBytes + s, 0, x + s, t, fpc = "swap")
  BY <1>2, <1>7, <1>9, <1>10, BalanceAppend, Zenon
<1>13. QED
  BY <1>1, <1>6, <1>8, <1>11, <1>12, CountedNext

\* the bytes are added to the counter
LEMMA CountCounted ==
    ASSUME BInv, IInv', NEW p \in Producers, CountBytes(p), UNCHANGED conf
    PROVE  Counted'
<1> DEFINE x == Sum(Uncounted)
           t == Sum(InFlight)
           s == incoming[p].size
<1>1. /\ pc[p] = "count" /\ mu' = mu /\ pc' = [pc EXCEPT ![p] = "signal"] /\ currentBytes' = currentBytes + s
      /\ UNCHANGED <<metricSizes, incoming, evictedBytes, fpc>>
  BY DEF CountBytes, Goto, flusherVars
<1>2. /\ x \in Nat /\ t \in Nat /\ Evicting \in Nat /\ BufferedBytes \in Nat /\ currentBytes \in Int
  BY FlightNumbers DEF BInv
<1>3. pc'[p] = "signal" /\ \A q \in Producers : q # p => pc'[q] = pc[q]
  BY <1>1 DEF BInv, IInv, Shape
<1>4. /\ Sum(Uncounted') = x + Uncounted'[p] - Uncounted[p]
      /\ Sum(InFlight') = t + InFlight'[p] - InFlight[p]
  BY <1>1, <1>3, FlightMove DEF BInv
<1>5. Uncounted[p] = s /\ InFlight[p] = s /\ Uncounted'[p] = 0 /\ InFlight'[p] = 0
  BY <1>1, <1>3 DEF Uncounted, InFlight
<1>6. Evicting' = Evicting
  <2>1. mu = Free \/ (mu \in Producers /\ mu # p)
    BY <1>1 DEF BInv, Locks
  <2>2. QED
    BY <1>1, <1>3, <2>1 DEF Evicting
<1>7. s \in Nat
  BY DEF BInv, IInv, Shape
<1>8. BufferedBytes' = BufferedBytes
  BY <1>1 DEF BufferedBytes
<1>9. Balanced(currentBytes, BufferedBytes, Evicting, x, t, fpc = "swap") /\ conf \in Configs
  BY DEF BInv, Counted, IInv, Shape
<1> HIDE DEF x, t, s
<1>10. Sum(Uncounted') = x - s /\ Sum(InFlight') = t - s
  BY <1>2, <1>4, <1>5, <1>7
<1>11. Balanced(currentBytes + s, BufferedBytes, Evicting, x - s, t - s, fpc = "swap")
  BY <1>2, <1>7, <1>9, BalanceCount, Zenon
<1>12. QED
  BY <1>1, <1>6, <1>8, <1>10, <1>11, CountedNext

\* the eviction: enough of the oldest entries, and not one more
LEMMA EvictCounted ==
    ASSUME BInv, IInv', NEW p \in Producers, EvictTake(p), UNCHANGED conf
    PROVE  Counted' /\ metricSizes' \in Seq(conf.sizes)
<1> DEFINE x == Sum(Uncounted)
           t == Sum(InFlight)
           s == incoming[p].size
           n == Len(metrics)
           needed == currentBytes + s - conf.maxBufferBytes
           enough(i) == /\ i = n \/ Prefix(metricSizes, i) >= needed
                        /\ \A j \in 0..(i - 1) : Prefix(metricSizes, j) < needed
<1>1. /\ pc[p] = "evict" /\ mu = Free /\ mu' = p /\ pc' = [pc EXCEPT ![p] = "evict_add"]
      /\ UNCHANGED <<currentBytes, incoming, fpc>>
  BY DEF EvictTake, Goto, flusherVars
<1>2. /\ x \in Nat /\ t \in Nat /\ BufferedBytes \in Nat /\ currentBytes \in Int /\ x <= t
      /\ InFlight[p] = 0 => t <= Limit - LargestSize
  BY FlightNumbers DEF BInv
<1>3. pc'[p] = "evict_add" /\ \A q \in Producers : q # p => pc'[q] = pc[q]
  BY <1>1 DEF BInv, IInv, Shape
<1>4. /\ Sum(Uncounted') = x + Uncounted'[p] - Uncounted[p]
      /\ Sum(InFlight') = t + InFlight'[p] - InFlight[p]
  BY <1>1, <1>3, FlightMove DEF BInv
<1>5. Uncounted[p] = 0 /\ InFlight[p] = 0 /\ Uncounted'[p] = 0 /\ InFlight'[p] = s
  BY <1>1, <1>3 DEF Uncounted, InFlight
<1>6. conf \in Configs /\ metricSizes \in Seq(Nat) /\ Len(metricSizes) = n /\ n \in Nat
      /\ evictedBytes \in [Producers -> Nat] /\ metricSizes \in Seq(conf.sizes)
  BY DEF BInv, IInv, Shape, Locks
<1>7. /\ Cap \in Nat /\ LargestSize \in Nat /\ s \in Nat /\ s <= LargestSize
      /\ \A i \in 1..n : metricSizes[i] \in Nat /\ metricSizes[i] <= LargestSize
  <2>1. /\ Cap \in Nat /\ LargestSize \in Nat
        /\ \A a \in conf.sizes : a \in Nat /\ a <= LargestSize
    BY <1>6, ConfNumbers
  <2>2. s \in conf.sizes /\ \A i \in 1..n : metricSizes[i] \in conf.sizes
    BY SMTT(30), ZenonT(30), <1>1, <1>6 DEF BInv, Locks
  <2>3. QED
    BY <2>1, <2>2
<1>8. Balanced(currentBytes, BufferedBytes, 0, x, t, fpc = "swap") /\ Dropping
  <2>1. Evicting = 0
    BY <1>1 DEF Evicting
  <2>2. QED
    BY <1>1, <2>1 DEF BInv, Counted, Locks
<1>9. needed \in Int /\ needed = currentBytes + s - Cap
  BY <1>2, <1>7 DEF Cap
<1>10. PICK k \in 0..n :
         /\ metricSizes' = SubSeq(metricSizes, k + 1, n)
         /\ evictedBytes' = [evictedBytes EXCEPT ![p] = Prefix(metricSizes, k)]
         /\ enough(k)
  <2> HIDE DEF needed
  <2>1. LET k == CHOOSE i \in 0..n : enough(i)
        IN  k \in 0..n /\ enough(k)
    BY <1>9, EvictCount DEF BInv, IInv
  <2>2. QED
    BY <2>1, Zenon DEF EvictTake, needed
<1> DEFINE e == Prefix(metricSizes, k)
<1>11. k \in Nat /\ k <= n /\ \A i \in 1..k : metricSizes[i] \in Nat
  BY <1>6, <1>7
<1>12. e \in Nat /\ BufferedBytes = Prefix(metricSizes, n)
  BY <1>6, <1>11, PrefixStep DEF BufferedBytes
<1>13. BufferedBytes' = BufferedBytes - e
  BY <1>6, <1>10, PrefixCut DEF BufferedBytes
<1>14. BufferedBytes' \in Nat
  <2>1. metricSizes' \in Seq(Nat)
    BY DEF IInv, Shape
  <2>2. Len(metricSizes') \in Nat /\ \A i \in 1..Len(metricSizes') : metricSizes'[i] \in Nat
    BY <2>1
  <2>3. Prefix(metricSizes', Len(metricSizes')) \in Nat
    BY <2>2, PrefixStep
  <2>4. QED
    BY <2>3 DEF BufferedBytes
<1>15. Evicting' = e
  <2>1. evictedBytes'[p] = e
    BY <1>6, <1>10
  <2>2. p # Free
    BY ProducersAssumption DEF Free
  <2>3. QED
    BY SMTT(30), ZenonT(30), <1>1, <1>3, <2>1, <2>2 DEF Evicting
<1>16. e = BufferedBytes \/ currentBytes - e + s <= Cap
  <2> HIDE DEF e, s
  <2>1. k = n \/ e >= needed
    BY <1>10 DEF e
  <2>2. CASE k = n
    BY <2>2, <1>12 DEF e
  <2>3. CASE e >= needed
    BY <2>3, <1>2, <1>7, <1>9, <1>12
  <2>4. QED
    BY <2>1, <2>2, <2>3
<1>17. e = 0 \/ e <= currentBytes + s - Cap + LargestSize
  <2>1. CASE k = 0
    BY <2>1, <1>12, PrefixStep
  <2>2. CASE k # 0
    <3>1. k - 1 \in 0..(k - 1) /\ k \in 1..n /\ k - 1 \in Nat /\ \A i \in 1..(k - 1) : metricSizes[i] \in Nat
      BY <2>2, <1>6, <1>11
    <3>2. Prefix(metricSizes, k - 1) < needed
      BY <3>1, <1>10
    <3>3. e = Prefix(metricSizes, k - 1) + metricSizes[k]
      BY <2>2, <1>11, PrefixStep
    <3>4. metricSizes[k] \in Nat /\ metricSizes[k] <= LargestSize
      BY <3>1, <1>7
    <3>5. Prefix(metricSizes, k - 1) \in Nat
      BY <3>1, PrefixStep
    <3> HIDE DEF e, s, needed
    <3>6. QED
      BY <3>2, <3>3, <3>4, <3>5, <1>2, <1>7, <1>9
  <2>3. QED
    BY <2>1, <2>2
<1> HIDE DEF x, t, s, e
<1>18. Sum(Uncounted') = x /\ Sum(InFlight') = t + s
  BY <1>2, <1>4, <1>5, <1>7
<1>19. e <= BufferedBytes
  BY <1>2, <1>12, <1>13, <1>14
<1>20. t <= Limit - LargestSize
  BY <1>2, <1>5
<1>21. Balanced(currentBytes, BufferedBytes - e, e, x, t + s, fpc = "swap")
  BY <1>2, <1>6, <1>7, <1>8, <1>12, <1>16, <1>17, <1>19, <1>20, BalanceEvict, Zenon
<1>22. Counted'
  BY <1>1, <1>13, <1>15, <1>18, <1>21, CountedNext
<1>23. metricSizes' \in Seq(conf.sizes)
  <2> DEFINE C == conf.sizes
  <2>1. metricSizes \in Seq(C) /\ k + 1 \in Int /\ n \in Int /\ \A i \in (k + 1)..n : metricSizes[i] \in C
    BY <1>6, <1>11
  <2> HIDE DEF C, n
  <2>2. SubSeq(metricSizes, k + 1, n) \in Seq(C)
    BY <2>1, SubSeqProperties
  <2>3. QED
    BY <2>2, <1>10 DEF C
<1>24. QED
  BY <1>22, <1>23

\* the evicted bytes are taken off the counter
LEMMA EvictedCounted ==
    ASSUME BInv, IInv', NEW p \in Producers, EvictAdd(p), UNCHANGED conf
    PROVE  Counted'
<1> DEFINE x == Sum(Uncounted)
           t == Sum(InFlight)
<1>1. /\ pc[p] = "evict_add" /\ mu' = Free /\ pc' = [pc EXCEPT ![p] = "append"]
      /\ currentBytes' = currentBytes - evictedBytes[p]
      /\ UNCHANGED <<metricSizes, incoming, fpc>>
  BY DEF EvictAdd, Goto, flusherVars
<1>2. /\ x \in Nat /\ t \in Nat /\ Evicting \in Nat /\ BufferedBytes \in Nat /\ currentBytes \in Int
  BY FlightNumbers DEF BInv
<1>3. pc'[p] = "append" /\ \A q \in Producers : q # p => pc'[q] = pc[q]
  BY <1>1 DEF BInv, IInv, Shape
<1>4. /\ Sum(Uncounted') = x + Uncounted'[p] - Uncounted[p]
      /\ Sum(InFlight') = t + InFlight'[p] - InFlight[p]
  BY <1>1, <1>3, FlightMove DEF BInv
<1>5. Uncounted[p] = 0 /\ Uncounted'[p] = 0 /\ InFlight'[p] = InFlight[p] /\ InFlight[p] \in Nat
  BY <1>1, <1>3 DEF Uncounted, InFlight, BInv, IInv, Shape
<1>6. mu = p /\ p # Free /\ Dropping
  BY <1>1, ProducersAssumption DEF BInv, Locks, Free
<1>7. Evicting = evictedBytes[p] /\ Evicting' = 0
  BY <1>1, <1>6 DEF Evicting
<1>8. BufferedBytes' = BufferedBytes
  BY <1>1 DEF BufferedBytes
<1>9. Balanced(currentBytes, BufferedBytes, Evicting, x, t, fpc = "swap") /\ conf \in Configs
  BY DEF BInv, Counted, IInv, Shape
<1> HIDE DEF x, t
<1>10. Sum(Uncounted') = x /\ Sum(InFlight') = t
  BY <1>2, <1>4, <1>5
<1>11. Balanced(currentBytes - Evicting, BufferedBytes, 0, x, t, fpc = "swap")
  BY <1>2, <1>6, <1>9, BalanceEvicted, Zenon
<1>12. QED
  BY SMTT(30), ZenonT(30), <1>1, <1>7, <1>8, <1>10, <1>11, CountedNext

\* a step that leaves the producers where they are
LEMMA SameFlight ==
    ASSUME BInv, \A p \in Producers : /\ incoming'[p] = incoming[p]
                                      /\ pc'[p] = pc[p] \/ (pc[p] = "waiting" /\ pc'[p] = "block"),
           UNCHANGED <<mu, evictedBytes, conf>>
    PROVE  /\ Uncounted' = Uncounted /\ InFlight' = InFlight /\ Evicting' = Evicting
           /\ metricSizes' \in Seq(conf.sizes) => Locks'
<1>1. Uncounted' = Uncounted
  BY DEF Uncounted
<1>2. InFlight' = InFlight
  BY DEF InFlight
<1>3. mu = Free \/ mu \in Producers
  BY DEF BInv, Locks
<1>4. Evicting' = Evicting
  BY <1>3 DEF Evicting
<1>5. metricSizes' \in Seq(conf.sizes) => Locks'
  BY DEF BInv, Locks, Dropping
<1>6. QED
  BY <1>1, <1>2, <1>4, <1>5

\* the steps of the flush goroutine
LEMMA FlusherBound ==
    ASSUME BInv, Flusher, UNCHANGED conf
    PROVE  Locks' /\ Counted'
<1> DEFINE x == Sum(Uncounted)
           t == Sum(InFlight)
<1>1. /\ x \in Nat /\ t \in Nat /\ Evicting \in Nat /\ BufferedBytes \in Nat /\ currentBytes \in Int
      /\ x <= t /\ t <= Limit
  BY FlightNumbers DEF BInv
<1>2. Balanced(currentBytes, BufferedBytes, Evicting, x, t, fpc = "swap") /\ conf \in Configs
      /\ metricSizes \in Seq(conf.sizes)
  BY DEF BInv, Counted, IInv, Shape, Locks
<1>3. CASE FlushTick \/ FlushSignalled \/ FlushFinal
  <2>1. /\ fpc = "idle" /\ mu = Free /\ UNCHANGED <<currentBytes, mu, pc, incoming, evictedBytes>>
        /\ \/ fpc' \in {"idle", "done"} /\ UNCHANGED metricSizes
           \/ fpc' = "swap" /\ metricSizes' = <<>>
    BY <1>3 DEF FlushTick, FlushSignalled, FlushFinal, FlushTake, producerVars
  <2>2. /\ Uncounted' = Uncounted /\ InFlight' = InFlight /\ Evicting' = Evicting
        /\ metricSizes' \in Seq(conf.sizes) => Locks'
    BY <2>1, SameFlight
  <2>3. metricSizes' \in Seq(conf.sizes)
    <3>1. <<>> \in Seq(conf.sizes)
      OBVIOUS
    <3>2. QED
      BY <2>1, <1>2, <3>1, Zenon
  <2>4. Evicting = 0
    BY <2>1 DEF Evicting
  <2>5. Sum(Uncounted') = x /\ Sum(InFlight') = t
    BY <2>2
  <2> HIDE DEF x, t
  <2>6. CASE fpc' \in {"idle", "done"} /\ UNCHANGED metricSizes
    <3>1. BufferedBytes' = BufferedBytes
      BY <2>6 DEF BufferedBytes
    <3>2. (fpc = "swap") = (fpc' = "swap")
      BY <2>1, <2>6
    <3>3. Balanced(currentBytes', BufferedBytes', Evicting', Sum(Uncounted'), Sum(InFlight'), fpc' = "swap")
      BY <3>1, <3>2, <2>1, <2>2, <2>5, <1>2
    <3>4. QED
      BY <3>3, <2>2, <2>3, CountedNext
  <2>7. CASE fpc' = "swap" /\ metricSizes' = <<>>
    <3>1. BufferedBytes' = 0
      <4>1. Prefix(<<>>, 0) = 0
        BY PrefixStep
      <4>2. QED
        BY <2>7, <4>1 DEF BufferedBytes
    <3>2. Balanced(currentBytes, BufferedBytes, 0, x, t, FALSE)
      BY <1>2, <2>1, <2>4, Zenon
    <3>3. Balanced(currentBytes, 0, 0, x, t, TRUE)
      BY <3>2, <1>1, <1>2, BalanceTake, Zenon
    <3>4. Balanced(currentBytes', BufferedBytes', Evicting', Sum(Uncounted'), Sum(InFlight'), fpc' = "swap")
      BY <3>1, <3>3, <2>1, <2>2, <2>4, <2>5, <2>7, Zenon
    <3>5. QED
      BY <3>4, <2>2, <2>3, CountedNext
  <2>8. QED
    BY <2>1, <2>6, <2>7
<1>4. CASE FlushSwap
  <2>1. /\ fpc = "swap" /\ fpc' = "broadcast" /\ currentBytes' = 0
        /\ UNCHANGED <<mu, pc, incoming, evictedBytes, metricSizes>>
    BY <1>4 DEF FlushSwap, producerVars
  <2>2. Uncounted' = Uncounted /\ InFlight' = InFlight /\ Evicting' = Evicting /\ Locks'
    BY <2>1, <1>2, SameFlight
  <2>3. Sum(Uncounted') = x /\ Sum(InFlight') = t /\ BufferedBytes' = BufferedBytes
    BY <2>1, <2>2 DEF BufferedBytes
  <2> HIDE DEF x, t
  <2>4. Balanced(currentBytes, BufferedBytes, Evicting, x, t, TRUE)
    BY <2>1, <1>2, Zenon
  <2>5. Balanced(0, BufferedBytes, Evicting, x, t, FALSE)
    BY <2>4, <1>1, <1>2, BalanceSwap, Zenon
  <2>6. Balanced(currentBytes', BufferedBytes', Evicting', Sum(Uncounted'), Sum(InFlight'), fpc' = "swap")
    BY <2>1, <2>2, <2>3, <2>5, Zenon
  <2>7. QED
    BY <2>2, <2>6, CountedNext
<1>5. CASE FlushBroadcast \/ FlushExport
  <2>1. /\ fpc # "swap" /\ fpc' # "swap" /\ UNCHANGED <<currentBytes, mu, incoming, evictedBytes, metricSizes>>
        /\ \A p \in Producers : pc'[p] = pc[p] \/ (pc[p] = "waiting" /\ pc'[p] = "block")
    BY <1>5 DEF FlushBroadcast, FlushExport, producerVars
  <2>2. Uncounted' = Uncounted /\ InFlight' = InFlight /\ Evicting' = Evicting /\ Locks'
    BY <2>1, <1>2, SameFlight
  <2>3. Sum(Uncounted') = x /\ Sum(InFlight') = t /\ BufferedBytes' = BufferedBytes
    BY <2>1, <2>2 DEF BufferedBytes
  <2> HIDE DEF x, t
  <2>4. (fpc = "swap") = (fpc' = "swap")
    BY SMTT(30), ZenonT(30), <2>1
  <2>5. Balanced(currentBytes', BufferedBytes', Evicting', Sum(Uncounted'), Sum(InFlight'), fpc' = "swap")
    BY <2>1, <2>2, <2>3, <2>4, <1>2
  <2>6. QED
    BY <2>2, <2>5, CountedNext
<1>6. QED
  BY <1>3, <1>4, <1>5 DEF Flusher

\* a producer moves, and takes or releases the mutex if it stops or stopped inside
LEMMA MoveLocks ==
    ASSUME BInv, NEW p \in Producers, NEW w \in Where, pc' = [pc EXCEPT ![p] = w],
           \A q \in Producers : q # p => incoming'[q] = incoming[q],
           w # "idle" => incoming'[p].size \in conf.sizes,
           w \in {"evict", "evict_add"} => Dropping,
           IF w \in {"evict_add", "wait"} THEN mu = Free /\ mu' = p
           ELSE IF pc[p] \in {"evict_add", "wait"} THEN mu' = Free
           ELSE mu' = mu,
           metricSizes' \in Seq(conf.sizes), UNCHANGED conf
    PROVE  Locks' /\ \A q \in Producers : q # p => pc'[q] = pc[q]
<1>1. pc'[p] = w /\ \A q \in Producers : q # p => pc'[q] = pc[q]
  BY DEF BInv, IInv, Shape
<1>2. p # Free
  BY ProducersAssumption DEF Free
<1>3. mu' = Free \/ mu' \in Producers
  BY DEF BInv, Locks
<1>4. \A q \in Producers : pc'[q] \in {"evict_add", "wait"} <=> mu' = q
  <2>1. \A q \in Producers : q # Free
    BY ProducersAssumption DEF Free
  <2>2. QED
    BY <1>1, <2>1 DEF BInv, Locks
<1>5. \A q \in Producers : pc'[q] \in {"evict", "evict_add"} => Dropping'
  BY SMTT(30), ZenonT(30), <1>1 DEF BInv, Locks, Dropping
<1>6. \A q \in Producers : pc'[q] # "idle" => incoming'[q].size \in conf'.sizes
  BY <1>1 DEF BInv, Locks
<1>7. QED
  BY <1>1, <1>3, <1>4, <1>5, <1>6 DEF Locks

\* a step of a producer that counts nothing
LEMMA MoveBound ==
    ASSUME BInv, IInv', NEW p \in Producers, UNCHANGED conf,
           NEW w \in Where, pc' = [pc EXCEPT ![p] = w],
           \A q \in Producers : q # p => incoming'[q] = incoming[q],
           w # "idle" => incoming'[p].size \in conf.sizes,
           w = "evict" => Dropping,
           IF w = "wait" THEN mu = Free /\ mu' = p
           ELSE IF pc[p] = "wait" THEN mu' = Free
           ELSE mu' = mu,
           pc[p] \notin {"count", "append", "evict_add"},
           \/ w \notin {"count", "append", "evict_add"}
           \/ /\ w = "append" /\ pc[p] # "idle" /\ incoming'[p] = incoming[p]
              /\ currentBytes + incoming[p].size <= Cap,
           UNCHANGED <<metricSizes, currentBytes, fpc>>,
           \A q \in Producers : q # p => evictedBytes'[q] = evictedBytes[q]
    PROVE  Locks' /\ Counted'
<1>1. /\ mu = Free \/ mu \in Producers
      /\ pc[p] \in {"evict_add", "wait"} <=> mu = p
      /\ pc[p] \in {"evict", "evict_add"} => Dropping
      /\ pc[p] # "idle" => incoming[p].size \in conf.sizes
      /\ metricSizes \in Seq(conf.sizes) /\ p # Free
  BY ProducersAssumption DEF BInv, Locks, Free
<1>2. /\ pc \in [Producers -> Where] /\ incoming \in [Producers -> [id : Nat, size : Nat]]
  BY DEF BInv, IInv, Shape
<1>3. Locks' /\ \A q \in Producers : q # p => pc'[q] = pc[q]
  BY <1>1, MoveLocks, ZenonT(30)
<1>4. pc'[p] = w
  BY <1>2
<1>5. Evicting' = Evicting
  <2>1. CASE mu = Free
    <3>1. mu' = Free \/ (mu' = p /\ w = "wait")
      BY <1>1, <2>1
    <3>2. QED
      BY <1>4, <2>1, <3>1 DEF Evicting
  <2>2. CASE mu = p
    <3>1. pc[p] = "wait" /\ mu' = Free
      BY <1>1, <2>2
    <3>2. QED
      BY <1>1, <2>2, <3>1 DEF Evicting
  <2>3. CASE mu \in Producers /\ mu # p
    <3>1. mu # Free /\ w # "wait" /\ pc[p] # "wait"
      BY <1>1, <2>3, ProducersAssumption DEF Free
    <3>2. mu' = mu
      BY <3>1
    <3>3. pc'[mu] = pc[mu]
      BY <1>3, <2>3
    <3>4. evictedBytes'[mu] = evictedBytes[mu]
      BY <2>3
    <3>5. QED
      BY SMTT(30), ZenonT(30), <3>2, <3>3, <3>4 DEF Evicting
  <2>4. QED
    BY SMTT(30), ZenonT(30), <1>1, <2>1, <2>2, <2>3
<1>6. QED
  BY ZenonT(30), <1>3, <1>4, <1>5, MoveCounted

\* the steps of the producers
LEMMA ProducerBound ==
    ASSUME BInv, IInv', NEW p \in Producers, UNCHANGED conf,
           Producer(p) \/ \E size \in conf.sizes : Keep(p, size)
    PROVE  Locks' /\ Counted'
<1>1. /\ mu = Free \/ mu \in Producers
      /\ pc[p] \in {"evict_add", "wait"} <=> mu = p
      /\ pc[p] \in {"evict", "evict_add"} => Dropping
      /\ pc[p] # "idle" => incoming[p].size \in conf.sizes
      /\ metricSizes \in Seq(conf.sizes) /\ p # Free
  BY ZenonT(30), ProducersAssumption DEF BInv, Locks, Free
<1>2. /\ pc \in [Producers -> Where] /\ incoming \in [Producers -> [id : Nat, size : Nat]]
  BY ZenonT(30) DEF BInv, IInv, Shape
<1>3. CASE \E size \in conf.sizes : Keep(p, size)
  <2>1. PICK size \in conf.sizes : Keep(p, size)
    BY <1>3
  <2>2. /\ pc[p] = "idle" /\ pc' = [pc EXCEPT ![p] = "enforce"]
        /\ incoming' = [incoming EXCEPT ![p] = [id |-> adds + 1, size |-> size]]
        /\ UNCHANGED <<metricSizes, currentBytes, mu, evictedBytes, fpc>>
    BY ZenonT(30), <2>1 DEF Keep, Goto, flusherVars
  <2>3. incoming'[p].size = size /\ \A q \in Producers : q # p => incoming'[q] = incoming[q]
    BY ZenonT(30), <1>2, <2>2
  <2>4. "enforce" \in Where
    BY DEF Where, Before
  <2>5. QED
    BY MoveBound, <2>2, <2>3, <2>4, Zenon
<1>4. CASE EnforceCapacity(p)
  <2>1. pc[p] = "enforce" /\ UNCHANGED <<metricSizes, currentBytes, mu, fpc>>
    BY <1>4, Zenon DEF EnforceCapacity, flusherVars
  <2>2. CASE currentBytes + incoming[p].size <= Cap
    <3>1. pc' = [pc EXCEPT ![p] = "append"] /\ UNCHANGED <<incoming, evictedBytes>>
      BY <1>4, <2>2 DEF EnforceCapacity, Goto, Cap
    <3>2. "append" \in Where
      BY DEF Where, Before
    <3>3. QED
      BY <1>1, MoveBound, <2>1, <2>2, <3>1, <3>2, ZenonT(30)
  <2>3. CASE ~(currentBytes + incoming[p].size <= Cap) /\ conf.fullPolicy = "reject"
    <3>1. /\ pc' = [pc EXCEPT ![p] = "idle"] /\ incoming' = [incoming EXCEPT ![p] = NoEntry]
          /\ evictedBytes' = [evictedBytes EXCEPT ![p] = 0]
      BY ZenonT(30), <1>4, <2>3 DEF EnforceCapacity, Return, Goto, Cap
    <3>2. "idle" \in Where /\ \A q \in Producers : q # p => incoming'[q] = incoming[q]
      BY <1>2, <3>1 DEF Where
    <3>3. \A q \in Producers : q # p => evictedBytes'[q] = evictedBytes[q]
      BY <3>1 DEF BInv, IInv, Shape
    <3>4. QED
      BY MoveBound, <2>1, <3>1, <3>2, <3>3, Zenon
  <2>4. CASE ~(currentBytes + incoming[p].size <= Cap) /\ conf.fullPolicy # "reject"
    <3>1. PICK w \in {"block", "evict"} : pc' = [pc EXCEPT ![p] = w] /\ (w = "evict" => conf.fullPolicy # "block")
      BY <1>4, <2>4, Zenon DEF EnforceCapacity, Goto, Cap
    <3>2. w \in Where /\ UNCHANGED <<incoming, evictedBytes>>
      BY <1>4, <2>4 DEF EnforceCapacity, Cap, Where, Before
    <3>3. w = "evict" => Dropping
      BY <2>4, <3>1, ConfigsAssumption DEF BInv, IInv, Shape, Dropping
    <3>4. QED
      BY <1>1, MoveBound, <2>1, <3>1, <3>2, <3>3, Zenon
  <2>5. QED
    BY ZenonT(30), <2>2, <2>3, <2>4
<1>5. CASE EvictTake(p)
  <2>1. /\ pc[p] = "evict" /\ mu = Free /\ mu' = p /\ pc' = [pc EXCEPT ![p] = "evict_add"] /\ UNCHANGED incoming
    BY SMTT(30), ZenonT(30), <1>5 DEF EvictTake, Goto
  <2>2. Counted' /\ metricSizes' \in Seq(conf.sizes)
    BY <1>5, EvictCounted
  <2>3. "evict_add" \in Where
    BY DEF Where, Before
  <2>4. QED
    BY <1>1, <2>1, <2>2, <2>3, MoveLocks, Zenon
<1>6. CASE EvictAdd(p)
  <2>1. /\ pc[p] = "evict_add" /\ mu' = Free /\ pc' = [pc EXCEPT ![p] = "append"]
        /\ UNCHANGED <<incoming, metricSizes>>
    BY <1>6, ZenonT(30) DEF EvictAdd, Goto
  <2>2. "append" \in Where
    BY DEF Where, Before
  <2>3. QED
    BY <1>1, <1>6, <2>1, <2>2, MoveLocks, EvictedCounted, Zenon
<1>7. CASE BlockTest(p)
  <2>1. pc[p] = "block" /\ mu = Free /\ UNCHANGED <<metricSizes, currentBytes, fpc, incoming, evictedBytes>>
    BY <1>7 DEF BlockTest, flusherVars
  <2>2. \/ mu' = p /\ pc' = [pc EXCEPT ![p] = "wait"]
        \/ /\ mu' = Free /\ pc' = [pc EXCEPT ![p] = "append"]
           /\ ~(currentBytes + incoming[p].size > Cap)
    BY <1>7 DEF BlockTest, Goto, Cap
  <2>3. ~(currentBytes + incoming[p].size > Cap) => currentBytes + incoming[p].size <= Cap
    <3>1. conf \in Configs /\ currentBytes \in Int /\ incoming[p].size \in Nat
      BY DEF BInv, IInv, Shape
    <3>2. Cap \in Nat
      BY <3>1, ConfNumbers
    <3>3. QED
      BY <3>1, <3>2
  <2>4. "wait" \in Where /\ "append" \in Where
    BY DEF Where, Before
  <2>5. CASE pc' = [pc EXCEPT ![p] = "wait"] /\ mu' = p
    BY <1>1, MoveBound, <2>1, <2>4, <2>5, Zenon
  <2>6. CASE mu' = Free /\ pc' = [pc EXCEPT ![p] = "append"] /\ ~(currentBytes + incoming[p].size > Cap)
    BY <1>1, MoveBound, <2>1, <2>3, <2>4, <2>6, Zenon
  <2>7. QED
    BY ZenonT(30), <2>2, <2>5, <2>6
<1>8. CASE BlockWait(p)
  <2>1. /\ pc[p] = "wait" /\ mu' = Free /\ pc' = [pc EXCEPT ![p] = "waiting"]
        /\ UNCHANGED <<metricSizes, currentBytes, fpc, incoming, evictedBytes>>
    BY <1>8, Zenon DEF BlockWait, Goto, flusherVars
  <2>2. "waiting" \in Where
    BY DEF Where, Before
  <2>3. QED
    BY <1>1, MoveBound, <2>1, <2>2, Zenon
<1>9. CASE AppendEntry(p)
  <2>1. /\ pc[p] = "append" /\ mu' = mu /\ pc' = [pc EXCEPT ![p] = "count"] /\ UNCHANGED incoming
        /\ metricSizes' = Append(metricSizes, incoming[p].size)
    BY <1>9, Zenon DEF AppendEntry, Goto
  <2>2. "count" \in Where /\ metricSizes' \in Seq(conf.sizes)
    <3>1. incoming[p].size \in conf.sizes
      BY <1>1, <2>1
    <3>2. Append(metricSizes, incoming[p].size) \in Seq(conf.sizes)
      BY <1>1, <3>1, AppendProperties, Zenon
    <3>3. QED
      BY SMTT(30), ZenonT(30), <2>1, <3>2 DEF Where
  <2>3. QED
    BY <1>1, <1>9, <2>1, <2>2, MoveLocks, AppendCounted, Zenon
<1>10. CASE CountBytes(p)
  <2>1. /\ pc[p] = "count" /\ mu' = mu /\ pc' = [pc EXCEPT ![p] = "signal"] /\ UNCHANGED <<incoming, metricSizes>>
    BY <1>10 DEF CountBytes, Goto
  <2>2. "signal" \in Where
    BY DEF Where
  <2>3. QED
    BY <1>1, <1>10, <2>1, <2>2, MoveLocks, CountCounted, Zenon
<1>11. CASE SignalFlush(p)
  <2>1. /\ pc[p] = "signal" /\ pc' = [pc EXCEPT ![p] = "idle"]
        /\ incoming' = [incoming EXCEPT ![p] = NoEntry]
        /\ evictedBytes' = [evictedBytes EXCEPT ![p] = 0]
        /\ UNCHANGED <<metricSizes, currentBytes, fpc, mu>>
    BY <1>11, Zenon DEF SignalFlush, Return, Goto, flusherVars
  <2>2. "idle" \in Where /\ \A q \in Producers : q # p => incoming'[q] = incoming[q]
    BY <1>2, <2>1 DEF Where
  <2>3. \A q \in Producers : q # p => evictedBytes'[q] = evictedBytes[q]
    BY <2>1 DEF BInv, IInv, Shape
  <2>4. QED
    BY MoveBound, <2>1, <2>2, <2>3, Zenon
<1>12. QED
  BY <1>3, <1>4, <1>5, <1>6, <1>7, <1>8, <1>9, <1>10, <1>11 DEF Producer

\* every step
LEMMA BoundPreserved == BInv /\ [Next]_vars => BInv'
<1> SUFFICES ASSUME BInv, [Next]_vars PROVE BInv'
  OBVIOUS
<1>1. IInv'
  BY StepPreserves DEF BInv
\* a step that touches neither the bytes nor the producers
<1>2. ASSUME UNCHANGED <<conf, metricSizes, currentBytes, mu, pc, incoming, evictedBytes, fpc>>
      PROVE  Locks' /\ Counted'
  <2>1. Uncounted' = Uncounted /\ InFlight' = InFlight /\ Evicting' = Evicting /\ Locks'
    BY ZenonT(30), <1>2, SameFlight DEF BInv, Locks
  <2>2. BufferedBytes' = BufferedBytes
    BY <1>2 DEF BufferedBytes
  <2>3. Balanced(currentBytes', BufferedBytes', Evicting', Sum(Uncounted'), Sum(InFlight'), fpc' = "swap")
    BY <1>2, <2>1, <2>2 DEF BInv, Counted
  <2>4. QED
    BY <1>2, <2>1, <2>3, CountedNext
<1>3. CASE UNCHANGED vars
  <2>1. UNCHANGED <<conf, metricSizes, currentBytes, mu, pc, incoming, evictedBytes, fpc>>
    BY <1>3 DEF vars, producerVars, flusherVars
  <2>2. QED
    BY <1>1, <1>2, <2>1 DEF BInv
<1>4. CASE Next
  <2>0. Step /\ UNCHANGED conf
    BY <1>4 DEF Next
  <2>1. ASSUME NEW p \in Producers, AddFiltered(p) PROVE Locks' /\ Counted'
    BY <2>0, <2>1, <1>2 DEF AddFiltered, producerVars, flusherVars
  <2>2. ASSUME NEW p \in Producers, NEW size \in conf.sizes, Add(p, size) \/ AddAggregated(p, size)
        PROVE  Locks' /\ Counted'
    BY <2>0, <2>2, <1>1, ProducerBound DEF Add, AddAggregated
  <2>3. ASSUME NEW p \in Producers, Producer(p) PROVE Locks' /\ Counted'
    BY <2>0, <2>3, <1>1, ProducerBound
  <2>4. ASSUME Flusher PROVE Locks' /\ Counted'
    BY <2>0, <2>4, FlusherBound
  <2>5. ASSUME StopReceivers \/ CancelContext PROVE Locks' /\ Counted'
    BY <2>0, <2>5, <1>2, Zenon DEF StopReceivers, CancelContext, producerVars, flusherVars
  <2>6. Locks' /\ Counted'
    BY <2>0, <2>1, <2>2, <2>3, <2>4, <2>5 DEF Step
  <2>7. QED
    BY <1>1, <2>6 DEF BInv
<1>5. QED
  BY <1>3, <1>4

\* the start
LEMMA BoundInit == Init => BInv
<1> SUFFICES ASSUME Init PROVE BInv
  OBVIOUS
<1>1. IInv
  BY InitHolds
<1>2. /\ mu = Free /\ metricSizes = <<>> /\ currentBytes = 0 /\ fpc = "idle" /\ conf \in Configs
      /\ pc = [p \in Producers |-> "idle"]
  BY DEF Init
<1>3. <<>> \in Seq(conf.sizes) /\ \A p \in Producers : p # Free
  BY ProducersAssumption DEF Free
<1>4. Locks
  BY <1>2, <1>3 DEF Locks
<1>5. Sum(Uncounted) \in Nat /\ Sum(InFlight) \in Nat /\ Sum(Uncounted) <= Sum(InFlight)
  BY <1>1, <1>4, FlightNumbers
<1>6. Sum(InFlight) = 0
  <2>1. InFlight \in [Producers -> Nat] /\ \A p \in Producers : InFlight[p] <= 0
    BY <1>2 DEF InFlight
  <2>2. Sum(InFlight) <= N * 0 /\ N \in Nat
    BY <2>1, SumBound, OrderCounts
  <2>3. QED
    BY <2>2, <1>5
<1>7. BufferedBytes = 0
  <2>1. Prefix(<<>>, 0) = 0
    BY PrefixStep
  <2>2. QED
    BY <1>2, <2>1 DEF BufferedBytes
<1>8. Evicting = 0 /\ Sum(Uncounted) = 0 /\ (fpc = "swap") = FALSE
  BY <1>2, <1>5, <1>6 DEF Evicting
<1>9. Balanced(0, 0, 0, 0, 0, FALSE)
  <2>1. Cap \in Nat /\ LargestSize \in Nat /\ Limit \in Nat /\ Limit >= LargestSize
    BY <1>2, ConfNumbers
  <2>2. Slack \in Nat /\ Past \in Nat
    BY <2>1 DEF Slack, Past
  <2>3. QED
    BY <2>1, <2>2 DEF Balanced
<1>10. Counted
  BY <1>2, <1>6, <1>7, <1>8, <1>9, Zenon DEF Counted
<1>11. QED
  BY <1>1, <1>4, <1>10 DEF BInv

\* The bytes in the buffer stay below the bound of OvershootBounded whatever the
\* number of producers, the sizes, the capacity and the policy.
THEOREM OvershootAlways == Spec => []OvershootBounded
<1>1. BInv => OvershootBounded
  <2> SUFFICES ASSUME BInv PROVE OvershootBounded
    OBVIOUS
  <2>1. Sum(Uncounted) \in Nat /\ Sum(InFlight) \in Nat /\ Sum(Uncounted) <= Sum(InFlight) /\ BufferedBytes \in Nat
    BY FlightNumbers DEF BInv
  <2>2. Cap \in Nat /\ LargestSize \in Nat /\ Limit \in Nat /\ conf \in Configs
    BY ConfNumbers DEF BInv, IInv, Shape
  <2>3. BufferedBytes <= 2 * Past + Slack
    <3>1. Slack \in Nat /\ Past \in Int
      BY <2>2 DEF Slack, Past
    <3>2. BufferedBytes + Sum(InFlight) - Sum(Uncounted) <= 2 * Past + Slack
      BY DEF BInv, Counted, Balanced
    <3>3. QED
      BY <3>1, <3>2, <2>1
  <2>4. N \in Nat /\ Limit = N * LargestSize
    BY OrderCounts DEF Limit
  <2>5. 5 * N * LargestSize = 5 * Limit /\ (N - 1) * LargestSize = Limit - LargestSize
    BY <2>2, <2>4
  <2>6. CASE Dropping
    <3>1. 2 * Past + Slack = 2 * Cap + 5 * Limit
      BY <2>2, <2>6 DEF Past, Slack
    <3>2. QED
      BY <2>3, <2>5, <2>6, <3>1 DEF OvershootBounded, Dropping, Cap, N
  <2>7. CASE ~Dropping
    <3>1. 2 * Past + Slack = 2 * (Cap + (Limit - LargestSize))
      BY <2>2, <2>7 DEF Past, Slack
    <3>2. QED
      BY <2>3, <2>5, <2>7, <3>1 DEF OvershootBounded, Dropping, Cap, N
  <2>8. QED
    BY <2>6, <2>7
<1>2. QED
  BY BoundInit, BoundPreserved, <1>1, PTL DEF Spec
=============================================================================
