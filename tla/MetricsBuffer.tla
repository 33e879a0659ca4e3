---------------------------- MODULE MetricsBuffer ----------------------------
(***************************************************************************)
(* The buffer between the receivers and the exporter                       *)
(* (internal/buffer/buffer.go): Add and AddAggregated with the capacity    *)
(* policies, and the flush goroutine with shutdown.                        *)
(*                                                                         *)
(* currentBytes is an atomic counter that is read and written outside the  *)
(* mutex, so every access to it is a step of its own, and mu says who      *)
(* holds the mutex across two of them.  A request is one entry with an     *)
(* identity and a size; what the sampler, the tenant quotas and the limits *)
(* do to it is to keep it or to drop it (other modules say which).         *)
(* What happens to the flushed entries is the module BufferExport.         *)
(***************************************************************************)
EXTENDS Integers, Sequences, FiniteSets, Functions, Sums

CONSTANTS
    Producers,       \* goroutines calling Add: requests, the aggregation flush
    GRPCProducers,   \* those whose receiver waits for them without a timeout
    Aggregators,     \* the flush loops of the aggregation engine
    MaxSize,         \* entries that trigger a flush
    Configs          \* the configurations and bounds considered

ASSUME ProducersAssumption ==
    /\ IsFiniteSet(Producers) /\ Producers # {} /\ "free" \notin Producers
    /\ GRPCProducers \subseteq Producers /\ Aggregators \subseteq Producers
ASSUME ConfigsAssumption ==
    /\ MaxSize \in Nat \ {0}
    /\ \A c \in Configs :
          /\ c.fullPolicy \in {"reject", "drop_oldest", "block"}
          /\ c.maxBufferBytes \in Nat \ {0}    \* byte capacity
          /\ c.sizes \subseteq Nat \ {0}        \* serialized sizes of requests, one of them the largest
          /\ \E s \in c.sizes : \A t \in c.sizes : t <= s
          /\ c.maxAdds \in Nat                 \* bound: calls of Add

VARIABLES
    conf,          \* the configuration, fixed at the start
    metrics,       \* the buffered entries, oldest first
    metricSizes,   \* their sizes, a parallel slice
    currentBytes,  \* the atomic counter
    mu,            \* a producer while it holds the mutex between two steps, or Free
    pc,            \* where each producer is in addInternal
    incoming,      \* the entry each producer is adding
    evictedBytes,  \* evictOldest's local sum
    bufferSize,    \* addInternal's local copy of len(b.metrics)
    flushChan,     \* the capacity-one channel holds a signal
    fpc,           \* where the flush goroutine is
    toSend,        \* what it has taken
    final,         \* it is in the flush of the shutdown
    closing,       \* the receivers are being stopped
    ctxDone,       \* cancel() was called
    gaveUp,        \* history: ... while handlers were still running
    adds,          \* history: calls of Add
    accepted,      \* history: entries appended
    evicted,       \* history: entries evicted by drop_oldest
    flushed        \* history: entries handed to export, in order

producerVars == <<pc, incoming, evictedBytes, bufferSize>>
flusherVars == <<fpc, toSend, final>>
vars == <<conf, metrics, metricSizes, currentBytes, mu, producerVars, flushChan,
          flusherVars, closing, ctxDone, gaveUp, adds, accepted, evicted, flushed>>

Free == "free"
NoEntry == [id |-> 0, size |-> 0]

\* New
Init ==
    /\ conf \in Configs
    /\ metrics = <<>> /\ metricSizes = <<>>
    /\ currentBytes = 0
    /\ mu = Free
    /\ pc = [p \in Producers |-> "idle"]
    /\ incoming = [p \in Producers |-> NoEntry]
    /\ evictedBytes = [p \in Producers |-> 0]
    /\ bufferSize = [p \in Producers |-> 0]
    /\ flushChan = FALSE
    /\ fpc = "idle" /\ toSend = <<>> /\ final = FALSE
    /\ closing = FALSE /\ ctxDone = FALSE /\ gaveUp = FALSE
    /\ adds = 0 /\ accepted = {} /\ evicted = {} /\ flushed = <<>>

Goto(p, point) == pc' = [pc EXCEPT ![p] = point]

\* addInternal returns and its locals are gone
Return(p) ==
    /\ Goto(p, "idle")
    /\ incoming' = [incoming EXCEPT ![p] = NoEntry]
    /\ evictedBytes' = [evictedBytes EXCEPT ![p] = 0]
    /\ bufferSize' = [bufferSize EXCEPT ![p] = 0]

-----------------------------------------------------------------------------
(* addInternal and AddAggregated *)

\* the pipeline keeps the request
Keep(p, size) ==
    /\ pc[p] = "idle" /\ adds < conf.maxAdds
    /\ adds' = adds + 1
    /\ incoming' = [incoming EXCEPT ![p] = [id |-> adds + 1, size |-> size]]
    /\ Goto(p, "enforce")
    /\ UNCHANGED <<metrics, metricSizes, currentBytes, mu, evictedBytes, bufferSize,
                   flushChan, flusherVars, closing, ctxDone, gaveUp, accepted, evicted, flushed>>

\* a receiver calls Add
Add(p, size) == p \notin Aggregators /\ ~closing /\ Keep(p, size)

\* an aggregation window closes; main stops the engine, which flushes its last
\* windows, after the receivers and before it cancels the context
AddAggregated(p, size) == p \in Aggregators /\ ~ctxDone /\ Keep(p, size)

\* a request arrives and sampling, tenant quotas or limits drop all of it
AddFiltered(p) ==
    /\ pc[p] = "idle" /\ p \notin Aggregators /\ ~closing /\ adds < conf.maxAdds
    /\ adds' = adds + 1
    /\ UNCHANGED <<metrics, metricSizes, currentBytes, mu, producerVars,
                   flushChan, flusherVars, closing, ctxDone, gaveUp, accepted, evicted, flushed>>

\* enforceCapacity: the load of the counter and the policy
EnforceCapacity(p) ==
    /\ pc[p] = "enforce"
    /\ IF currentBytes + incoming[p].size <= conf.maxBufferBytes
       THEN Goto(p, "append") /\ UNCHANGED <<incoming, evictedBytes, bufferSize>>
       ELSE \/ /\ conf.fullPolicy = "reject"  \* ErrBufferFull
               /\ Return(p)
            \/ /\ conf.fullPolicy # "reject"
               /\ Goto(p, IF conf.fullPolicy = "block" THEN "block" ELSE "evict")
               /\ UNCHANGED <<incoming, evictedBytes, bufferSize>>
    /\ UNCHANGED <<metrics, metricSizes, currentBytes, mu,
                   flushChan, flusherVars, closing, ctxDone, gaveUp, adds, accepted, evicted, flushed>>

\* evictOldest: lock, load, and drop from the head until enough bytes are gone
EvictTake(p) ==
    /\ pc[p] = "evict" /\ mu = Free
    /\ LET needed == currentBytes + incoming[p].size - conf.maxBufferBytes
           n == Len(metrics)
           k == CHOOSE i \in 0..n : /\ i = n \/ Prefix(metricSizes, i) >= needed
                                    /\ \A j \in 0..(i - 1) : Prefix(metricSizes, j) < needed
       IN  /\ metrics' = SubSeq(metrics, k + 1, n)
           /\ metricSizes' = SubSeq(metricSizes, k + 1, n)
           /\ evictedBytes' = [evictedBytes EXCEPT ![p] = Prefix(metricSizes, k)]
           /\ evicted' = evicted \cup {metrics[i] : i \in 1..k}
    /\ mu' = p
    /\ Goto(p, "evict_add")
    /\ UNCHANGED <<currentBytes, incoming, bufferSize,
                   flushChan, flusherVars, closing, ctxDone, gaveUp, adds, accepted, flushed>>

\* evictOldest: currentBytes.Add(-evicted), unlock
EvictAdd(p) ==
    /\ pc[p] = "evict_add"
    /\ currentBytes' = currentBytes - evictedBytes[p]
    /\ mu' = Free
    /\ Goto(p, "append")
    /\ UNCHANGED <<metrics, metricSizes, incoming, evictedBytes, bufferSize, flushChan,
                   flusherVars, closing, ctxDone, gaveUp, adds, accepted, evicted, flushed>>

\* block: lock, and the test of the loop
BlockTest(p) ==
    /\ pc[p] = "block" /\ mu = Free
    /\ IF currentBytes + incoming[p].size > conf.maxBufferBytes
       THEN mu' = p /\ Goto(p, "wait")
       ELSE mu' = Free /\ Goto(p, "append")
    /\ UNCHANGED <<metrics, metricSizes, currentBytes, incoming, evictedBytes, bufferSize, flushChan,
                   flusherVars, closing, ctxDone, gaveUp, adds, accepted, evicted, flushed>>

\* spaceCond.Wait: join the waiters and unlock
BlockWait(p) ==
    /\ pc[p] = "wait"
    /\ mu' = Free
    /\ Goto(p, "waiting")
    /\ UNCHANGED <<metrics, metricSizes, currentBytes, incoming, evictedBytes, bufferSize, flushChan,
                   flusherVars, closing, ctxDone, gaveUp, adds, accepted, evicted, flushed>>

\* lock, append to both slices, unlock
AppendEntry(p) ==
    /\ pc[p] = "append" /\ mu = Free
    /\ metrics' = Append(metrics, incoming[p].id)
    /\ metricSizes' = Append(metricSizes, incoming[p].size)
    /\ bufferSize' = [bufferSize EXCEPT ![p] = Len(metrics')]
    /\ accepted' = accepted \cup {incoming[p].id}
    /\ Goto(p, "count")
    /\ UNCHANGED <<currentBytes, mu, incoming, evictedBytes, flushChan,
                   flusherVars, closing, ctxDone, gaveUp, adds, evicted, flushed>>

\* (mutant) the bytes are never added
CountBytesNot(p) ==
    /\ pc[p] = "count"
    /\ Goto(p, "signal")
    /\ UNCHANGED <<metrics, metricSizes, currentBytes, mu, incoming, evictedBytes, bufferSize, flushChan,
                   flusherVars, closing, ctxDone, gaveUp, adds, accepted, evicted, flushed>>

\* currentBytes.Add, after the unlock
CountBytes(p) ==
    /\ pc[p] = "count"
    /\ currentBytes' = currentBytes + incoming[p].size
    /\ Goto(p, "signal")
    /\ UNCHANGED <<metrics, metricSizes, mu, incoming, evictedBytes, bufferSize, flushChan,
                   flusherVars, closing, ctxDone, gaveUp, adds, accepted, evicted, flushed>>

\* the non-blocking send on flushChan
SignalFlush(p) ==
    /\ pc[p] = "signal"
    /\ flushChan' = (flushChan \/ bufferSize[p] >= MaxSize)
    /\ Return(p)
    /\ UNCHANGED <<metrics, metricSizes, currentBytes, mu,
                   flusherVars, closing, ctxDone, gaveUp, adds, accepted, evicted, flushed>>

-----------------------------------------------------------------------------
(* Start and flush *)

\* (mutant) the slice is reset only after the unlock, with the counter
FlushTakeLater(isFinal) ==
    /\ fpc = "idle" /\ mu = Free
    /\ IF metrics = <<>>
       THEN /\ fpc' = IF isFinal THEN "done" ELSE "idle"
            /\ UNCHANGED <<toSend, final>>
       ELSE /\ fpc' = "swap"
            /\ toSend' = metrics
            /\ final' = isFinal
    /\ UNCHANGED <<metrics, metricSizes, currentBytes, mu, producerVars, closing, ctxDone, gaveUp, adds,
                   accepted, evicted, flushed>>

\* flush under the mutex: an empty buffer is left alone
FlushTake(isFinal) ==
    /\ fpc = "idle" /\ mu = Free
    /\ IF metrics = <<>>
       THEN /\ fpc' = IF isFinal THEN "done" ELSE "idle"
            /\ UNCHANGED <<metrics, metricSizes, toSend, final>>
       ELSE /\ fpc' = "swap"
            /\ toSend' = metrics
            /\ final' = isFinal
            /\ metrics' = <<>> /\ metricSizes' = <<>>
    /\ UNCHANGED <<currentBytes, mu, producerVars, closing, ctxDone, gaveUp, adds,
                   accepted, evicted, flushed>>

\* the three cases of the select that flush
FlushTick == FlushTake(FALSE) /\ UNCHANGED flushChan
FlushSignalled == flushChan /\ flushChan' = FALSE /\ FlushTake(FALSE)

\* (mutant) the goroutine ends without the final flush
FlushFinalSkipped ==
    /\ ctxDone /\ fpc = "idle" /\ fpc' = "done"
    /\ UNCHANGED <<metrics, metricSizes, currentBytes, mu, producerVars, flushChan, toSend, final,
                   closing, ctxDone, gaveUp, adds, accepted, evicted, flushed>>

FlushFinal == ctxDone /\ FlushTake(TRUE) /\ UNCHANGED flushChan

\* currentBytes.Swap(0), after the unlock
FlushSwap ==
    /\ fpc = "swap"
    /\ currentBytes' = 0
    /\ fpc' = "broadcast"
    /\ UNCHANGED <<metrics, metricSizes, mu, producerVars, flushChan, toSend, final,
                   closing, ctxDone, gaveUp, adds, accepted, evicted, flushed>>

\* spaceCond.Broadcast, without the mutex
FlushBroadcast ==
    /\ fpc = "broadcast"
    /\ pc' = [p \in Producers |-> IF pc[p] = "waiting" THEN "block" ELSE pc[p]]
    /\ fpc' = "export"
    /\ UNCHANGED <<metrics, metricSizes, currentBytes, mu, incoming, evictedBytes, bufferSize,
                   flushChan, toSend, final, closing, ctxDone, gaveUp, adds, accepted, evicted, flushed>>

\* the batches are exported (module BufferExport) and flush returns
FlushExport ==
    /\ fpc = "export"
    /\ flushed' = flushed \o toSend
    /\ toSend' = <<>>
    /\ fpc' = IF final THEN "done" ELSE "idle"
    /\ UNCHANGED <<metrics, metricSizes, currentBytes, mu, producerVars, flushChan, final,
                   closing, ctxDone, gaveUp, adds, accepted, evicted>>

-----------------------------------------------------------------------------
(* main: the receivers are stopped, then the context is cancelled *)

StopReceivers ==
    /\ ~closing
    /\ closing' = TRUE
    /\ UNCHANGED <<metrics, metricSizes, currentBytes, mu, producerVars, flushChan,
                   flusherVars, ctxDone, gaveUp, adds, accepted, evicted, flushed>>

\* GracefulStop waits for every handler; Shutdown gives up after its timeout
CancelContext ==
    /\ closing /\ ~ctxDone
    /\ \A p \in GRPCProducers \cup Aggregators : pc[p] = "idle"
    /\ ctxDone' = TRUE
    /\ gaveUp' = \E p \in Producers : pc[p] # "idle"
    /\ UNCHANGED <<metrics, metricSizes, currentBytes, mu, producerVars, flushChan,
                   flusherVars, closing, adds, accepted, evicted, flushed>>

Flusher == FlushTick \/ FlushSignalled \/ FlushFinal \/ FlushSwap \/ FlushBroadcast \/ FlushExport
Producer(p) ==
    \/ EnforceCapacity(p) \/ EvictTake(p) \/ EvictAdd(p) \/ BlockTest(p) \/ BlockWait(p)
    \/ AppendEntry(p) \/ CountBytes(p) \/ SignalFlush(p)

Step ==
    \/ \E p \in Producers :
          \/ AddFiltered(p)
          \/ \E size \in conf.sizes : Add(p, size) \/ AddAggregated(p, size)
          \/ Producer(p)
    \/ Flusher
    \/ StopReceivers \/ CancelContext

Next == Step /\ UNCHANGED conf

Spec == Init /\ [][Next]_vars

\* Goroutines run, the ticker fires, the exports of a flush end, and the
\* mutex is not starved.
FairSpec ==
    /\ Spec
    /\ SF_vars(Flusher /\ UNCHANGED conf)
    /\ \A p \in Producers : SF_vars(Producer(p) /\ UNCHANGED conf)

-----------------------------------------------------------------------------
BufferedBytes == Prefix(metricSizes, Len(metricSizes))
LargestSize == CHOOSE s \in conf.sizes : \A t \in conf.sizes : t <= s

Places == flushed \o toSend \o metrics

\* Every accepted entry is in exactly one place: buffered, taken by the flush,
\* handed to export, or evicted by drop_oldest.  Nothing that Add accepted
\* disappears between the unlock of one goroutine and the lock of another, and
\* the cached sizes stay parallel to the entries.
EntryInOnePlace ==
    /\ Len(metrics) = Len(metricSizes)
    /\ IsInjective(Places)
    /\ Range(Places) \cap evicted = {}
    /\ Range(Places) \cup evicted = accepted

\* The buffer can exceed its capacity, because a flush resets the counter
\* after bytes of the next interval were added and because Add tests the
\* counter before it appends.  With reject and block it never goes beyond twice
\* the capacity plus twice what concurrent calls of Add can bring past the test.
\* With drop_oldest an eviction that straddles the reset takes bytes off the
\* counter that it no longer has, which lets in more, but not without limit.
OvershootBounded ==
    BufferedBytes <=
        LET n == Cardinality(Producers)
        IN  IF conf.fullPolicy = "drop_oldest"
            THEN 2 * conf.maxBufferBytes + 5 * n * LargestSize
            ELSE 2 * (conf.maxBufferBytes + (n - 1) * LargestSize)

\* When the flush goroutine has ended, everything that was accepted has been
\* exported or evicted, unless main gave up on handlers that were still running:
\* the final flush comes after the last Add.
FinalFlushTakesAll == fpc = "done" /\ ~gaveUp => accepted \subseteq evicted \cup Range(flushed)

\* "Block until flush creates space" (docs/receiving.md): an Add that waits
\* while the buffer is empty goes on.
BlockedResumes ==
    \A p \in Producers : (pc[p] = "waiting" /\ metrics = <<>>) ~> (pc[p] # "waiting")
==============================================================================
