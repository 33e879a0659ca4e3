----------------------------- MODULE BufferExport -----------------------------
(***************************************************************************)
(* What the flush goroutine does with the entries it has taken             *)
(* (internal/buffer/buffer.go): it splits them by count and by bytes,      *)
(* exports the batches itself or in goroutines of the concurrency limiter, *)
(* splits a batch the backend finds too large, moves a failed batch to the *)
(* failover queue, and on every drain tick exports from that queue again.  *)
(*                                                                         *)
(* An entry is a natural number.  The exporter below is any exporter that  *)
(* gives one of answers: "ok", "queued" (ErrExportQueued: the exporter has *)
(* put the request into its own queue), "too_large" (a splittable error)   *)
(* or "error".  Only the legacy mode of QueuedExporter answers "queued".   *)
(* "partial" says that it is a sharded exporter: before an error some of   *)
(* the shards may have taken or queued their part, and what several shards *)
(* return is joined as text, in which no ErrExportQueued is recognised.    *)
(* The failover queue is used through its abstract specification.          *)
(***************************************************************************)
EXTENDS Integers, Sequences, FiniteSets, SequencesExt, FiniteSetsExt

CONSTANTS
    N,              \* entries 1..N reach the buffer
    SizeOf(_),      \* their sizes
    Unwanted,       \* entries the relabel rules drop
    MaxBatchSize,   \* entries in a batch
    MaxBatchBytes,  \* bytes in a batch
    Slots,          \* goroutines the concurrency limiter allows
    FailoverSize,   \* limits of the failover queue
    FailoverBytes,
    AnswerSets,     \* the exporters considered, each by its possible answers
    MaxTicks        \* bound: drain ticks before the backend is well for good

maxDrainPerTick == 10

VARIABLES
    answers,   \* the answers of the exporter below
    taken,     \* entries taken from the buffer so far
    batches,   \* allBatches: not yet started
    stack,     \* the pending calls of exportBatch in each goroutine, innermost first
    failover,  \* the failover queue
    enabled,   \* the option WithFailoverQueue was given
    hand,      \* the request the drain loop has popped, or NoRequest
    drained,   \* successful exports of this tick, -1 between ticks
    stopped,   \* the context is cancelled and the final flush has begun
    up,        \* from now on the backend answers "ok"
    ticks,     \* history: drain ticks
    handed,    \* history: how often each entry was accepted downstream, at most 2
    gone       \* history: entries filtered, evicted or refused

vars == <<answers, taken, batches, stack, enabled, failover, hand, drained, stopped, up, ticks, handed, gone>>

Split == INSTANCE BatchSplit
Failover == INSTANCE FailoverQueue
    WITH MaxSize <- FailoverSize, MaxBytes <- FailoverBytes, queue <- failover, Requests <- {}

Items == 1..N
Flusher == "flush"
Goroutines == {Flusher} \cup Slots
NoRequest == [items |-> <<>>, size |-> 0]
Request(batch) == [items |-> batch, size |-> Split!BatchBytes(batch)]

Init ==
    /\ answers \in AnswerSets
    /\ taken = 0
    /\ batches = <<>>
    /\ stack = [g \in Goroutines |-> <<>>]
    /\ enabled \in BOOLEAN
    /\ failover = <<>> /\ hand = NoRequest /\ drained = -1
    /\ stopped = FALSE /\ up = FALSE
    /\ ticks = 0
    /\ handed = [i \in Items |-> 0] /\ gone = {}

\* the flush goroutine is back in the select of Start: wg.Wait has returned
Idle ==
    /\ batches = <<>> /\ \A g \in Goroutines : stack[g] = <<>>
    /\ drained = -1

-----------------------------------------------------------------------------
\* the first MaxBatchSize entries at a time, each batch split by bytes
CountBatches(toSend) ==
    [k \in 1..((Len(toSend) + MaxBatchSize - 1) \div MaxBatchSize) |->
        SubSeq(toSend, (k - 1) * MaxBatchSize + 1, Min({k * MaxBatchSize, Len(toSend)}))]

SplitAll(toSend) ==
    LET byCount == CountBatches(toSend)
    IN  FlattenSeq([k \in DOMAIN byCount |-> Split!splitByBytes(byCount[k], MaxBatchBytes)])

\* flush: n entries are in the buffer
Flush(n) ==
    /\ Idle /\ ~stopped
    /\ n \in 1..(N - taken)
    /\ taken' = taken + n
    /\ batches' = SplitAll([i \in 1..n |-> taken + i])
    /\ UNCHANGED <<answers, enabled, stack, failover, hand, drained, stopped, up, ticks, handed, gone>>

\* the next batch goes to a free slot; with none the flush goroutine exports it
Dispatch ==
    /\ batches # <<>> /\ stack[Flusher] = <<>>
    /\ \E g \in Goroutines :
         /\ stack[g] = <<>>
         /\ g = Flusher <=> \A s \in Slots : stack[s] # <<>>
         /\ stack' = [stack EXCEPT ![g] = <<Head(batches)>>]
    /\ batches' = Tail(batches)
    /\ UNCHANGED <<answers, enabled, taken, failover, hand, drained, stopped, up, ticks, handed, gone>>

\* Relabel: the rules drop the unwanted entries
Wanted(batch) == SelectSeq(batch, LAMBDA i : i \notin Unwanted)
Dropped(batch) == ToSet(batch) \cap Unwanted

Handed(batch) == [i \in Items |-> IF i \in ToSet(batch) THEN Min({handed[i] + 1, 2}) ELSE handed[i]]

ItemsOf(q) == UNION {ToSet(q[k].items) : k \in DOMAIN q}

\* the entries that a push of req costs: its victims, or req itself
LostBy(req) ==
    IF ~enabled \/ req.size > FailoverBytes THEN ToSet(req.items)
    ELSE ItemsOf(SubSeq(failover, 1, Failover!Evicted(failover, req)))

PushFailover(req) ==
    \/ enabled /\ (Failover!Push(req) \/ Failover!Refuse(req))
    \/ ~enabled /\ UNCHANGED failover

Answer == IF up THEN {"ok"} ELSE answers
-----------------------------------------------------------------------------
\* exportBatch: relabelling left nothing
ExportNothing(g) ==
    /\ stack[g] # <<>> /\ Wanted(Head(stack[g])) = <<>>
    /\ stack' = [stack EXCEPT ![g] = Tail(@)]
    /\ gone' = gone \cup Dropped(Head(stack[g]))
    /\ UNCHANGED <<answers, enabled, taken, batches, failover, hand, drained, stopped, up, ticks, handed>>

\* exportBatch: the exporter took the request, or queued it
ExportDone(g) ==
    /\ stack[g] # <<>> /\ Wanted(Head(stack[g])) # <<>>
    /\ Answer \cap {"ok", "queued"} # {}
    /\ handed' = Handed(Wanted(Head(stack[g])))
    /\ stack' = [stack EXCEPT ![g] = Tail(@)]
    /\ gone' = gone \cup Dropped(Head(stack[g]))
    /\ UNCHANGED <<answers, enabled, taken, batches, failover, hand, drained, stopped, up, ticks>>

\* (mutant) the halves overlap
ExportSplitOverlap(g) ==
    LET batch == Wanted(Head(stack[g]))
        mid == Len(batch) \div 2
    IN  /\ stack[g] # <<>> /\ Len(batch) > 1
        /\ "too_large" \in Answer
        /\ stack' = [stack EXCEPT ![g] =
                       <<SubSeq(batch, 1, mid + 1), SubSeq(batch, mid + 1, Len(batch))>> \o Tail(@)]
        /\ gone' = gone \cup Dropped(Head(stack[g]))
        /\ UNCHANGED <<answers, enabled, taken, batches, failover, hand, drained, stopped, up, ticks, handed>>

\* what an exporter that fails may have taken: nothing, or the parts of some shards
HandedPartly(batch) ==
    {handed} \cup (IF "partial" \in Answer THEN {Handed(SubSeq(batch, 1, k)) : k \in 1..Len(batch)} ELSE {})

\* exportBatch: too large, both halves are exported (and relabelled again)
ExportSplit(g) ==
    LET batch == Wanted(Head(stack[g]))
        mid == Len(batch) \div 2
    IN  /\ stack[g] # <<>> /\ Len(batch) > 1
        /\ "too_large" \in Answer
        /\ stack' = [stack EXCEPT ![g] =
                       <<SubSeq(batch, 1, mid), SubSeq(batch, mid + 1, Len(batch))>> \o Tail(@)]
        /\ gone' = gone \cup Dropped(Head(stack[g]))
        /\ handed' \in HandedPartly(batch)
        /\ UNCHANGED <<answers, enabled, taken, batches, failover, hand, drained, stopped, up, ticks>>

\* exportBatch: any other failure moves the batch to the failover queue
ExportFail(g) ==
    LET batch == Wanted(Head(stack[g]))
    IN  /\ stack[g] # <<>> /\ batch # <<>>
        /\ "error" \in Answer \/ ("too_large" \in Answer /\ Len(batch) = 1)
        /\ PushFailover(Request(batch))
        /\ stack' = [stack EXCEPT ![g] = Tail(@)]
        /\ gone' = gone \cup Dropped(Head(stack[g])) \cup LostBy(Request(batch))
        /\ handed' \in HandedPartly(batch)
        /\ UNCHANGED <<answers, enabled, taken, batches, hand, drained, stopped, up, ticks>>

-----------------------------------------------------------------------------
\* a tick of the drain loop on a queue that is not empty
DrainTick ==
    /\ Idle /\ ~stopped
    /\ failover # <<>>
    /\ up \/ ticks < MaxTicks
    /\ ticks' = IF up THEN ticks ELSE ticks + 1
    /\ drained' = 0
    /\ UNCHANGED <<answers, enabled, taken, batches, stack, failover, hand, stopped, up, handed, gone>>

DrainPop ==
    /\ drained \in 0..(maxDrainPerTick - 1) /\ hand = NoRequest
    /\ failover # <<>>
    /\ hand' = Head(failover)
    /\ Failover!Pop
    /\ UNCHANGED <<answers, enabled, taken, batches, stack, drained, stopped, up, ticks, handed, gone>>

\* Export returned nil
DrainOk ==
    /\ hand # NoRequest /\ "ok" \in Answer
    /\ handed' = Handed(hand.items)
    /\ hand' = NoRequest
    /\ drained' = drained + 1
    /\ UNCHANGED <<answers, enabled, taken, batches, stack, failover, stopped, up, ticks, gone>>

\* any error, ErrExportQueued included: push back and stop until the next tick
DrainFail(queued) ==
    /\ hand # NoRequest
    /\ IF queued THEN "queued" \in Answer ELSE Answer \cap {"error", "too_large"} # {}
    /\ IF queued THEN handed' = Handed(hand.items) ELSE handed' \in HandedPartly(hand.items)
    /\ PushFailover(hand)
    /\ gone' = gone \cup LostBy(hand)
    /\ hand' = NoRequest
    /\ drained' = -1
    /\ UNCHANGED <<answers, enabled, taken, batches, stack, stopped, up, ticks>>

\* the queue is empty, or ten requests were exported
DrainEnd ==
    /\ drained >= 0 /\ hand = NoRequest
    /\ failover = <<>> \/ drained = maxDrainPerTick
    /\ drained' = -1
    /\ UNCHANGED <<answers, enabled, taken, batches, stack, failover, hand, stopped, up, ticks, handed, gone>>

\* the context is cancelled: one last flush, and the goroutine ends
Stop ==
    /\ Idle /\ ~stopped
    /\ stopped' = TRUE
    /\ taken' = N
    /\ batches' = SplitAll([i \in 1..(N - taken) |-> taken + i])
    /\ UNCHANGED <<answers, enabled, stack, failover, hand, drained, up, ticks, handed, gone>>

\* environment: the backend recovers
Recover ==
    /\ ~up /\ up' = TRUE
    /\ UNCHANGED <<answers, enabled, taken, batches, stack, failover, hand, drained, stopped, ticks, handed, gone>>

Finished == stopped /\ Idle /\ UNCHANGED vars

Export(g) == ExportNothing(g) \/ ExportDone(g) \/ ExportSplit(g) \/ ExportFail(g)
Drain == DrainTick \/ DrainPop \/ DrainOk \/ (\E queued \in BOOLEAN : DrainFail(queued)) \/ DrainEnd

Next ==
    \/ \E n \in 1..N : Flush(n)
    \/ Dispatch
    \/ \E g \in Goroutines : Export(g)
    \/ Drain
    \/ Stop \/ Recover \/ Finished

Spec == Init /\ [][Next]_vars

-----------------------------------------------------------------------------
Occurrences(seq, i) == Cardinality({k \in DOMAIN seq : seq[k] = i})

\* how often entry i is in the hands of the flush path
Copies(i) ==
    MapThenSumSet(LAMBDA k : Occurrences(batches[k], i), DOMAIN batches)
      + MapThenSumSet(LAMBDA g : Occurrences(FlattenSeq(stack[g]), i), Goroutines)
      + MapThenSumSet(LAMBDA k : Occurrences(failover[k].items, i), DOMAIN failover)
      + Occurrences(hand.items, i)

\* Every entry that flush took is in exactly one place: waiting, in a batch, in
\* the failover queue, in the hand of the drain, accepted downstream, or dropped
\* and counted.  Only an exporter that answers ErrExportQueued, and one whose
\* shards fail in part, has a copy of what is kept here as well; even then no
\* entry vanishes.
Accounted ==
    \A i \in 1..taken :
        LET copies == Copies(i) + handed[i] + (IF i \in gone THEN 1 ELSE 0)
        IN  copies = 1 \/ (answers \cap {"queued", "partial"} # {} /\ copies > 1)

\* Requests wait in the failover queue, although the backend is well and the
\* buffer has not been stopped.
Undrained == up /\ ~stopped /\ failover # <<>>
==============================================================================
