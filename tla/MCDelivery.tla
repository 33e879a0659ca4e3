----------------------------- MODULE MCDelivery -----------------------------
(***************************************************************************)
(* The parts that a flushed batch goes through, each by itself, in one     *)
(* model-checking instance: the byte splitter, the export of a flush on    *)
(* top of the abstract failover queue, the failover queue that implements  *)
(* it, the circuit breaker, and the queues of the exporters (the send      *)
(* queue, the retry queue of remote write, the in-memory batch queue and   *)
(* the spillover of the hybrid mode).  unit says which of them a behaviour *)
(* is about; the others stay in their initial state.                       *)
(***************************************************************************)
EXTENDS MemoryQueue, CircuitBreaker, SequencesExt

CONSTANTS
    MaxLen, ItemSizes,       \* the splitter: batches of mixed sizes,
    LongLens,                \* lengths of the batches of equal entries
    Limits,                  \* values of max-batch-bytes
    Pushers, Poppers, Free,  \* goroutines of the send queue and of the batch queue
    QueueSize, QueueBytes, BatchSizes,   \* their limits, and the sizes of what they hold
    MaxRequests, MaxSends,   \* bounds of the retry queue
    MaxBatches               \* bound of the batch queue

VARIABLES
    unit,
    items, limit,  \* a call of the splitter
    answers, taken, batches, stack, failover, enabled, hand, drained, stopped, up, ticks, handed, gone,
    conf, fq, size, mu, closed, pc, req, timedOut, answer, unwritten, popped, evicted, discarded,
    prwQueue, loop, entry, stopping, prwClosed, requests, told, sent, lost,
    fullBehavior, ch, activeCount, activeBytes, chClosed, chMu, at, batch, inPop, bytesOf,
    returned, out, dropped,
    level, mode, odd, where, util, target

failoverVars == vars
splitVars == <<items, limit>>
exportVars == <<answers, taken, batches, stack, failover, enabled, hand, drained, stopped, up,
                ticks, handed, gone>>
sendVars == <<conf, fq, size, mu, closed, pc, req, timedOut, answer, unwritten, popped, evicted, discarded>>
prwVars == <<prwQueue, loop, entry, stopping, prwClosed, requests, told, sent, lost>>
batchVars == <<fullBehavior, ch, activeCount, activeBytes, chClosed, chMu, at, batch, inPop, bytesOf,
               returned, out, dropped>>
spillVars == <<level, mode, odd, where, util, target>>

-----------------------------------------------------------------------------
(* The byte splitter: one state is one call; an entry is its own size *)

SizeOfItem(item) == item
Split == INSTANCE BatchSplit WITH SizeOf <- SizeOfItem

SplitCalls ==
    UNION {[1..n -> ItemSizes] : n \in 0..MaxLen}
      \cup {[i \in 1..n |-> s] : n \in LongLens, s \in ItemSizes}

Result == Split!splitByBytes(items, limit)

\* Splitting loses, duplicates and reorders no entry, and uses its depth: the
\* sub-batches that splitByBytes returns make up the batch, there are at most
\* sixteen, and one that is still over the limit is a single entry or a
\* sixteenth of the batch.
SplitSound ==
    /\ FlattenSeq(Result) = items
    /\ limit > 0 =>
         /\ Len(Result) <= 16
         /\ \A i \in DOMAIN Result :
              \/ Split!BatchBytes(Result[i]) <= limit
              \/ Len(Result[i]) = 1
              \/ Len(Result[i]) \in {Len(items) \div 16, (Len(items) + 15) \div 16}

-----------------------------------------------------------------------------
(* The export of a flush: every third entry is large, the second is unwanted *)

SizeOfEntry(i) == IF i % 3 = 0 THEN 2 ELSE 1

Slots == {"s1", "s2"}
Flush == INSTANCE BufferExport WITH
    N <- 4, SizeOf <- SizeOfEntry, Unwanted <- {2}, MaxBatchSize <- 3, MaxBatchBytes <- 3,
    Slots <- Slots, FailoverSize <- 2, FailoverBytes <- 3, MaxTicks <- 2,
    AnswerSets <- {{"ok", "too_large", "error"}, {"ok", "queued", "too_large", "error"},
                   {"ok", "partial", "error"}}

\* Every entry that flush took is in exactly one place while splitting, parallel
\* export, failover and drain go on; ErrExportQueued may double it, and even
\* then none vanishes.
Accounted == Flush!Accounted

-----------------------------------------------------------------------------
(* The queues of the exporters *)

Config(behavior, extra, fails, pushes) ==
    [fullBehavior |-> behavior, ghosts |-> extra, diskFails |-> fails, maxPushes |-> pushes]

\* the limits with a disk that works and one that fails, and waiting pushers; a
\* request may be larger than the byte limit, and the counters full of ghosts
Send == INSTANCE SendQueue WITH
    Sizes <- BatchSizes \cup {QueueBytes + 1}, MaxSize <- QueueSize, MaxBytes <- QueueBytes,
    Configs <- {Config("drop_oldest", 0, TRUE, 3), Config("drop_newest", 1, TRUE, 3),
                Config("drop_oldest", QueueSize, FALSE, 1),
                Config("block", 0, FALSE, 3), Config("block", 0, TRUE, 2)}

PRW == INSTANCE PRWQueue WITH
    queue <- prwQueue, pc <- loop, closed <- prwClosed, MaxSize <- QueueSize

Batch == INSTANCE MemoryBatchQueue WITH
    closed <- chClosed, mu <- chMu, pc <- at, popped <- inPop, size <- bytesOf, answer <- returned,
    Sizes <- BatchSizes, MaxSize <- QueueSize, MaxBytes <- QueueBytes,
    Behaviors <- {"drop_oldest", "drop_newest", "block"}, MaxPushes <- MaxBatches

Spill == INSTANCE Spillover WITH
    pc <- where, Cap <- 4, SpillPct <- 50, HysteresisPct <- 25, DropOldest <- FALSE, MinMode <- -2

\* What a queue answers is what happens to the request: of the send queue, of the
\* batch queue and of the remote-write queue, nil means that the request is queued,
\* was taken out, was given up by the policy for a full queue or, in the send queue,
\* lost with the channel when the disk failed; an error means that the queue does
\* not have it.
AnswersTrue == Send!AnswersTrue /\ Batch!AnswersTrue /\ PRW!NothingVanishes

\* activeCount and activeBytes are the contents of the channel up to the
\* goroutines between a channel operation and its count.
CountersFollow == Batch!CountersFollow

Pushing(p) == pc[p] # "idle" \/ at[p] # "idle"

\* Every Push and every PushBatch returns, under each policy: dropping makes room
\* in the end and waiting has an end.  Three things alone prevent it: a panic of the
\* batch queue ends the process; a Push under drop_oldest whose request has no room
\* in an empty queue runs for ever with the mutex; and a Push under block whose timer
\* fired between its check and its wait is not woken while nothing is popped or pushed.
CallsReturn ==
    \A p \in Pushers : Pushing(p) ~> (~Pushing(p) \/ Batch!Crashed \/ []Send!Stalled(p))

Degraded == Flush!Undrained \/ Probing \/ Spill!Shedding \/ Spill!Forgetting

\* No emergency lasts for ever: once the backend is well drainFailoverQueue empties
\* the failover queue; every half-open episode of the breaker ends, unless a caller
\* was granted a request and reported nothing; load shedding, and a mode that Export
\* does not know, end while the workers drain the queue and batches arrive.
EmergenciesEnd == Degraded ~> ~Degraded

-----------------------------------------------------------------------------
MCInit ==
    /\ unit \in {"failover", "split", "export", "circuit", "send", "prw", "batch", "spill"}
    /\ Init
    /\ IF unit = "split" THEN items \in SplitCalls /\ limit \in Limits ELSE items = <<>> /\ limit = 0
    /\ Flush!Init /\ (unit = "export" \/ (answers = {"ok", "too_large", "error"} /\ enabled))
    /\ CircuitInit
    /\ Send!Init /\ (unit = "send" \/ conf = Config("block", 0, FALSE, 3))
    /\ PRW!Init
    /\ Batch!Init /\ (unit = "batch" \/ fullBehavior = "block")
    /\ Spill!Init

still == <<unit, splitVars>>
Storing(A) ==
    unit = "failover" /\ A /\ UNCHANGED <<still, exportVars, circuitVars, sendVars, prwVars, batchVars, spillVars>>
Exporting(A) ==
    unit = "export" /\ A /\ UNCHANGED <<still, failoverVars, circuitVars, sendVars, prwVars, batchVars, spillVars>>
Breaking(A) ==
    unit = "circuit" /\ A /\ UNCHANGED <<still, failoverVars, exportVars, sendVars, prwVars, batchVars, spillVars>>
Sending(A) ==
    unit = "send" /\ A /\ UNCHANGED <<still, failoverVars, exportVars, circuitVars, prwVars, batchVars, spillVars>>
Retrying(A) ==
    unit = "prw" /\ A /\ UNCHANGED <<still, failoverVars, exportVars, circuitVars, sendVars, batchVars, spillVars>>
Batching(A) ==
    unit = "batch" /\ A /\ UNCHANGED <<still, failoverVars, exportVars, circuitVars, sendVars, prwVars, spillVars>>
Spilling(A) ==
    unit = "spill" /\ A /\ UNCHANGED <<still, failoverVars, exportVars, circuitVars, sendVars, prwVars, batchVars>>

MCNext ==
    \/ Storing(Next)
    \/ Exporting(Flush!Next)
    \/ Breaking(CircuitNext)
    \/ Sending(Send!Next)
    \/ Retrying(PRW!Next)
    \/ Batching(Batch!Next)
    \/ Spilling(Spill!Next)

allVars == <<still, failoverVars, exportVars, circuitVars, sendVars, prwVars, batchVars, spillVars>>

\* unit does not change, so that one condition can speak of several units.
\* Somebody keeps popping, timers and the drain ticker fire again and again, and
\* the backend is well one day.
Pops == Sending(Send!Pop /\ UNCHANGED conf) \/ Spilling(Spill!Pop) \/ Exporting(Flush!Dispatch)
Ticks == Exporting(Flush!Drain) \/ Breaking(ResetTimeout)
Recovers == Exporting(Flush!Recover)

\* Goroutines that can run do run, every export ends (its context has a timeout),
\* and one that wants a mutex gets it; batches keep coming: the hybrid mode
\* is only evaluated in Export.
Runs(p) ==
    Sending(Send!Step(p) /\ UNCHANGED conf) \/ Batching(Batch!PushStep(p) /\ UNCHANGED fullBehavior)
Calls(g) == Spilling(Spill!Step(g)) \/ Breaking(Running(g))
Asks(g) == Breaking(AllowLoad(g))

\* The select of a blocked PushBatch picks among its ready cases at random, the
\* timer's in the end.
Timer(p) ==
    \/ Sending(Send!TimerFires(p) /\ UNCHANGED conf)
    \/ Batching(Batch!SelectTimeout(p) /\ UNCHANGED fullBehavior)

MCSpec ==
    /\ MCInit /\ [][MCNext]_allVars
    /\ WF_allVars(Pops) /\ WF_allVars(Ticks) /\ WF_allVars(Recovers)
    /\ \A g \in Flush!Goroutines : WF_allVars(Exporting(Flush!Export(g)))
    /\ \A g \in Callers : WF_allVars(Calls(g)) /\ WF_allVars(Asks(g))
    /\ \A p \in Pushers : SF_allVars(Runs(p)) /\ SF_allVars(Timer(p))
=============================================================================
