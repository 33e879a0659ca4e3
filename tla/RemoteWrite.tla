---------------------------- MODULE RemoteWrite ----------------------------
(***************************************************************************)
(* The remote-write pipeline from its receiver to the end of the process:  *)
(* handlers (internal/receiver/prw.go) put series in a buffer and answer   *)
(* 204, one flusher (internal/prw/buffer.go) hands them in batches to an   *)
(* exporter, and main stops the parts in order                             *)
(* (cmd/metrics-governor/main.go).  The exporter is absent, plain          *)
(* (internal/exporter/prw_exporter.go) or queued                           *)
(* (internal/exporter/prw_queued.go) with workers, with the split pipeline *)
(* or with the legacy retry loop; the loops of the queued one are those of *)
(* the OTLP exporter, line by line, so that QueuedExporter and             *)
(* LegacyExporter are instantiated for them.                               *)
(*                                                                         *)
(* A request is a set of numbered series, a batch too.  Metadata, labels   *)
(* and metrics are left out.                                               *)
(***************************************************************************)
EXTENDS Naturals, Sequences, SequencesExt, QueueOps

CONSTANTS
    Series,                    \* numbers
    Setups,                    \* triples: what exporter there is ("none", "plain", "workers", "split" or
                               \* "legacy"), whether the waits may time out, and the requests (disjoint
                               \* sets of series) that clients send, one per call of the handler
    First, Second,             \* the two goroutines of the always-queue modes
    MaxSize, MaxBatchSize,     \* of the buffer
    QueueSize, ChannelSize,    \* of the queue, whose full behaviour is drop_oldest, and of preparedCh
    Accepts, Poisoned,         \* series the backend takes at once, and those it refuses for good
    DrainSize, BurstSize       \* batchDrainSize and burstDrainSize of the retry loop

VARIABLES
    mode, timesOut, requests,  \* the setup, fixed at the start
    handler,          \* where the calls of the handler are
    buf,              \* Buffer.timeseries
    flushChan,        \* whether a flush is asked for
    flusher,          \* where the flusher is
    toSend, batch,    \* what it has taken, and the batch it exports
    main,             \* how far the shutdown is
    reported,         \* history: series the flusher logged as failed
    \* the queued exporter: see QueuedExporter
    disk, prepared, pc, held, stop, closing, inDrain, failed, accepted, delivered, dropped, lost,
    \* its retry loop: see LegacyExporter
    at, hand, phase, drained, delay, undrained

settings == <<mode, timesOut, requests>>
front == <<handler, buf, flushChan>>
flush == <<flusher, toSend, batch, reported>>
pool == <<prepared, pc, held, inDrain, failed, accepted>>
loop == <<at, hand, phase, drained, delay, undrained>>
history == <<delivered, dropped, lost>>
queued == <<disk, stop, closing, pool, loop, history>>
vars == <<settings, front, flush, main, queued>>

Pair == {First, Second}
Always == mode \in {"workers", "split"}
Queued == Always \/ mode = "legacy"

Role == IF mode = "split" THEN [g \in Pair |-> IF g = First THEN "preparer" ELSE "sender"]
        ELSE [g \in Pair |-> "worker"]

Pool == INSTANCE QueuedExporter WITH
    Goroutines <- Pair, Batches <- SUBSET Series \ {{}}, MaxAccept <- Accepts, Poison <- Poisoned,
    DiskCap <- QueueSize, MemCap <- 1, ChanCap <- ChannelSize, Configs <- {}, mem <- <<>>,
    conf <- [role |-> Role, batches |-> {}, dropOldest |-> TRUE, timesOut |-> timesOut]

Loop == INSTANCE LegacyExporter WITH
    Batches <- {}, MaxAccept <- Accepts, Poison <- Poisoned, Cap <- QueueSize,
    BatchDrainSize <- DrainSize, BurstDrainSize <- BurstSize, BaseDelay <- 1, MaxDelay <- 4,
    dropOldest <- TRUE, answer <- <<>>, q <- disk, pc <- at, held <- hand,
    failed <- undrained, closed <- Pool!Closed

Init ==
    /\ \E s \in Setups : mode = s[1] /\ timesOut = s[2] /\ requests = s[3]
    /\ handler = [r \in requests |-> "none"]
    /\ buf = <<>> /\ flushChan = FALSE
    /\ flusher = "idle" /\ toSend = <<>> /\ batch = {}
    /\ main = "run" /\ reported = {}
    /\ disk = <<>> /\ prepared = <<>> /\ stop = FALSE /\ closing = "no"
    /\ pc = [g \in Pair |-> "wait"] /\ held = [g \in Pair |-> {}]
    /\ inDrain = {} /\ failed = <<>> /\ accepted = {}
    /\ at = "wait" /\ hand = {} /\ phase = "batch" /\ drained = 0 /\ delay = 1 /\ undrained = <<>>
    /\ delivered = {} /\ dropped = {} /\ lost = {}

-----------------------------------------------------------------------------
(* The receiver and Buffer.Add *)

\* a request comes in while the server listens; it is shed, refused as malformed, or accepted
handleWrite(r) ==
    /\ handler[r] = "none" /\ main = "run"
    /\ \E next \in {"refused", "add"} : handler' = [handler EXCEPT ![r] = next]
    /\ UNCHANGED <<buf, flushChan, flush, queued>>

\* the first critical section of Add
AddSeries(r) ==
    /\ handler[r] = "add"
    /\ handler' = [handler EXCEPT ![r] = "trigger"]
    /\ buf' = buf \o SetToSortSeq(r, <)
    /\ UNCHANGED <<flushChan, flush, queued>>

\* the second one asks for a flush; then the handler answers 204
Answer(r) ==
    /\ handler[r] = "trigger"
    /\ handler' = [handler EXCEPT ![r] = "answered"]
    /\ flushChan' = (flushChan \/ Len(buf) >= MaxSize)
    /\ UNCHANGED <<buf, flush, queued>>

Handle(r) == handleWrite(r) \/ AddSeries(r) \/ Answer(r)

-----------------------------------------------------------------------------
(* The flusher *)

Cancelled == main \in {"drain", "close"}

\* flush takes the series, and drops them if there is no exporter
TakeAll ==
    /\ toSend' = IF mode = "none" THEN <<>> ELSE buf
    /\ dropped' = IF mode = "none" THEN dropped \cup ToSet(buf) ELSE dropped
    /\ buf' = <<>>
    /\ UNCHANGED <<disk, stop, closing, pool, loop, delivered, lost>>

\* a tick, or a flush that was asked for
Flush ==
    /\ flusher = "idle"
    /\ buf # <<>> \/ flushChan
    /\ flushChan' \in {flushChan, FALSE}
    /\ TakeAll
    /\ flusher' = "flush"
    /\ UNCHANGED <<batch, reported, handler>>

\* the context is cancelled: the last flush, with a context of its own
FinalFlush ==
    /\ flusher = "idle" /\ Cancelled
    /\ TakeAll
    /\ flusher' = "final"
    /\ UNCHANGED <<batch, reported, flushChan, handler>>

\* the next batch of at most MaxBatchSize series goes to Export
NextBatch ==
    LET n == IF Len(toSend) < MaxBatchSize THEN Len(toSend) ELSE MaxBatchSize
    IN  /\ flusher \in {"flush", "final"} /\ batch = {} /\ toSend # <<>>
        /\ batch' = ToSet(SubSeq(toSend, 1, n))
        /\ toSend' = SubSeq(toSend, n + 1, Len(toSend))
        /\ UNCHANGED <<flusher, reported, front, queued>>

FlushEnds ==
    /\ flusher \in {"flush", "final"} /\ batch = {} /\ toSend = <<>>
    /\ flusher' = IF flusher = "final" THEN "done" ELSE "idle"
    /\ UNCHANGED <<toSend, batch, reported, front, queued>>

\* Export has returned: an error is logged, and the flush goes on
Returns(error) ==
    /\ batch' = {}
    /\ reported' = IF error THEN reported \cup batch ELSE reported
    /\ UNCHANGED <<flusher, toSend, front>>

\* Export of the always-queue modes: a push, whose error is the caller's
ExportQueues ==
    /\ Always /\ batch # {}
    /\ IF Pool!Closed THEN Returns(TRUE) /\ UNCHANGED <<disk, pool, history>>
       ELSE Returns(FALSE) /\ Pool!ExportDisk(batch)
    /\ UNCHANGED <<stop, closing, loop>>

\* the plain exporter, or legacyExport where the breaker allows the attempt
ExportOk ==
    /\ mode \in {"plain", "legacy"} /\ batch # {} /\ Loop!Takes(batch)
    /\ delivered' = delivered \cup batch
    /\ Returns(FALSE)
    /\ UNCHANGED <<disk, stop, closing, pool, loop, dropped, lost>>

\* the plain exporter fails (a cancelled context is such a case); it may have delivered
PlainFails ==
    /\ mode = "plain" /\ batch # {}
    /\ \/ UNCHANGED delivered
       \/ Loop!Takes(batch) /\ delivered' = delivered \cup batch
    /\ Returns(TRUE)
    /\ UNCHANGED <<disk, stop, closing, pool, loop, dropped, lost>>

\* legacyExport returns an error that is neither retryable nor splittable
LegacyRefused ==
    /\ mode = "legacy" /\ batch # {} /\ Loop!Refused(batch) /\ ~Loop!TooLarge(batch)
    /\ dropped' = dropped \cup batch
    /\ Returns(TRUE)
    /\ UNCHANGED <<disk, stop, closing, pool, loop, delivered, lost>>

\* (mutant) the request is queued only where the breaker is open
LegacyQueuesNot ==
    /\ mode = "legacy" /\ batch # {}
    /\ Returns(FALSE)
    /\ UNCHANGED queued

\* the breaker is open, or the attempt has failed: the batch is queued (ErrExportQueued,
\* an error for the flusher too), or the push fails
LegacyQueues ==
    /\ mode = "legacy" /\ batch # {}
    /\ disk' = Pushed(disk, QueueSize, TRUE, Pool!Closed, batch)
    /\ dropped' = dropped \cup Evicted(disk, QueueSize, TRUE, Pool!Closed)
    /\ \/ UNCHANGED delivered
       \/ Loop!Takes(batch) /\ delivered' = delivered \cup batch
    /\ Returns(TRUE)
    /\ UNCHANGED <<stop, closing, pool, loop, lost>>

Flushing ==
    \/ Flush \/ FinalFlush \/ NextBatch \/ FlushEnds
    \/ ExportQueues \/ ExportOk \/ PlainFails \/ LegacyRefused \/ LegacyQueues

-----------------------------------------------------------------------------
(* The goroutines of the queued exporter, and Close *)

InPool(A) == A /\ UNCHANGED <<front, flush, loop>>
InLoop(A) == UNCHANGED <<closing, pool, front, flush>> /\ A

\* one entry is sent, and split, dropped or pushed back
SendEntry(g) ==
    \/ Pool!SendOk(g) \/ Pool!SendFails(g) \/ Pool!SendTooLarge(g) \/ Pool!SendRefused(g)
    \/ Pool!SplitFirst(g) \/ Pool!SplitSecond(g) \/ Pool!Retry(g)

workerLoop(g) ==
    /\ mode = "workers"
    /\ InPool(Pool!Exit(g) \/ Pool!Take(g) \/ Pool!Deny(g) \/ Pool!Allow(g) \/ SendEntry(g))

\* the two halves of the split pipeline
prwPreparerLoop(g) ==
    /\ mode = "split" /\ g = First
    /\ InPool(\/ Pool!Exit(g) \/ Pool!Take(g) \/ Pool!Deny(g) \/ Pool!Allow(g)
              \/ Pool!Hand(g) \/ Pool!HandStop(g))
prwSenderLoop(g) ==
    /\ mode = "split" /\ g = Second
    /\ InPool(Pool!Exit(g) \/ Pool!TakePrepared(g) \/ SendEntry(g))

\* the rounds of the legacy mode, and one entry of a round
retryLoop == mode = "legacy" /\ InLoop(Loop!Tick \/ Loop!Check \/ Loop!Adjust \/ Loop!Stopped)
processQueue ==
    /\ mode = "legacy"
    /\ InLoop(\/ Loop!Pop \/ Loop!PopEmpty \/ Loop!PopClosed \/ Loop!Answers \/ Loop!SendFails
              \/ Loop!SplitFirst \/ Loop!Retry)

\* in Close after the workers, or at the end of the retry loop
drainQueue ==
    \/ /\ Always
       /\ InPool(\/ Pool!DrainPop \/ Pool!DrainOk \/ Pool!DrainFails \/ Pool!DrainEnds \/ Pool!Repush)
    \/ /\ mode = "legacy"
       /\ InLoop(\/ Loop!DrainPop \/ Loop!DrainOk \/ Loop!DrainFails \/ Loop!DrainEnds \/ Loop!Repush
                 \/ Loop!Ends)

\* Close waits for the workers and drains, or waits for the retry loop; then it closes the queue
CloseGoesOn ==
    \/ Always /\ InPool(Pool!Joined \/ Pool!CloseQueues)
    \/ /\ mode = "legacy" /\ closing = "join"
       /\ at = "done" \/ timesOut
       /\ closing' = "closed"
       /\ UNCHANGED <<disk, stop, pool, loop, history, front, flush>>

Exporting ==
    \/ \E g \in Pair : workerLoop(g) \/ prwPreparerLoop(g) \/ prwSenderLoop(g)
    \/ retryLoop \/ processQueue \/ drainQueue \/ CloseGoesOn

-----------------------------------------------------------------------------
(* main after the signal *)

Signal ==
    /\ main = "run"
    /\ main' = "stop"
    /\ UNCHANGED <<front, flush, queued>>

\* (mutant) the context is cancelled while handlers run
ReceiverStopsAtOnce ==
    /\ main = "stop"
    /\ main' = "drain"
    /\ UNCHANGED <<front, flush, queued>>

\* Stop waits for the calls under way; then the context is cancelled
ReceiverStops ==
    /\ main = "stop"
    /\ timesOut \/ \A r \in requests : handler[r] \notin {"add", "trigger"}
    /\ main' = "drain"
    /\ UNCHANGED <<front, flush, queued>>

\* the last flush is over, or took too long; the exporter is closed
BufferDrained ==
    /\ main = "drain"
    /\ flusher = "done" \/ timesOut
    /\ main' = "close"
    /\ IF Queued THEN Pool!Close ELSE UNCHANGED <<disk, stop, closing, pool, history>>
    /\ UNCHANGED <<loop, front, flush>>

Exits ==
    /\ main = "close" /\ (Queued => Pool!Closed)
    /\ main' = "exit"
    /\ UNCHANGED <<front, flush, queued>>

Main == Signal \/ ReceiverStops \/ BufferDrained \/ Exits

Run(A) == main # "exit" /\ A /\ UNCHANGED <<settings, main>>

Next ==
    \/ \E r \in requests : Run(Handle(r))
    \/ Run(Flushing)
    \/ Run(Exporting)
    \/ Main /\ UNCHANGED settings

Spec == Init /\ [][Next]_vars

-----------------------------------------------------------------------------
Answered == UNION {r \in requests : handler[r] = "answered"}
Kept == Items(disk) \cup delivered \cup dropped
Here == ToSet(buf) \cup ToSet(toSend) \cup batch
        \cup Items(prepared) \cup Items(failed) \cup Items(undrained) \cup inDrain \cup hand \cup held[First] \cup held[Second]

\* A series that was answered with 204 is on its way, on disk, delivered or dropped
\* by a rule, or somebody was told: its flush was logged as failed, or a push
\* of the exporter failed.  No step of the handlers, of the flusher, of the
\* exporter or of the shutdown forgets it.
AnsweredIsAccountedFor == Answered \subseteq Here \cup Kept \cup reported \cup lost

\* When the process exits and no wait has timed out, every answered series has been
\* delivered, dropped by a rule, or is on disk for the next start, if the
\* exporter has a queue and no channel behind it; with the plain exporter, it has
\* at least been tried.
ShutdownKeepsAnswered ==
    main = "exit" /\ ~timesOut =>
        Answered \subseteq CASE mode \in {"workers", "legacy"} -> Kept
                             [] mode = "split" -> Kept \cup Items(prepared)
                             [] OTHER -> delivered \cup dropped \cup reported
=============================================================================
