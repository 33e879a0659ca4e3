--------------------------- MODULE QueuedExporter ---------------------------
(***************************************************************************)
(* The always-queue mode of internal/exporter/queued.go.  Export puts a    *)
(* batch on a queue; workers take batches off, ask the circuit breaker,    *)
(* send them, and split, drop or push back what the backend refuses.       *)
(* There are unified workers on the disk queue, or preparers and senders   *)
(* with a bounded channel between them, and memory workers on the memory   *)
(* queue.  Close stops them, waits, drains the disk queue and closes all.  *)
(*                                                                         *)
(* A batch is a set of resource metrics.  The answer of the breaker and    *)
(* that of the network are choices; the backend refuses batches with       *)
(* Poison for good (a single one that is too large is such a case) and     *)
(* those with more than MaxAccept elements as too large.  A goroutine      *)
(* between two batches may have read the stop channel before it was        *)
(* closed, so that it takes one more.                                      *)
(***************************************************************************)
EXTENDS Naturals, Sequences, FiniteSets, QueueOps

CONSTANTS
    Goroutines,     \* started by NewQueued
    Batches,        \* disjoint sets of resource metrics
    MaxAccept,      \* resource metrics the backend takes in one request
    Poison,         \* resource metrics the backend refuses for good
    DiskCap, MemCap, ChanCap,
    Configs         \* the configurations considered

ASSUME ExporterAssumption ==
    /\ \A b \in Batches : b # {} /\ IsFiniteSet(b) /\ b \subseteq Nat
    /\ \A b, c \in Batches : b # c => b \cap c = {}
    /\ {MaxAccept, DiskCap, MemCap, ChanCap} \subseteq Nat \ {0}
    /\ \A c \in Configs :
          /\ c.role \in [Goroutines -> {"worker", "preparer", "sender", "memory"}]
          /\ c.batches \subseteq Batches  \* bound: what is exported
          /\ c.dropOldest \in BOOLEAN  \* a full queue: drop_oldest or drop_newest
          /\ c.timesOut \in BOOLEAN    \* whether the waits of Close may time out

VARIABLES
    conf,           \* the configuration, fixed at the start
    disk, mem,      \* the two queues: sequences of batches
    prepared,       \* preparedCh
    pc, held,       \* of the goroutines: where, and the batch in hand ({} for none)
    stop,           \* retryStop is closed
    closing,        \* where Close is
    inDrain,        \* the batch that drainQueue exports ({} for none)
    failed,         \* failedEntries of drainQueue
    accepted,       \* history: resource metrics that Export took
    delivered,      \* history: ... that the backend has
    dropped,        \* history: ... dropped as non-retryable, or evicted by a full queue
    lost            \* history: ... that a push left out and nobody was told

queues == <<disk, mem, prepared>>
shutdown == <<stop, closing, inDrain, failed>>
history == <<accepted, delivered, dropped, lost>>
vars == <<conf, queues, pc, held, shutdown, history>>

Workers == {g \in Goroutines : conf.role[g] = "worker"}
Preparers == {g \in Goroutines : conf.role[g] = "preparer"}
Senders == {g \in Goroutines : conf.role[g] = "sender"}
MemWorkers == {g \in Goroutines : conf.role[g] = "memory"}

Init ==
    /\ conf \in Configs
    /\ disk = <<>> /\ mem = <<>> /\ prepared = <<>>
    /\ pc = [g \in Goroutines |-> "wait"] /\ held = [g \in Goroutines |-> {}]
    /\ stop = FALSE /\ closing = "no" /\ inDrain = {} /\ failed = <<>>
    /\ accepted = {} /\ delivered = {} /\ dropped = {} /\ lost = {}

-----------------------------------------------------------------------------
(* Pushes whose error nobody handles *)

Closed == closing = "closed"

PushDisk(b) ==
    /\ disk' = Pushed(disk, DiskCap, conf.dropOldest, Closed, b)
    /\ dropped' = dropped \cup Evicted(disk, DiskCap, conf.dropOldest, Closed)
    /\ lost' = lost \cup NotTaken(disk, DiskCap, conf.dropOldest, Closed, b)
    /\ UNCHANGED <<mem, prepared, accepted, delivered>>

PushMem(b) ==
    /\ mem' = Pushed(mem, MemCap, conf.dropOldest, Closed, b)
    /\ dropped' = dropped \cup Evicted(mem, MemCap, conf.dropOldest, Closed)
    /\ lost' = lost \cup NotTaken(mem, MemCap, conf.dropOldest, Closed, b)
    /\ UNCHANGED <<disk, prepared, accepted, delivered>>

PushBack(g) == IF g \in MemWorkers THEN PushMem(held[g]) ELSE PushDisk(held[g])

-----------------------------------------------------------------------------
(* Export: to disk or to memory; the error of a push is the caller's.  The push of *)
(* the disk queue under drop_newest is none: Export then returns nil for a batch   *)
(* that a full queue did not store.                                                *)

ExportDisk(b) ==
    /\ Workers \cup Preparers # {} /\ b \cap accepted = {} /\ ~Closed
    /\ disk' = Pushed(disk, DiskCap, conf.dropOldest, Closed, b)
    /\ dropped' = dropped \cup Evicted(disk, DiskCap, conf.dropOldest, Closed)
    /\ lost' = lost \cup NotTaken(disk, DiskCap, conf.dropOldest, Closed, b)
    /\ accepted' = accepted \cup b
    /\ UNCHANGED <<mem, prepared, pc, held, shutdown, delivered>>

ExportMem(b) ==
    /\ MemWorkers # {} /\ b \cap accepted = {}
    /\ ~DoesNotStore(mem, MemCap, conf.dropOldest, Closed)
    /\ mem' = Pushed(mem, MemCap, conf.dropOldest, Closed, b)
    /\ dropped' = dropped \cup Evicted(mem, MemCap, conf.dropOldest, Closed)
    /\ accepted' = accepted \cup b
    /\ UNCHANGED <<disk, prepared, pc, held, shutdown, delivered, lost>>

-----------------------------------------------------------------------------
(* The loops *)

\* at the top of the loop the stop channel is read
Loop(g) == pc' = [pc EXCEPT ![g] = IF stop THEN "done" ELSE "wait"]

Again(g) == Loop(g) /\ held' = [held EXCEPT ![g] = {}]

Exit(g) ==
    /\ pc[g] = "wait" /\ stop
    /\ pc' = [pc EXCEPT ![g] = "done"]
    /\ UNCHANGED <<queues, held, shutdown, history>>

TakeFrom(g, q, where) ==
    /\ pc[g] = "wait" /\ q # <<>>
    /\ held' = [held EXCEPT ![g] = Head(q)]
    /\ pc' = [pc EXCEPT ![g] = where]

Take(g) ==
    /\ g \in Workers \cup Preparers /\ ~Closed
    /\ TakeFrom(g, disk, "taken")
    /\ disk' = Tail(disk)
    /\ UNCHANGED <<mem, prepared, shutdown, history>>

TakeMem(g) ==
    /\ g \in MemWorkers
    /\ TakeFrom(g, mem, "taken")
    /\ mem' = Tail(mem)
    /\ UNCHANGED <<disk, prepared, shutdown, history>>

\* senders do not ask the breaker
TakePrepared(g) ==
    /\ g \in Senders
    /\ TakeFrom(g, prepared, "send")
    /\ prepared' = Tail(prepared)
    /\ UNCHANGED <<disk, mem, shutdown, history>>

\* the breaker is open, or a preparer fails to compress
Deny(g) ==
    /\ pc[g] = "taken"
    /\ PushBack(g)
    /\ Again(g)
    /\ UNCHANGED shutdown

Allow(g) ==
    /\ pc[g] = "taken"
    /\ pc' = [pc EXCEPT ![g] = IF g \in Preparers THEN "hand" ELSE "send"]
    /\ UNCHANGED <<queues, held, shutdown, history>>

\* a preparer waits for room in the channel, or for the end
Hand(g) ==
    /\ pc[g] = "hand" /\ Len(prepared) < ChanCap
    /\ prepared' = Append(prepared, held[g])
    /\ Again(g)
    /\ UNCHANGED <<disk, mem, shutdown, history>>

\* (mutant) the batch in hand is forgotten
HandStopForgets(g) ==
    /\ pc[g] = "hand" /\ stop
    /\ Again(g)
    /\ UNCHANGED <<queues, shutdown, history>>

\* (mutant) the stop channel is looked at once there is room
HandStopLate(g) ==
    /\ pc[g] = "hand" /\ stop /\ Len(prepared) < ChanCap
    /\ PushDisk(held[g])
    /\ Again(g)
    /\ UNCHANGED shutdown

HandStop(g) ==
    /\ pc[g] = "hand" /\ stop
    /\ PushDisk(held[g])
    /\ Again(g)
    /\ UNCHANGED shutdown

TooLarge(b) == Cardinality(b) > MaxAccept
Refused(b) == b \cap Poison # {}

SendOk(g) ==
    /\ pc[g] = "send" /\ ~TooLarge(held[g]) /\ ~Refused(held[g])
    /\ delivered' = delivered \cup held[g]
    /\ Again(g)
    /\ UNCHANGED <<queues, shutdown, accepted, dropped, lost>>

\* a retryable error; the backend may have the batch nevertheless
SendFails(g) ==
    /\ pc[g] = "send"
    /\ pc' = [pc EXCEPT ![g] = "retry"]
    /\ \/ UNCHANGED delivered
       \/ ~TooLarge(held[g]) /\ ~Refused(held[g]) /\ delivered' = delivered \cup held[g]
    /\ UNCHANGED <<queues, held, shutdown, accepted, dropped, lost>>

\* the answer is that the batch is too large, or that it is refused: disk
\* workers and senders split or drop, memory workers push back
SendTooLarge(g) ==
    /\ pc[g] = "send" /\ TooLarge(held[g])
    /\ pc' = [pc EXCEPT ![g] = IF g \in MemWorkers THEN "retry" ELSE "split"]
    /\ UNCHANGED <<queues, held, shutdown, history>>

\* (mutant) the class of the error is not looked at
SendRefusedRetries(g) ==
    /\ pc[g] = "send" /\ ~TooLarge(held[g]) /\ Refused(held[g])
    /\ pc' = [pc EXCEPT ![g] = "retry"]
    /\ UNCHANGED <<queues, held, shutdown, history>>

SendRefused(g) ==
    /\ pc[g] = "send" /\ ~TooLarge(held[g]) /\ Refused(held[g])
    /\ IF g \in MemWorkers
       THEN /\ pc' = [pc EXCEPT ![g] = "retry"]
            /\ UNCHANGED <<held, dropped>>
       ELSE /\ Again(g)
            /\ dropped' = dropped \cup held[g]
    /\ UNCHANGED <<queues, shutdown, accepted, delivered, lost>>

\* (mutant) the whole batch goes back after its first half
SplitFirstWhole(g) ==
    /\ pc[g] = "split"
    /\ PushDisk(FirstHalf(held[g]))
    /\ pc' = [pc EXCEPT ![g] = "half"]
    /\ UNCHANGED <<held, shutdown>>

\* two pushes, one after the other
SplitFirst(g) ==
    /\ pc[g] = "split"
    /\ PushDisk(FirstHalf(held[g]))
    /\ held' = [held EXCEPT ![g] = @ \ FirstHalf(@)]
    /\ pc' = [pc EXCEPT ![g] = "half"]
    /\ UNCHANGED shutdown

SplitSecond(g) ==
    /\ pc[g] = "half"
    /\ PushDisk(held[g])
    /\ Again(g)
    /\ UNCHANGED shutdown

Retry(g) ==
    /\ pc[g] = "retry"
    /\ PushBack(g)
    /\ Again(g)
    /\ UNCHANGED shutdown

-----------------------------------------------------------------------------
(* Close and drainQueue *)

Close ==
    /\ closing = "no"
    /\ stop' = TRUE /\ closing' = "join"
    /\ UNCHANGED <<queues, pc, held, inDrain, failed, history>>

\* workersDone: the memory workers count only where there are no others
Tracked == IF Workers \cup Preparers \cup Senders = {} THEN MemWorkers
           ELSE Workers \cup Preparers \cup Senders

Joined ==
    /\ closing = "join"
    /\ conf.timesOut \/ \A g \in Tracked : pc[g] = "done"
    /\ closing' = "drain"
    /\ UNCHANGED <<queues, pc, held, stop, inDrain, failed, history>>

DrainPop ==
    /\ closing = "drain" /\ inDrain = {} /\ disk # <<>>
    /\ inDrain' = Head(disk)
    /\ disk' = Tail(disk)
    /\ UNCHANGED <<mem, prepared, pc, held, stop, closing, failed, history>>

DrainOk ==
    /\ inDrain # {} /\ ~TooLarge(inDrain) /\ ~Refused(inDrain)
    /\ delivered' = delivered \cup inDrain
    /\ inDrain' = {}
    /\ UNCHANGED <<queues, pc, held, stop, closing, failed, accepted, dropped, lost>>

\* (mutant) a batch that fails during the drain is not kept
DrainFailsForgets ==
    /\ inDrain # {}
    /\ inDrain' = {}
    /\ UNCHANGED <<queues, pc, held, stop, closing, failed, history>>

DrainFails ==
    /\ inDrain # {}
    /\ failed' = Append(failed, inDrain)
    /\ inDrain' = {}
    /\ UNCHANGED <<queues, pc, held, stop, closing, history>>

\* the queue is empty, or drainTimeout has passed
DrainEnds ==
    /\ closing = "drain" /\ inDrain = {}
    /\ disk = <<>> \/ conf.timesOut
    /\ closing' = "repush"
    /\ UNCHANGED <<queues, pc, held, stop, inDrain, failed, history>>

Repush ==
    /\ closing = "repush" /\ failed # <<>>
    /\ PushDisk(Head(failed))
    /\ failed' = Tail(failed)
    /\ UNCHANGED <<pc, held, stop, closing, inDrain>>

CloseQueues ==
    /\ closing = "repush" /\ failed = <<>>
    /\ closing' = "closed"
    /\ UNCHANGED <<queues, pc, held, stop, inDrain, failed, history>>

CloseStep ==
    Joined \/ DrainPop \/ DrainOk \/ DrainFails \/ DrainEnds \/ Repush \/ CloseQueues

Work(g) ==
    \/ Exit(g) \/ Take(g) \/ TakeMem(g) \/ TakePrepared(g) \/ Deny(g) \/ Allow(g)
    \/ Hand(g) \/ HandStop(g) \/ SendOk(g) \/ SendFails(g) \/ SendTooLarge(g)
    \/ SendRefused(g) \/ SplitFirst(g) \/ SplitSecond(g) \/ Retry(g)

Step ==
    \/ \E b \in Batches \cap conf.batches : ExportDisk(b) \/ ExportMem(b)
    \/ \E g \in Goroutines : Work(g)
    \/ Close
    \/ CloseStep

Next == Step /\ UNCHANGED conf

Spec == Init /\ [][Next]_vars

\* what the backend makes of a batch that reaches it
Answer(g) == SendOk(g) \/ SendTooLarge(g) \/ SendRefused(g)

\* Goroutines run, Close goes on once called.  A batch that is tried again and
\* again is at some point allowed by the breaker and answered by the backend.
FairSpec ==
    /\ Spec
    /\ WF_vars(CloseStep /\ UNCHANGED conf)
    /\ \A g \in Goroutines :
         /\ WF_vars(Work(g) /\ UNCHANGED conf)
         /\ SF_vars(Allow(g) /\ UNCHANGED conf) /\ SF_vars(Answer(g) /\ UNCHANGED conf)

-----------------------------------------------------------------------------
Places == disk \o mem \o prepared \o failed \o <<inDrain>>
InHand == UNION {held[g] : g \in Goroutines}
Here == Items(disk) \cup Items(mem) \cup Items(prepared) \cup Items(failed) \cup inDrain \cup InHand

\* Batches in the queues and in the hands of goroutines consist of accepted
\* resource metrics, and a goroutine holds a batch exactly while it works on one.
TypeOK ==
    /\ Here \subseteq accepted /\ delivered \cup dropped \cup lost \subseteq accepted
    /\ Len(disk) <= DiskCap /\ Len(mem) <= MemCap /\ Len(prepared) <= ChanCap
    /\ \A g \in Goroutines : held[g] = {} <=> pc[g] \in {"wait", "done"}

\* Whatever was accepted is somewhere, or was delivered, dropped by a rule, or left
\* out by a push: no path of the workers, of the pipeline or of Close forgets it.
NothingForgotten == accepted \subseteq Here \cup delivered \cup dropped \cup lost

\* A resource metric is in one place only: a batch that is split, pushed back or
\* drained is never in a queue and in a hand at the same time.
OnePlace ==
    /\ \A i, j \in 1..Len(Places) : i # j => Places[i] \cap Places[j] = {}
    /\ \A g, h \in Goroutines : g # h => held[g] \cap held[h] = {}
    /\ InHand \cap Items(Places) = {}

\* When Close returns, what was accepted has been delivered, dropped by a rule,
\* or is on disk for the next start.
CloseKeepsData == Closed => accepted \subseteq Items(disk) \cup delivered \cup dropped

\* With unified disk workers, and no timeout, Close keeps the data, except for
\* what a full queue under drop_newest did not take, from Export or back.
UnifiedCloseKeepsData ==
    Workers = Goroutines /\ ~conf.timesOut /\ Closed =>
        accepted \subseteq Items(disk) \cup delivered \cup dropped \cup (IF conf.dropOldest THEN {} ELSE lost)

\* While nobody closes the exporter, every batch that the disk queue has
\* accepted is delivered or dropped by a rule in the end: splitting ends,
\* and nothing circulates for ever.
EventuallySettled ==
    \A b \in Batches :
        b \subseteq accepted /\ MemWorkers = {} ~> stop \/ b \subseteq delivered \cup dropped \cup lost

\* Close returns, also where its waits have no timeout.
CloseReturns == closing = "join" ~> Closed
=============================================================================
