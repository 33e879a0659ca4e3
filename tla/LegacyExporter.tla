--------------------------- MODULE LegacyExporter ---------------------------
(***************************************************************************)
(* The mode without always-queue of internal/exporter/queued.go.  Export   *)
(* sends a batch itself and queues what the backend does not take; one     *)
(* retry loop takes batches off the queue at each tick, up to              *)
(* batchDrainSize of them, then a burst if that went well, and adjusts its *)
(* delay.  Close stops the loop, which drains the queue before it ends.    *)
(*                                                                         *)
(* A batch is a set of resource metrics, as in QueuedExporter.  The answer *)
(* of the breaker and that of the network are choices.  The backend        *)
(* refuses batches with Poison for good and those with more than MaxAccept *)
(* elements as too large.                                                  *)
(***************************************************************************)
EXTENDS Naturals, Sequences, FiniteSets, QueueOps

CONSTANTS
    Batches,                      \* disjoint sets of resource metrics, one per call of Export
    MaxAccept, Poison, Cap,
    BatchDrainSize, BurstDrainSize,
    BaseDelay, MaxDelay           \* the multiplier of the backoff is 2

VARIABLES
    dropOldest,     \* what a full queue does, fixed at the start
    timesOut,       \* whether closeTimeout and drainTimeout may pass, fixed at the start
    answer,         \* of the calls of Export: where they are, or what they returned
    q,              \* the queue: a sequence of batches
    pc, held,       \* of the retry loop: where it is, and the batch in hand ({} for none)
    phase, drained, \* which of the two draining loops it is in, and its counter
    delay,          \* currentDelay
    failed,         \* failedEntries of drainQueue
    stop, closed,   \* retryStop is closed; Close has closed the queue
    delivered, dropped, lost   \* history, as in QueuedExporter

settings == <<dropOldest, timesOut>>
loop == <<pc, held, phase, drained, delay, failed>>
history == <<delivered, dropped, lost>>
vars == <<settings, answer, q, loop, stop, closed, history>>

Init ==
    /\ dropOldest \in BOOLEAN /\ timesOut \in BOOLEAN
    /\ answer = [b \in Batches |-> "none"]
    /\ q = <<>> /\ failed = <<>>
    /\ pc = "wait" /\ held = {} /\ phase = "batch" /\ drained = 0
    /\ delay = BaseDelay
    /\ stop = FALSE /\ closed = FALSE
    /\ delivered = {} /\ dropped = {} /\ lost = {}

TooLarge(b) == Cardinality(b) > MaxAccept
Refused(b) == b \cap Poison # {}
Takes(b) == ~TooLarge(b) /\ ~Refused(b)

\* a push whose error nobody handles, or that has none
Push(b) ==
    /\ q' = Pushed(q, Cap, dropOldest, closed, b)
    /\ dropped' = dropped \cup Evicted(q, Cap, dropOldest, closed)
    /\ lost' = lost \cup NotTaken(q, Cap, dropOldest, closed, b)
    /\ UNCHANGED delivered

-----------------------------------------------------------------------------
(* Export *)

\* the breaker lets the call try
Direct(b) ==
    /\ answer[b] = "none"
    /\ answer' = [answer EXCEPT ![b] = "sending"]
    /\ UNCHANGED <<q, loop, stop, closed, history>>

DirectOk(b) ==
    /\ answer[b] = "sending" /\ Takes(b)
    /\ answer' = [answer EXCEPT ![b] = "nil"]
    /\ delivered' = delivered \cup b
    /\ UNCHANGED <<q, loop, stop, closed, dropped, lost>>

\* any error, the direct timeout included; the backend may have the batch nevertheless
DirectFails(b) ==
    /\ answer[b] = "sending"
    /\ answer' = [answer EXCEPT ![b] = "failed"]
    /\ \/ UNCHANGED delivered
       \/ Takes(b) /\ delivered' = delivered \cup b
    /\ UNCHANGED <<q, loop, stop, closed, dropped, lost>>

\* (mutant) the error of the push is not looked at
QueueItBlindly(b) ==
    /\ answer[b] \in {"none", "failed"}
    /\ answer' = [answer EXCEPT ![b] = "queued"]
    /\ IF closed THEN UNCHANGED <<q, history>> ELSE Push(b)
    /\ UNCHANGED <<loop, stop, closed>>

\* the breaker is open, or the direct attempt has failed: the error of a push onto a
\* closed queue, else ErrExportQueued, also for a batch that a full queue under
\* drop_newest has left out
QueueIt(b) ==
    /\ answer[b] \in {"none", "failed"}
    /\ answer' = [answer EXCEPT ![b] = IF closed THEN "error" ELSE "queued"]
    /\ IF closed THEN UNCHANGED <<q, history>> ELSE Push(b)
    /\ UNCHANGED <<loop, stop, closed>>

Export(b) == Direct(b) \/ DirectOk(b) \/ DirectFails(b) \/ QueueIt(b)

-----------------------------------------------------------------------------
(* The retry loop *)

\* the ticker fires (a tick may be pending when retryStop is closed) and the breaker
\* allows; where it does not the loop waits on
Tick ==
    /\ pc = "wait"
    /\ pc' = "process" /\ phase' = "batch" /\ drained' = 0
    /\ UNCHANGED <<held, delay, failed, answer, q, stop, closed, history>>

\* processQueue has returned true: one more in this loop, if the queue has more
Succeeds ==
    /\ pc' = "check"
    /\ held' = {}
    /\ UNCHANGED <<phase, drained, delay, failed>>

\* processQueue has returned false: that ends the loop it was called in
Fails ==
    /\ pc' = IF phase = "batch" THEN "adjust" ELSE "wait"
    /\ held' = {}
    /\ UNCHANGED <<phase, drained, delay, failed>>

Pop ==
    /\ pc = "process" /\ ~closed /\ q # <<>>
    /\ held' = Head(q) /\ q' = Tail(q)
    /\ pc' = "send"
    /\ UNCHANGED <<phase, drained, delay, failed, answer, stop, closed, history>>

\* an empty queue counts as success
PopEmpty ==
    /\ pc = "process" /\ ~closed /\ q = <<>>
    /\ Succeeds
    /\ UNCHANGED <<answer, q, stop, closed, history>>

PopClosed ==
    /\ pc = "process" /\ closed
    /\ Fails
    /\ UNCHANGED <<answer, q, stop, closed, history>>

SendOk ==
    /\ pc = "send" /\ Takes(held)
    /\ delivered' = delivered \cup held
    /\ Succeeds
    /\ UNCHANGED <<answer, q, stop, closed, dropped, lost>>

SendFails ==
    /\ pc = "send"
    /\ pc' = "retry"
    /\ \/ UNCHANGED delivered
       \/ Takes(held) /\ delivered' = delivered \cup held
    /\ UNCHANGED <<held, phase, drained, delay, failed, answer, q, stop, closed, dropped, lost>>

SendTooLarge ==
    /\ pc = "send" /\ TooLarge(held)
    /\ pc' = "split"
    /\ UNCHANGED <<held, phase, drained, delay, failed, answer, q, stop, closed, history>>

SendRefused ==
    /\ pc = "send" /\ ~TooLarge(held) /\ Refused(held)
    /\ dropped' = dropped \cup held
    /\ Fails
    /\ UNCHANGED <<answer, q, stop, closed, delivered, lost>>

SplitFirst ==
    /\ pc = "split"
    /\ Push(FirstHalf(held))
    /\ held' = held \ FirstHalf(held)
    /\ pc' = "retry"
    /\ UNCHANGED <<phase, drained, delay, failed, answer, stop, closed>>

\* the batch, or its second half, goes to the back of the queue
Retry ==
    /\ pc = "retry"
    /\ Push(held)
    /\ Fails
    /\ UNCHANGED <<answer, stop, closed>>

\* the loops count, and look at the length of the queue
Check ==
    /\ pc = "check"
    /\ drained' = drained + 1
    /\ LET more == q # <<>> /\ drained' < (IF phase = "batch" THEN BatchDrainSize ELSE BurstDrainSize)
       IN  pc' = IF more THEN "process" ELSE IF phase = "batch" THEN "adjust" ELSE "wait"
    /\ UNCHANGED <<held, phase, delay, failed, answer, q, stop, closed, history>>

Backoff == IF 2 * delay > MaxDelay THEN MaxDelay ELSE 2 * delay

\* back to the base delay, with a burst if there is more, or a longer delay
Adjust ==
    /\ pc = "adjust"
    /\ delay' = IF drained > 0 \/ q = <<>> THEN BaseDelay ELSE Backoff
    /\ pc' = IF drained > 0 /\ q # <<>> THEN "process" ELSE "wait"
    /\ phase' = "burst" /\ drained' = 0
    /\ UNCHANGED <<held, failed, answer, q, stop, closed, history>>

-----------------------------------------------------------------------------
(* The end of the loop, and Close *)

Stopped ==
    /\ pc = "wait" /\ stop
    /\ pc' = "drain"
    /\ UNCHANGED <<held, phase, drained, delay, failed, answer, q, stop, closed, history>>

DrainPop ==
    /\ pc = "drain" /\ held = {} /\ ~closed /\ q # <<>>
    /\ held' = Head(q) /\ q' = Tail(q)
    /\ UNCHANGED <<pc, phase, drained, delay, failed, answer, stop, closed, history>>

DrainOk ==
    /\ pc = "drain" /\ held # {} /\ Takes(held)
    /\ delivered' = delivered \cup held
    /\ held' = {}
    /\ UNCHANGED <<pc, phase, drained, delay, failed, answer, q, stop, closed, dropped, lost>>

DrainFails ==
    /\ pc = "drain" /\ held # {}
    /\ failed' = Append(failed, held)
    /\ held' = {}
    /\ UNCHANGED <<pc, phase, drained, delay, answer, q, stop, closed, history>>

DrainEnds ==
    /\ pc = "drain" /\ held = {}
    /\ q = <<>> \/ closed \/ timesOut
    /\ pc' = "repush"
    /\ UNCHANGED <<held, phase, drained, delay, failed, answer, q, stop, closed, history>>

Repush ==
    /\ pc = "repush" /\ failed # <<>>
    /\ Push(Head(failed))
    /\ failed' = Tail(failed)
    /\ UNCHANGED <<pc, held, phase, drained, delay, answer, stop, closed>>

Ends ==
    /\ pc = "repush" /\ failed = <<>>
    /\ pc' = "done"
    /\ UNCHANGED <<held, phase, drained, delay, failed, answer, q, stop, closed, history>>

CloseCalled ==
    /\ ~stop
    /\ stop' = TRUE
    /\ UNCHANGED <<answer, q, loop, closed, history>>

\* once the loop has ended, or after closeTimeout
CloseQueue ==
    /\ stop /\ ~closed
    /\ pc = "done" \/ timesOut
    /\ closed' = TRUE
    /\ UNCHANGED <<answer, q, loop, stop, history>>

Answers == SendOk \/ SendTooLarge \/ SendRefused

LoopStep ==
    \/ Tick \/ Pop \/ PopEmpty \/ PopClosed \/ Answers \/ SendFails \/ SplitFirst \/ Retry
    \/ Check \/ Adjust
    \/ Stopped \/ DrainPop \/ DrainOk \/ DrainFails \/ DrainEnds \/ Repush \/ Ends

Step == (\E b \in Batches : Export(b)) \/ LoopStep \/ CloseCalled \/ CloseQueue

Next == Step /\ UNCHANGED settings

Spec == Init /\ [][Next]_vars

\* The loop runs; a batch that is tried again and again is answered at some point.
FairSpec == Spec /\ WF_vars(LoopStep /\ UNCHANGED settings) /\ SF_vars(Answers /\ UNCHANGED settings)

-----------------------------------------------------------------------------
Here == Items(q) \cup Items(failed) \cup held

\* Export tells the truth: what it returned nil for has been delivered, and
\* what it returned ErrExportQueued for is in the hands of the exporter, was
\* delivered, dropped by a rule, or was left out by a push, of Export onto a full
\* queue under drop_newest or of the loop.  With drop_oldest and no timeout nothing
\* is left out, also not while closing.
QueuedIsSafe ==
    /\ \A b \in Batches :
         /\ answer[b] = "nil" => b \subseteq delivered
         /\ answer[b] = "queued" => b \subseteq Here \cup delivered \cup dropped \cup lost
    /\ dropOldest /\ ~timesOut => lost = {}

\* The loop recovers: whatever the backend refuses on the way, the backlog is
\* worked off and the delay comes back to its base value.
LoopRecovers ==
    delay # BaseDelay \/ Here # {} ~> (delay = BaseDelay /\ Here = {}) \/ stop
=============================================================================
