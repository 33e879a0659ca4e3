-------------------------- MODULE MemoryBatchQueue --------------------------
(***************************************************************************)
(* The in-memory batch queue (internal/queue/batchqueue.go): a channel,    *)
(* two atomic counters that follow it at a distance, a mutex that only the *)
(* pushers take, three policies for a full queue, and Close, which closes  *)
(* the channel.  A batch is the number of its PushBatch.  A panic of one   *)
(* goroutine ends the process.                                             *)
(***************************************************************************)
EXTENDS Integers, Sequences, FiniteSets, SequencesExt, FiniteSetsExt

CONSTANTS
    Pushers, Poppers, Free,  \* goroutines; nobody
    Sizes,                   \* EstimatedBytes of batches
    Behaviors,               \* policies: "drop_oldest", "drop_newest", "block"
    MaxSize, MaxBytes,       \* limits; MaxBytes = 0 for none
    MaxPushes                \* bound: calls of PushBatch

VARIABLES
    fullBehavior, \* the policy, fixed at the start
    ch,           \* the channel
    activeCount, activeBytes,
    closed,       \* the flag, and the channel
    mu,           \* the pusher that holds the mutex, or Free
    pc, batch,    \* of the pushers: where, and the batch
    popped,       \* of the poppers: the batch taken and not yet counted, or 0
    size,         \* size of each batch
    answer,       \* history: what PushBatch returned for each batch, "" while it runs
    out,          \* history: batches taken by poppers, in order
    dropped       \* history: batches dropped to make room

vars == <<fullBehavior, ch, activeCount, activeBytes, closed, mu, pc, batch, popped, size, answer, out, dropped>>

Batches == 1..MaxPushes
Pushed == Len(answer)
Bytes(S) == FoldSet(LAMBDA b, sum : sum + size[b], 0, S)

Init ==
    /\ fullBehavior \in Behaviors
    /\ ch = <<>> /\ activeCount = 0 /\ activeBytes = 0 /\ closed = FALSE
    /\ mu = Free /\ pc = [p \in Pushers |-> "idle"] /\ batch = [p \in Pushers |-> 0]
    /\ popped = [c \in Poppers |-> 0]
    /\ size = [b \in Batches |-> 0] /\ answer = <<>> /\ out = <<>> /\ dropped = {}

Return(p, what) ==
    /\ answer' = [answer EXCEPT ![batch[p]] = what]
    /\ pc' = [pc EXCEPT ![p] = "idle"]

-----------------------------------------------------------------------------
(* PushBatch and handleFullLocked *)

TooManyBytes(s) == MaxBytes > 0 /\ activeBytes + s > MaxBytes

\* lock, closed, and the byte limit
PushBegin(p, s) ==
    /\ pc[p] = "idle" /\ mu = Free /\ Pushed < MaxPushes
    /\ size' = [size EXCEPT ![Pushed + 1] = s]
    /\ batch' = [batch EXCEPT ![p] = Pushed + 1]
    /\ IF closed
       THEN answer' = Append(answer, "closed") /\ UNCHANGED <<mu, pc>>
       ELSE /\ answer' = Append(answer, "")
            /\ mu' = p
            /\ pc' = [pc EXCEPT ![p] = IF TooManyBytes(s) THEN "full" ELSE "send"]
    /\ UNCHANGED <<ch, activeCount, activeBytes, closed, popped, out, dropped>>

\* the non-blocking send; the mutex is released before the counters are changed
PushSend(p) ==
    /\ pc[p] = "send"
    /\ IF Len(ch) < MaxSize
       THEN /\ ch' = Append(ch, batch[p])
            /\ mu' = Free
            /\ pc' = [pc EXCEPT ![p] = "count"]
       ELSE /\ pc' = [pc EXCEPT ![p] = "full"]
            /\ UNCHANGED <<ch, mu>>
    /\ UNCHANGED <<activeCount, activeBytes, closed, batch, popped, size, answer, out, dropped>>

PushCount(p) ==
    /\ pc[p] = "count"
    /\ activeCount' = activeCount + 1
    /\ activeBytes' = activeBytes + size[batch[p]]
    /\ Return(p, "nil")
    /\ UNCHANGED <<ch, closed, mu, batch, popped, size, out, dropped>>

FullNewest(p) ==
    /\ pc[p] = "full" /\ fullBehavior = "drop_newest"
    /\ mu' = Free
    /\ Return(p, "full")
    /\ UNCHANGED <<ch, activeCount, activeBytes, closed, batch, popped, size, out, dropped>>

\* (mutant) the bytes of the dropped batch stay counted
FullOldestCountOnly(p) ==
    /\ pc[p] = "full" /\ fullBehavior = "drop_oldest"
    /\ IF ch # <<>>
       THEN /\ ch' = Tail(ch)
            /\ activeCount' = activeCount - 1
            /\ dropped' = dropped \cup {Head(ch)}
       ELSE UNCHANGED <<ch, activeCount, dropped>>
    /\ pc' = [pc EXCEPT ![p] = "again"]
    /\ UNCHANGED <<activeBytes, closed, mu, batch, popped, size, answer, out>>

\* one batch is dropped, whatever the limit that was exceeded
FullOldest(p) ==
    /\ pc[p] = "full" /\ fullBehavior = "drop_oldest"
    /\ IF ch # <<>>
       THEN /\ ch' = Tail(ch)
            /\ activeCount' = activeCount - 1
            /\ activeBytes' = activeBytes - size[Head(ch)]
            /\ dropped' = dropped \cup {Head(ch)}
       ELSE UNCHANGED <<ch, activeCount, activeBytes, dropped>>
    /\ pc' = [pc EXCEPT ![p] = "again"]
    /\ UNCHANGED <<closed, mu, batch, popped, size, answer, out>>

\* the second try; the byte limit is not tested again
PushAgain(p) ==
    /\ pc[p] = "again"
    /\ mu' = Free
    /\ IF Len(ch) < MaxSize
       THEN /\ ch' = Append(ch, batch[p])
            /\ pc' = [pc EXCEPT ![p] = "count"]
            /\ UNCHANGED answer
       ELSE Return(p, "full") /\ UNCHANGED ch
    /\ UNCHANGED <<activeCount, activeBytes, closed, batch, popped, size, out, dropped>>

\* Block: without the mutex, in a select on the channel, a timer and a ticker
FullBlock(p) ==
    /\ pc[p] = "full" /\ fullBehavior = "block"
    /\ mu' = Free
    /\ pc' = [pc EXCEPT ![p] = "select"]
    /\ UNCHANGED <<ch, activeCount, activeBytes, closed, batch, popped, size, answer, out, dropped>>

SelectSend(p) ==
    /\ pc[p] = "select" /\ ~closed /\ Len(ch) < MaxSize
    /\ ch' = Append(ch, batch[p])
    /\ pc' = [pc EXCEPT ![p] = "count"]
    /\ UNCHANGED <<activeCount, activeBytes, closed, mu, batch, popped, size, answer, out, dropped>>

SelectTimeout(p) ==
    /\ pc[p] = "select"
    /\ Return(p, "full")
    /\ UNCHANGED <<ch, activeCount, activeBytes, closed, mu, batch, popped, size, out, dropped>>

\* the ticker was chosen; the flag is read next
SelectTick(p) ==
    /\ pc[p] = "select"
    /\ pc' = [pc EXCEPT ![p] = "tick"]
    /\ UNCHANGED <<ch, activeCount, activeBytes, closed, mu, batch, popped, size, answer, out, dropped>>

TickChecks(p) ==
    /\ pc[p] = "tick" /\ mu = Free
    /\ IF closed THEN Return(p, "closed") ELSE pc' = [pc EXCEPT ![p] = "select"] /\ UNCHANGED answer
    /\ UNCHANGED <<ch, activeCount, activeBytes, closed, mu, batch, popped, size, out, dropped>>

\* a goroutine that waits to send on a channel that is closed panics; one that
\* only comes to the select may also find the timer or the ticker first
SelectPanics(p) ==
    /\ pc[p] = "select" /\ closed
    /\ Return(p, "panic")
    /\ UNCHANGED <<ch, activeCount, activeBytes, closed, mu, batch, popped, size, out, dropped>>

-----------------------------------------------------------------------------
(* PopBatch, PopBatchBlocking and Close *)

PopTake(c) ==
    /\ popped[c] = 0 /\ ch # <<>>
    /\ popped' = [popped EXCEPT ![c] = Head(ch)]
    /\ out' = Append(out, Head(ch))
    /\ ch' = Tail(ch)
    /\ UNCHANGED <<activeCount, activeBytes, closed, mu, pc, batch, size, answer, dropped>>

PopCount(c) ==
    /\ popped[c] # 0
    /\ activeCount' = activeCount - 1
    /\ activeBytes' = activeBytes - size[popped[c]]
    /\ popped' = [popped EXCEPT ![c] = 0]
    /\ UNCHANGED <<ch, closed, mu, pc, batch, size, answer, out, dropped>>

Close ==
    /\ ~closed /\ mu = Free
    /\ closed' = TRUE
    /\ UNCHANGED <<ch, activeCount, activeBytes, mu, pc, batch, popped, size, answer, out, dropped>>

PushStep(p) ==
    \/ PushSend(p) \/ PushCount(p) \/ FullNewest(p) \/ FullOldest(p) \/ PushAgain(p)
    \/ FullBlock(p) \/ SelectSend(p) \/ SelectTick(p) \/ TickChecks(p) \/ SelectPanics(p)

PopStep(c) == PopTake(c) \/ PopCount(c)

Crashed == \E b \in 1..Pushed : answer[b] = "panic"

Next ==
    /\ ~Crashed
    /\ \/ \E p \in Pushers : (\E s \in Sizes : PushBegin(p, s)) \/ PushStep(p) \/ SelectTimeout(p)
       \/ \E c \in Poppers : PopStep(c)
       \/ Close
    /\ UNCHANGED fullBehavior

Spec == Init /\ [][Next]_vars

-----------------------------------------------------------------------------
Counting == {p \in Pushers : pc[p] = "count"}
Uncounting == {c \in Poppers : popped[c] # 0}

\* The counters are the contents of the channel up to the pushers that have
\* sent and not counted and the poppers that have taken and not counted: no
\* path forgets or repeats a correction, so they are exact when all is quiet.
CountersFollow ==
    /\ activeCount = Len(ch) - Cardinality(Counting) + Cardinality(Uncounting)
    /\ activeBytes = Bytes(ToSet(ch)) - Bytes({batch[p] : p \in Counting})
                     + Bytes({popped[c] : c \in Uncounting})

\* A batch that PushBatch accepted is in the channel, was popped or was dropped
\* for a newer one, each once; one it refused is nowhere. Close keeps what is there.
AnswersTrue ==
    LET places == ch \o out
        sent == {b \in 1..Pushed : answer[b] = "nil"} \cup {batch[p] : p \in Counting}
    IN  /\ IsInjective(places) /\ ToSet(places) \cap dropped = {}
        /\ ToSet(places) \cup dropped = sent

\* Every PushBatch returns, unless a panic ends the process.
PushReturns == \A p \in Pushers : pc[p] # "idle" ~> (pc[p] = "idle" \/ Crashed)
=============================================================================
