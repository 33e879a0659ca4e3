------------------------------ MODULE SendQueue ------------------------------
(***************************************************************************)
(* SendQueue (internal/queue/queue.go): the mutex, the full-queue policies *)
(* and the condition variable that the exporters' goroutines share, on top *)
(* of a FastQueue.  The FastQueue is its contents, its counters, which may *)
(* have entries that the files have not (ghosts, see FastQueue), and the   *)
(* chance that its disk layer fails: the channel is emptied before it is   *)
(* written, so that a write that fails loses the blocks that follow.       *)
(*                                                                         *)
(* A request is the number of its Push.  A pusher that runs holds mu, also *)
(* between its steps; one that waits on spaceCond does not.                *)
(***************************************************************************)
EXTENDS Integers, Sequences, FiniteSets, SequencesExt, FiniteSetsExt

CONSTANTS
    Pushers, Free,     \* goroutines that call Push; nobody
    Sizes,             \* sizes of requests
    MaxSize, MaxBytes, \* limits of the FastQueue
    Configs            \* the configurations and bounds considered: records with
                       \*   fullBehavior: "drop_oldest", "drop_newest" or "block"
                       \*   ghosts: entries that the counter has and the files have not
                       \*   diskFails: whether the disk layer may run out of space
                       \*   maxPushes: bound on the calls of Push

VARIABLES
    conf,      \* the configuration, fixed at the start
    fq,        \* the entries of the FastQueue, oldest first
    size,      \* size of each request
    mu,        \* the pusher that holds the mutex, or Free
    closed,
    pc,        \* where each pusher is in pushData
    req,       \* the request it pushes
    timedOut,  \* its flag, set by the timer
    answer,    \* history: what Push has returned for each request, "" while it runs
    unwritten, \* requests that a failed drain of the channel lost; the counters keep them
    popped,    \* history: requests returned by Pop
    evicted,   \* history: requests popped to make room
    discarded  \* history: requests that drop_newest did not store

vars == <<conf, fq, size, mu, closed, pc, req, timedOut, answer, unwritten, popped, evicted, discarded>>

Requests == 1..conf.maxPushes
Bytes(S) == FoldSet(LAMBDA r, sum : sum + size[r], 0, S)
Waiters == {p \in Pushers : pc[p] = "wait"}
Pushed == Len(answer)

Init ==
    /\ conf \in Configs
    /\ fq = <<>> /\ size = [r \in Requests |-> 0]
    /\ mu = Free /\ closed = FALSE
    /\ pc = [p \in Pushers |-> "idle"] /\ req = [p \in Pushers |-> 0]
    /\ timedOut = [p \in Pushers |-> FALSE]
    /\ answer = <<>> /\ unwritten = {} /\ popped = <<>> /\ evicted = {} /\ discarded = {}

\* FastQueue.Push: the two limits, by the counters
HasRoom(r) ==
    /\ Len(fq) + Cardinality(unwritten) + conf.ghosts < MaxSize
    /\ Bytes(ToSet(fq) \cup unwritten) + size[r] <= MaxBytes

\* drainChannelToDiskLocked on a disk that fails: the channel has the newest
\* blocks, and those that were not written before the error are gone
DrainFails(n) ==
    /\ fq' = SubSeq(fq, 1, n)
    /\ unwritten' = unwritten \cup ToSet(SubSeq(fq, n + 1, Len(fq)))

\* spaceCond.Broadcast, in a step that takes the pushers to the places given
Broadcast(to) == pc' = [p \in Pushers |-> IF p \in Waiters THEN "woken" ELSE to[p]]

Return(p, what) ==
    /\ answer' = [answer EXCEPT ![req[p]] = what]
    /\ mu' = Free

-----------------------------------------------------------------------------
(* pushData *)

\* the call, once the mutex is free
PushCall(p, s) ==
    /\ pc[p] = "idle" /\ mu = Free /\ Pushed < conf.maxPushes
    /\ size' = [size EXCEPT ![Pushed + 1] = s]
    /\ req' = [req EXCEPT ![p] = Pushed + 1]
    /\ timedOut' = [timedOut EXCEPT ![p] = FALSE]
    /\ IF closed
       THEN answer' = Append(answer, "closed") /\ UNCHANGED <<mu, pc>>
       ELSE /\ answer' = Append(answer, "")
            /\ mu' = p
            /\ pc' = [pc EXCEPT ![p] = "try"]
    /\ UNCHANGED <<fq, closed, unwritten, popped, evicted, discarded>>

PushDone(p) ==
    /\ pc[p] = "try" /\ HasRoom(req[p])
    /\ fq' = Append(fq, req[p])
    /\ Broadcast([pc EXCEPT ![p] = "idle"])
    /\ Return(p, "nil")
    /\ UNCHANGED <<size, closed, req, timedOut, unwritten, popped, evicted, discarded>>

\* the channel was full and the FastQueue could not write all of it and the new
\* block: its error wraps ErrDiskFull, so it equals neither ErrDiskFull nor
\* ErrQueueFull
PushDiskFull(p) ==
    /\ conf.diskFails
    /\ pc[p] = "try" /\ HasRoom(req[p]) /\ fq # <<>>
    /\ \E n \in 0..Len(fq) : DrainFails(n)
    /\ pc' = [pc EXCEPT ![p] = "idle"]
    /\ Return(p, "error")
    /\ UNCHANGED <<size, closed, req, timedOut, popped, evicted, discarded>>

\* (mutant) nothing is popped for a request that is too large for what is free
PushDropNothing(p) ==
    /\ pc[p] = "try" /\ ~HasRoom(req[p]) /\ conf.fullBehavior = "drop_oldest"
    /\ Len(fq) >= MaxSize
    /\ fq' = Tail(fq)
    /\ evicted' = evicted \cup {Head(fq)}
    /\ UNCHANGED <<size, mu, closed, pc, req, timedOut, answer, unwritten, popped, discarded>>

\* the queue is full: pop the oldest and try again.  The pop of an empty queue is no
\* error either, so that a request with no room in an empty queue is tried for ever.
PushDropOldest(p) ==
    /\ pc[p] = "try" /\ ~HasRoom(req[p]) /\ conf.fullBehavior = "drop_oldest"
    /\ fq' = IF fq = <<>> THEN fq ELSE Tail(fq)
    /\ evicted' = evicted \cup (IF fq = <<>> THEN {} ELSE {Head(fq)})
    /\ UNCHANGED <<size, mu, closed, pc, req, timedOut, answer, unwritten, popped, discarded>>

\* the pop that should make room fails on a full disk
PushDropFails(p) ==
    /\ conf.diskFails
    /\ pc[p] = "try" /\ ~HasRoom(req[p]) /\ conf.fullBehavior = "drop_oldest"
    /\ pc' = [pc EXCEPT ![p] = "idle"]
    /\ Return(p, "error")
    /\ UNCHANGED <<fq, size, closed, req, timedOut, unwritten, popped, evicted, discarded>>

\* the request is not stored, and that is no error
PushDropNewest(p) ==
    /\ pc[p] = "try" /\ ~HasRoom(req[p]) /\ conf.fullBehavior = "drop_newest"
    /\ discarded' = discarded \cup {req[p]}
    /\ pc' = [pc EXCEPT ![p] = "idle"]
    /\ Return(p, "nil")
    /\ UNCHANGED <<fq, size, closed, req, timedOut, unwritten, popped, evicted>>

\* Block: the timer is started
PushBlock(p) ==
    /\ pc[p] = "try" /\ ~HasRoom(req[p]) /\ conf.fullBehavior = "block"
    /\ pc' = [pc EXCEPT ![p] = "check"]
    /\ UNCHANGED <<fq, size, mu, closed, req, timedOut, answer, unwritten, popped, evicted, discarded>>

\* the condition of the loop
CheckTimer(p) ==
    /\ pc[p] = "check"
    /\ IF timedOut[p]
       THEN pc' = [pc EXCEPT ![p] = "idle"] /\ Return(p, "timeout")
       ELSE pc' = [pc EXCEPT ![p] = "park"] /\ UNCHANGED <<mu, answer>>
    /\ UNCHANGED <<fq, size, closed, req, timedOut, unwritten, popped, evicted, discarded>>

\* spaceCond.Wait: from here on a broadcast is noticed
Park(p) ==
    /\ pc[p] = "park"
    /\ pc' = [pc EXCEPT ![p] = "wait"]
    /\ mu' = Free
    /\ UNCHANGED <<fq, size, closed, req, timedOut, answer, unwritten, popped, evicted, discarded>>

\* (mutant) the queue takes the request although the call fails
WakeClosedLate(p) ==
    /\ pc[p] = "woken" /\ mu = Free /\ closed
    /\ fq' = Append(fq, req[p])
    /\ pc' = [pc EXCEPT ![p] = "idle"]
    /\ Return(p, "closed")
    /\ UNCHANGED <<size, closed, req, timedOut, unwritten, popped, evicted, discarded>>

\* awake with the mutex: the queue was closed
WakeClosed(p) ==
    /\ pc[p] = "woken" /\ mu = Free /\ closed
    /\ pc' = [pc EXCEPT ![p] = "idle"]
    /\ Return(p, "closed")
    /\ UNCHANGED <<fq, size, closed, req, timedOut, unwritten, popped, evicted, discarded>>

\* awake with the mutex: try again, and do not tell the others; no error of this
\* try ends the wait
WakeRetry(p) ==
    /\ pc[p] = "woken" /\ mu = Free /\ ~closed
    /\ \/ /\ HasRoom(req[p])
          /\ fq' = Append(fq, req[p])
          /\ pc' = [pc EXCEPT ![p] = "idle"]
          /\ Return(p, "nil")
          /\ UNCHANGED unwritten
       \/ /\ \/ ~HasRoom(req[p]) /\ UNCHANGED <<fq, unwritten>>
             \/ /\ HasRoom(req[p]) /\ conf.diskFails /\ fq # <<>>
                /\ \E n \in 0..Len(fq) : DrainFails(n)
          /\ pc' = [pc EXCEPT ![p] = "check"]
          /\ mu' = p
          /\ UNCHANGED answer
    /\ UNCHANGED <<size, closed, req, timedOut, popped, evicted, discarded>>

\* the timer of a pusher that waits, or is about to; it does not take the mutex
TimerFires(p) ==
    /\ pc[p] \in {"check", "park", "wait", "woken"} /\ ~timedOut[p]
    /\ timedOut' = [timedOut EXCEPT ![p] = TRUE]
    /\ Broadcast(pc)
    /\ UNCHANGED <<fq, size, mu, closed, req, answer, unwritten, popped, evicted, discarded>>

-----------------------------------------------------------------------------
(* The other calls. *)

Pop ==
    /\ mu = Free /\ ~closed /\ fq # <<>>
    /\ popped' = Append(popped, Head(fq))
    /\ fq' = Tail(fq)
    /\ Broadcast(pc)
    /\ UNCHANGED <<size, mu, closed, req, timedOut, answer, unwritten, evicted, discarded>>

\* staleFlushLoop writes the channel, without mu and without a look at the error
StaleFlushFails ==
    /\ conf.diskFails /\ ~closed
    /\ \E n \in 0..Len(fq) - 1 : DrainFails(n)
    /\ UNCHANGED <<size, mu, closed, pc, req, timedOut, answer, popped, evicted, discarded>>

\* with the flush of the FastQueue, which may fail as well
Close ==
    /\ mu = Free /\ ~closed
    /\ closed' = TRUE
    /\ \/ UNCHANGED <<fq, unwritten>>
       \/ conf.diskFails /\ \E n \in 0..Len(fq) - 1 : DrainFails(n)
    /\ Broadcast(pc)
    /\ UNCHANGED <<size, mu, req, timedOut, answer, popped, evicted, discarded>>

Step(p) ==
    \/ PushDone(p) \/ PushDropOldest(p) \/ PushDropNewest(p) \/ PushBlock(p)
    \/ CheckTimer(p) \/ Park(p) \/ WakeClosed(p) \/ WakeRetry(p)

DiskFull(p) == PushDiskFull(p) \/ PushDropFails(p)

Steps ==
    \/ \E p \in Pushers : (\E s \in Sizes : PushCall(p, s)) \/ Step(p) \/ DiskFull(p) \/ TimerFires(p)
    \/ Pop \/ StaleFlushFails \/ Close

Next == Steps /\ UNCHANGED conf

Spec == Init /\ [][Next]_vars

-----------------------------------------------------------------------------
\* What Push answers is what became of the request: the requests it accepted, and
\* only they, are in the queue, were popped, were given up by the policy (the oldest
\* evicted, the newest discarded without an error), or were lost when the channel
\* was written to a disk that failed, each in one of these ways.
AnswersTrue ==
    LET places == fq \o popped
        accepted == {r \in 1..Pushed : answer[r] = "nil"}
    IN  /\ IsInjective(places)
        /\ accepted = UNION {ToSet(places), evicted, discarded, unwritten}
        /\ Cardinality(accepted) =
             Len(places) + Cardinality(evicted) + Cardinality(discarded) + Cardinality(unwritten)
        /\ conf.fullBehavior # "drop_oldest" => evicted = {}
        /\ conf.fullBehavior # "drop_newest" => discarded = {}

\* A pusher under drop_oldest has emptied the queue and still has no room: its request
\* is larger than the byte limit, or the counters are full of entries that are gone.
Spins(p) == pc[p] = "try" /\ conf.fullBehavior = "drop_oldest" /\ fq = <<>> /\ ~HasRoom(req[p])

\* The timer of a waiting pusher fired after it had checked its flag and before it
\* waited, and the queue is empty, so that no pop wakes it.
Missed(p) == pc[p] = "wait" /\ timedOut[p] /\ fq = <<>>

Stalled(p) == Missed(p) \/ \E o \in Pushers : Spins(o)

\* Every call of Push returns, under each policy, unless it stays stalled: because
\* it missed its timer, or because a pusher spins with the mutex.
PushReturns == \A p \in Pushers : pc[p] # "idle" ~> (pc[p] = "idle" \/ []Stalled(p))
==============================================================================
