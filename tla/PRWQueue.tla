------------------------------- MODULE PRWQueue -------------------------------
(***************************************************************************)
(* The retry queue of the Prometheus remote write exporters                *)
(* (internal/prw/queue.go): Export tries at once and queues what fails,    *)
(* the retry loop peeks at the queue, exports and removes, and the drain   *)
(* at Close pops.  SendQueue is its contents: Peek of an entry that is     *)
(* still in memory moves it to the end (see FastQueue), Remove only        *)
(* forgets the retry count, and a full queue evicts its oldest entry.      *)
(* Delays are left out; requests are numbered by the calls of Export.      *)
(***************************************************************************)
EXTENDS Integers, Sequences, FiniteSets, SequencesExt

CONSTANTS
    MaxSize,     \* limit of the send queue
    MaxRequests, \* bound: calls of Export
    MaxSends     \* bound: what the retry loop sends

VARIABLES
    queue,     \* the send queue
    pc,        \* the retry loop: "timer", "export", "remove", "drain", "send" or "done"
    entry,     \* the entry it works on, 0 for none
    stopping,  \* retryStop is closed
    closed,    \* the send queue is closed
    requests,  \* history: number of calls of Export
    told,      \* history: requests Export returned an error for
    sent,      \* history: requests the backend has, in order
    lost       \* history: requests evicted, or popped by the drain and not sent

vars == <<queue, pc, entry, stopping, closed, requests, told, sent, lost>>

Init ==
    /\ queue = <<>> /\ pc = "timer" /\ entry = 0
    /\ stopping = FALSE /\ closed = FALSE
    /\ requests = 0 /\ told = {} /\ sent = <<>> /\ lost = {}

-----------------------------------------------------------------------------
\* Export: the first try succeeds
ExportDirect ==
    /\ requests < MaxRequests
    /\ requests' = requests + 1
    /\ sent' = Append(sent, requests + 1)
    /\ UNCHANGED <<queue, pc, entry, stopping, closed, told, lost>>

\* Export: the first try fails; the request is queued, or the caller is told
ExportQueues ==
    /\ requests < MaxRequests
    /\ requests' = requests + 1
    /\ IF closed
       THEN told' = told \cup {requests + 1} /\ UNCHANGED <<queue, lost>>
       ELSE /\ IF Len(queue) >= MaxSize
               THEN queue' = Append(Tail(queue), requests + 1) /\ lost' = lost \cup {Head(queue)}
               ELSE queue' = Append(queue, requests + 1) /\ UNCHANGED lost
            /\ UNCHANGED told
    /\ UNCHANGED <<pc, entry, stopping, closed, sent>>

\* processQueue: peek at the oldest, on disk or in memory
Peek ==
    /\ pc = "timer" /\ ~stopping /\ queue # <<>>
    /\ entry' = Head(queue)
    /\ \/ queue' = queue
       \/ queue' = Append(Tail(queue), Head(queue))
    /\ pc' = "export"
    /\ UNCHANGED <<stopping, closed, requests, told, sent, lost>>

\* processQueue: the export succeeds or fails
Retry ==
    /\ pc = "export" /\ Len(sent) < MaxSends
    /\ sent' = Append(sent, entry)
    /\ pc' = "remove"
    /\ UNCHANGED <<queue, entry, stopping, closed, requests, told, lost>>

RetryFails ==
    /\ pc = "export"
    /\ pc' = "timer" /\ entry' = 0
    /\ UNCHANGED <<queue, stopping, closed, requests, told, sent, lost>>

\* processQueue after a success: SendQueue.Remove leaves the entry where it is
RemoveEntry ==
    /\ pc = "remove"
    /\ pc' = "timer" /\ entry' = 0
    /\ UNCHANGED <<queue, stopping, closed, requests, told, sent, lost>>

\* Close: retryStop is closed
Stop ==
    /\ ~stopping
    /\ stopping' = TRUE
    /\ UNCHANGED <<queue, pc, entry, closed, requests, told, sent, lost>>

\* drainQueue
DrainPop ==
    /\ (pc = "timer" /\ stopping) \/ pc = "drain"
    /\ queue # <<>>
    /\ entry' = Head(queue) /\ queue' = Tail(queue)
    /\ pc' = "send"
    /\ UNCHANGED <<stopping, closed, requests, told, sent, lost>>

\* the drain sends what it popped, or gives it up
DrainSend ==
    /\ pc = "send"
    /\ \/ sent' = Append(sent, entry) /\ UNCHANGED lost
       \/ lost' = lost \cup {entry} /\ UNCHANGED sent
    /\ pc' = "drain" /\ entry' = 0
    /\ UNCHANGED <<queue, stopping, closed, requests, told>>

\* the drain is done; Close closes the send queue
Close ==
    /\ (pc = "timer" /\ stopping) \/ pc = "drain"
    /\ queue = <<>>
    /\ closed' = TRUE /\ pc' = "done"
    /\ UNCHANGED <<queue, entry, stopping, requests, told, sent, lost>>

Next ==
    \/ ExportDirect \/ ExportQueues
    \/ Peek \/ Retry \/ RetryFails \/ RemoveEntry
    \/ Stop \/ DrainPop \/ DrainSend \/ Close

Spec == Init /\ [][Next]_vars

-----------------------------------------------------------------------------
\* A request that Export has answered with nil is with the backend, in the
\* queue or in the hands of the drain, unless it was evicted or the drain gave
\* it up: Peek, retries and Close make nothing vanish.
NothingVanishes ==
    \A r \in 1..requests :
        r \in told \cup lost \cup ToSet(sent) \cup ToSet(queue) \cup {entry}
================================================================================
