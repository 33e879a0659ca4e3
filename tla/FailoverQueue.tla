---------------------------- MODULE FailoverQueue ----------------------------
(***************************************************************************)
(* What the failover queue promises its two users, flush and the drain     *)
(* loop: a queue in order of arrival, bounded by count and by bytes, whose *)
(* Push makes room by giving up the oldest requests, and no more of them   *)
(* than it needs to.  Every operation is one step.                         *)
(***************************************************************************)
EXTENDS Integers, Sequences, Sums

CONSTANTS
    MaxSize,   \* most entries
    MaxBytes,  \* most bytes
    Requests   \* records with a field size

VARIABLE queue

BytesOf(q) == Prefix([i \in DOMAIN q |-> q[i].size], Len(q))

\* the entries of q that are left when its n oldest ones are evicted
Without(q, n) == SubSeq(q, n + 1, Len(q))

HasRoom(q, r) == Len(q) < MaxSize /\ BytesOf(q) + r.size <= MaxBytes

\* how many of the oldest entries a push of r evicts: the fewest that make room
Evicted(q, r) ==
    CHOOSE n \in 0..Len(q) : /\ HasRoom(Without(q, n), r)
                             /\ \A m \in 0..(n - 1) : ~HasRoom(Without(q, m), r)

AfterPush(q, r) == Append(Without(q, Evicted(q, r)), r)

Init == queue = <<>>

Refuse(r) == r.size > MaxBytes /\ UNCHANGED queue

Push(r) == r.size <= MaxBytes /\ queue' = AfterPush(queue, r)

Pop == queue # <<>> /\ queue' = Tail(queue)

Next == (\E r \in Requests : Push(r) \/ Refuse(r)) \/ Pop

Spec == Init /\ [][Next]_queue
==============================================================================
