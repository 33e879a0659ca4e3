------------------------------ MODULE QueueOps ------------------------------
(***************************************************************************)
(* A bounded queue of batches as its users see it: what a push makes of    *)
(* it under drop_oldest and drop_newest (internal/queue/queue.go), and the *)
(* split of a batch in two halves (internal/exporter/queued.go).  A batch  *)
(* is a set of resource metrics, numbered in their order.                  *)
(***************************************************************************)
LOCAL INSTANCE Naturals
LOCAL INSTANCE Sequences
LOCAL INSTANCE FiniteSets

Items(s) == UNION {s[i] : i \in DOMAIN s}

Full(q, cap) == Len(q) >= cap

\* a push onto a closed queue, and onto a full one under drop_newest, leaves the batch
\* out; the closed one answers with an error, the full send queue does not
DoesNotStore(q, cap, dropOldest, closed) == closed \/ (Full(q, cap) /\ ~dropOldest)

\* the queue after a push, what the push evicts, and what of b it does not take
Pushed(q, cap, dropOldest, closed, b) ==
    IF DoesNotStore(q, cap, dropOldest, closed) THEN q
    ELSE IF Full(q, cap) THEN Append(Tail(q), b) ELSE Append(q, b)
Evicted(q, cap, dropOldest, closed) ==
    IF ~DoesNotStore(q, cap, dropOldest, closed) /\ Full(q, cap) THEN Head(q) ELSE {}
NotTaken(q, cap, dropOldest, closed, b) ==
    IF DoesNotStore(q, cap, dropOldest, closed) THEN b ELSE {}

FirstHalf(b) == {i \in b : Cardinality({j \in b : j < i}) < Cardinality(b) \div 2}
=============================================================================
