----------------------------- MODULE MemoryQueue -----------------------------
(***************************************************************************)
(* The bounded in-memory failover queue (internal/buffer/memqueue.go).     *)
(* A request is its position in the order of accepted pushes and its       *)
(* serialized size.  Push runs under the mutex: it evicts from the head,   *)
(* one entry per step, until the request fits, and then appends it.  While *)
(* pending is a request the mutex is held by its Push.                     *)
(*                                                                         *)
(* The field start of an entry is history: the bytes accepted before it.   *)
(* The compaction of the slice (maybeCompact) changes its capacity and not *)
(* its contents and is a stutter here.                                     *)
(***************************************************************************)
EXTENDS Integers, Sequences

CONSTANTS
    MaxSize,    \* most entries
    MaxBytes,   \* most bytes
    EntrySizes, \* the serialized sizes requests may have
    MaxPushes   \* bound: accepted pushes

ASSUME LimitsAssumption == MaxSize \in Nat \ {0} /\ MaxBytes \in Nat \ {0}
ASSUME SizesAssumption == EntrySizes \subseteq Nat
ASSUME PushesAssumption == MaxPushes \in Nat

VARIABLES
    entries,   \* the slice
    bytes,     \* its byte count
    pending,   \* the size being pushed, or None
    accepted,  \* history: pushes accepted so far
    total      \* history: bytes of the accepted pushes

vars == <<entries, bytes, pending, accepted, total>>

None == -1
Entry == [id : Nat, size : Nat, start : Nat]

\* NewMemoryQueue
Init ==
    /\ entries = <<>>
    /\ bytes = 0
    /\ pending = None
    /\ accepted = 0
    /\ total = 0

\* q.bytes -= size, never below zero
Subtract(size) == IF bytes >= size THEN bytes - size ELSE 0

-----------------------------------------------------------------------------
\* Push returns an error only for a request larger than the whole queue
PushTooLarge(size) ==
    /\ size > MaxBytes
    /\ UNCHANGED vars

\* (mutant) the size test is forgotten
PushLockAny(size) ==
    /\ pending = None
    /\ accepted < MaxPushes
    /\ pending' = size
    /\ UNCHANGED <<entries, bytes, accepted, total>>

\* Push: the size test, and the mutex is taken
PushLock(size) ==
    /\ pending = None
    /\ accepted < MaxPushes
    /\ size <= MaxBytes
    /\ pending' = size
    /\ UNCHANGED <<entries, bytes, accepted, total>>

\* evictOldest
evictOldest ==
    /\ entries # <<>>
    /\ entries' = Tail(entries)
    /\ bytes' = Subtract(Head(entries).size)
    /\ UNCHANGED <<pending, accepted, total>>

\* the loop that makes room by count
EvictByCount ==
    /\ pending # None
    /\ Len(entries) >= MaxSize
    /\ evictOldest

\* the loop that makes room by bytes, which runs after the other
EvictByBytes ==
    /\ pending # None
    /\ Len(entries) < MaxSize
    /\ bytes + pending > MaxBytes
    /\ evictOldest

\* both loops are done: append and unlock
PushAppend ==
    /\ pending # None
    /\ Len(entries) < MaxSize
    /\ bytes + pending <= MaxBytes \/ entries = <<>>
    /\ entries' = Append(entries, [id |-> accepted + 1, size |-> pending, start |-> total])
    /\ bytes' = bytes + pending
    /\ accepted' = accepted + 1
    /\ total' = total + pending
    /\ pending' = None

\* (mutant) the newest entry is returned
PopNewest ==
    /\ pending = None
    /\ entries # <<>>
    /\ entries' = SubSeq(entries, 2, Len(entries) - 1) \o <<Head(entries)>>
    /\ bytes' = Subtract(entries[Len(entries)].size)
    /\ UNCHANGED <<pending, accepted, total>>

\* Pop; on an empty queue it returns nil and changes nothing
Pop ==
    /\ pending = None
    /\ evictOldest

Next ==
    \/ \E size \in EntrySizes : PushTooLarge(size) \/ PushLock(size)
    \/ EvictByCount \/ EvictByBytes \/ PushAppend
    \/ Pop

Spec == Init /\ [][Next]_vars

-----------------------------------------------------------------------------
\* The variables keep to their domains.
TypeOK ==
    /\ entries \in Seq(Entry)
    /\ bytes \in Nat
    /\ pending \in Nat \cup {None}
    /\ pending # None => pending <= MaxBytes
    /\ accepted \in Nat
    /\ total \in Nat

\* The queue holds at most MaxSize entries, however pushes and pops mix.
CountBounded == Len(entries) <= MaxSize

\* The byte counter is exact: it is the bytes of the accepted pushes minus
\* those that left at the head, so neither the clamp at zero in evictOldest
\* nor its early stop ever hides a difference.
BytesExact ==
    bytes = IF entries = <<>> THEN 0 ELSE total - entries[1].start

\* The entries held never exceed MaxBytes.
BytesBounded == bytes <= MaxBytes

\* The queue is the newest accepted requests in order of arrival: Push evicts
\* from the head and nowhere else, and nothing is reordered or duplicated.
NewestInOrder ==
    \A i \in 1..Len(entries) : entries[i].id = accepted - Len(entries) + i

-----------------------------------------------------------------------------
(* What the users of the queue see *)

\* A request as the users of the queue see it.
Request(id, bytesIn) == [id |-> id, size |-> bytesIn]
AllRequests == {Request(id, bytesIn) : id \in 1..MaxPushes, bytesIn \in EntrySizes}

Contents == [i \in DOMAIN entries |-> Request(entries[i].id, entries[i].size)]

\* A push takes effect when it takes the mutex.
Ops == INSTANCE FailoverQueue WITH queue <- Contents, Requests <- AllRequests
Mapped ==
    IF pending = None THEN Contents
    ELSE Ops!AfterPush(Contents, Request(accepted + 1, pending))
Abstract == INSTANCE FailoverQueue WITH queue <- Mapped, Requests <- AllRequests

\* Push and Pop of MemoryQueue implement the atomic queue: the two eviction
\* loops together give up the fewest oldest requests that make room.
ImplementsFailoverQueue == Abstract!Spec
==============================================================================
