------------------------------ MODULE MCStorage ------------------------------
(***************************************************************************)
(* Where received data waits and where it goes, each part by itself: the   *)
(* OTLP buffer with two producers, one of them the aggregation flush; the  *)
(* persistent queue with its crashes; the remote-write pipeline, which is  *)
(* a composition of receiver, buffer, exporter and shutdown; and sharded   *)
(* export.  unit says which of them a behaviour is about; the others stay  *)
(* in their initial state.                                                 *)
(***************************************************************************)
EXTENDS MCMetricsBuffer, MCSharding

CONSTANTS
    BlockBytes, ChunkFileSize, MaxInmemoryBlocks, WriteBufferBlocks, MaxBlocks,  \* the queue
    First, Second,                 \* remote write: the goroutines of the exporter,
    MaxSeries, MaxBatchSize,       \* the limits of the buffer,
    QueueSize, ChannelSize,        \* the sizes of the queue and of preparedCh,
    Accepts, Poisoned,             \* what the backend takes and refuses,
    DrainSize, BurstSize           \* and the rounds of the retry loop

VARIABLES
    unit,
    life, ch, disk, meta, metaDirty, activeCount, push, full, status, restarts, pushed, refused,
    popped, disorderly,
    mode, timesOut, requests, handler, buf, asked, flusher, taken, batch, main, reported,
    queue, prepared, at, held, stop, stopping, inDrain, failed, queued, delivered, dropped, lost,
    retry, hand, phase, drained, delay, undrained

bufferVars == vars
queueVars == <<life, ch, disk, meta, metaDirty, activeCount, push, full, status, restarts, pushed,
               refused, popped, disorderly>>
writeVars == <<mode, timesOut, requests, handler, buf, asked, flusher, taken, batch, main, reported,
               queue, prepared, at, held, stop, stopping, inDrain, failed, queued, delivered, dropped,
               lost, retry, hand, phase, drained, delay, undrained>>

Life(calls, blocks, lives) == [calls |-> calls, maxBlocks |-> blocks, maxRestarts |-> lives]

\* long behaviours without a restart, the same with Peek, and one restart at any
\* moment while the file system fills up and is freed, with the flush loop or longer
Disk == INSTANCE FastQueue WITH
    conf <- life, MaxSize <- MaxBlocks,
    Configs <- {Life({"stale_flush"}, 7, 0), Life({"stale_flush", "peek"}, 6, 0),
                Life({"close", "crash", "disk_full"}, 5, 1),
                Life({"stale_flush", "close", "crash", "disk_full"}, 4, 1)}

\* every exporter with a request that fills the buffer and one that does not, and
\* waits that time out for the queued ones with two small requests
Write == INSTANCE RemoteWrite WITH
    flushChan <- asked, toSend <- taken, disk <- queue, pc <- at, closing <- stopping,
    accepted <- queued, at <- retry, MaxSize <- MaxSeries, Series <- 1..3,
    Setups <- {"none", "plain", "workers", "split", "legacy"} \X {FALSE} \X {{{1, 2}, {3}}}
                \cup {"workers", "split", "legacy"} \X {TRUE} \X {{{1}, {3}}}

\* Sharded export runs with one placement of virtual nodes; with the others
\* nothing but the ring is of interest.
Discovers ==
    /\ DNSChanges \/ Refresh \/ \E n \in notices : NoticeRing(n) \/ NoticeCleanup(n)
    /\ UNCHANGED fixed

ShardsInit ==
    /\ ShardInit
    /\ IF nodes \in Straight THEN dns \in {{1}, {1, 2}} ELSE kind = "otlp"
ShardsNext ==
    \/ nodes \in Straight /\ ShardNext /\ dns' \subseteq 1..2
    \/ nodes \notin Straight /\ Discovers

-----------------------------------------------------------------------------
MCInit ==
    /\ unit \in {"buffer", "queue", "write", "shards"}
    /\ Init /\ (unit = "buffer" \/ conf.fullPolicy = "block")
    /\ Disk!Init /\ (unit = "queue" \/ life.maxBlocks = 7)
    /\ Write!Init /\ (unit = "write" \/ mode = "none")
    /\ ShardsInit /\ (unit = "shards" \/ (kind = "otlp" /\ dns = {1} /\ nodes \in Straight))

MCNext ==
    \/ unit = "buffer" /\ Next /\ UNCHANGED <<unit, queueVars, writeVars, shardVars>>
    \/ unit = "queue" /\ Disk!Next /\ UNCHANGED <<unit, bufferVars, writeVars, shardVars>>
    \/ unit = "write" /\ Write!Next /\ UNCHANGED <<unit, bufferVars, queueVars, shardVars>>
    \/ unit = "shards" /\ ShardsNext /\ UNCHANGED <<unit, bufferVars, queueVars, writeVars>>

MCSpec == MCInit /\ [][MCNext]_<<unit, bufferVars, queueVars, writeVars, shardVars>>

-----------------------------------------------------------------------------
\* Pop returns blocks in order and none twice in one life of the process (FastQueue).
InOrder == unit = "queue" => Disk!InOrder

\* The counter tested against the limit covers what channel, buffer and files hold (FastQueue).
CountCovers == unit = "queue" => Disk!CountCovers

\* The reader's chunk is not removed under it, and an orderly Close can be reopened (FastQueue).
ReaderChunkKept == unit = "queue" => Disk!ReaderChunkKept

\* No series answered with 204 is forgotten by a step of the pipeline (RemoteWrite).
AnsweredIsAccountedFor == unit = "write" => Write!AnsweredIsAccountedFor

\* At the exit every answered series was delivered, dropped by a rule, or is on disk (RemoteWrite).
ShutdownKeepsAnswered == unit = "write" => Write!ShutdownKeepsAnswered
==============================================================================
