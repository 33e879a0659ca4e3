------------------------------ MODULE FastQueue ------------------------------
(***************************************************************************)
(* The persistent queue (internal/queue/fastqueue.go): a channel in front  *)
(* of chunk files, a buffered writer, metadata, two background loops,      *)
(* crash and recovery.  All users reach it through SendQueue, whose mutex  *)
(* admits one Push, Pop, Peek or Close at a time; the background loops run *)
(* between the steps of a Push.                                            *)
(*                                                                         *)
(* Every block takes BlockBytes in its chunk (header and compressed data), *)
(* so a file is a sequence of blocks and a position in it is a multiple of *)
(* BlockBytes.  A block is the number of its push.  A file descriptor has  *)
(* ONE position for reading and writing; reader = Shared says that the     *)
(* reader uses the descriptor of the writer.  totalBytes moves in step     *)
(* with activeCount, and the two gauges diskBytes and pendingBytes are     *)
(* left out.  A crash loses the memory of the process and no file.         *)
(***************************************************************************)
EXTENDS Integers, Sequences, FiniteSets, SequencesExt

CONSTANTS
    BlockBytes, ChunkFileSize,  \* sizes in bytes
    MaxInmemoryBlocks,          \* capacity of the channel
    WriteBufferBlocks,          \* blocks the buffered writer holds
    MaxSize,                    \* limit on the number of entries
    Configs                     \* the environments and bounds considered

\* A member of Configs says what happens besides Push and Pop (calls, a subset of
\* "stale_flush", "peek", "close", "crash" and "disk_full") and bounds the pushes
\* (maxBlocks) and the restarts (maxRestarts).

VARIABLES
    conf,         \* what happens besides Push and Pop, fixed at the start
    ch,           \* the channel
    disk,         \* the disk layer, see NoDisk
    meta,         \* the metadata file, or NoMeta
    metaDirty,
    activeCount,  \* the atomic counter
    push,         \* "idle", "count" (sent and not counted) or "spill" (found ch full)
    full,         \* environment: the file system has no space left
    status,       \* "open", "down" (closed or crashed) or "failed" (NewFastQueue failed)
    restarts,     \* history: restarts
    pushed,       \* history: blocks given to Push
    refused,      \* history: those Push returned an error for
    popped,       \* history: blocks returned by Pop, in order
    disorderly    \* history: a crash, or a Close that could not write

vars == <<conf, ch, disk, meta, metaDirty, activeCount, push, full, status,
          restarts, pushed, refused, popped, disorderly>>

None == -1   \* no block
Error == -2  \* Pop returns an error
Unopened == [file |-> -1, pos |-> 0, append |-> FALSE]
Shared == [file |-> -2, pos |-> 0, append |-> FALSE]
NoMeta == [readerOffset |-> -1, writerOffset |-> -1, entryCount |-> -1]
Hole == 0  \* what a read finds between the end of a file and a later write

Blocks == 1..conf.maxBlocks
Chunk(offset) == offset \div ChunkFileSize
OpenAt(offset) == [file |-> Chunk(offset), pos |-> offset % ChunkFileSize, append |-> FALSE]
ChunkEnd(offset) == (Chunk(offset) + 1) * ChunkFileSize
Chunks == 0..(conf.maxBlocks * (conf.maxRestarts + 1))

\* writer: the descriptor (file, position, O_APPEND) or Unopened; buf: the buffered
\* writer, failed its sticky error; files: contents; dir: the files that exist
NoDisk == [writer |-> Unopened, buf |-> <<>>, failed |-> FALSE, writerOffset |-> 0,
           reader |-> Unopened, readerOffset |-> 0,
           files |-> [c \in Chunks |-> <<>>], dir |-> {}]

Init ==
    /\ conf \in Configs
    /\ ch = <<>> /\ disk = NoDisk
    /\ meta = NoMeta /\ metaDirty = FALSE
    /\ activeCount = 0 /\ push = "idle"
    /\ full = FALSE /\ status = "open"
    /\ restarts = 0 /\ pushed = 0 /\ refused = {} /\ popped = <<>> /\ disorderly = FALSE

-----------------------------------------------------------------------------
(* The disk layer.  The operators map a disk to a disk. *)

Cell(pos) == pos \div BlockBytes

\* a file after blocks were written from a cell on
WriteAt(file, cell, blocks) ==
    [k \in 1..(IF cell + Len(blocks) > Len(file) THEN cell + Len(blocks) ELSE Len(file)) |->
        IF k \in (cell + 1)..(cell + Len(blocks)) THEN blocks[k - cell]
        ELSE IF k <= Len(file) THEN file[k] ELSE Hole]

\* writerBuf.Flush: the write moves the position of the descriptor
Flush(d) ==
    IF d.buf = <<>> \/ d.failed THEN d
    ELSE IF full THEN [d EXCEPT !.failed = TRUE]
    ELSE LET w == d.writer
             cell == IF w.append THEN Len(d.files[w.file]) ELSE Cell(w.pos)
         IN  [d EXCEPT !.files[w.file] = WriteAt(@, cell, d.buf),
                       !.writer.pos = (cell + Len(d.buf)) * BlockBytes,
                       !.buf = <<>>]

\* a block that would cross the end of the chunk goes to the next one
MustRotate(d) ==
    d.writer # Unopened /\ (d.writerOffset % ChunkFileSize) + BlockBytes > ChunkFileSize

\* the reader keeps the descriptor it shared with the writer
Rotate(d) ==
    IF ~MustRotate(d) THEN d
    ELSE LET f == Flush(d)
         IN  IF f.failed THEN f
             ELSE [f EXCEPT !.reader = IF @ = Shared
                                       THEN f.writer ELSE @,
                            !.writer = Unopened,
                            !.writerOffset = ChunkEnd(@)]

\* the file is created, or opened for appending
OpenWriter(d) ==
    IF d.writer # Unopened THEN d
    ELSE LET c == Chunk(d.writerOffset)
         IN  [d EXCEPT !.writer = [file |-> c, pos |-> 0, append |-> TRUE],
                       !.files[c] = IF c \in d.dir THEN @ ELSE <<>>,
                       !.dir = @ \cup {c}]

\* writeBlockToDiskLocked; the buffered writer flushes itself when it is full
Write(d, block) ==
    LET r == Rotate(d)
    IN  IF r.failed \/ (r.writer = Unopened /\ full /\ Chunk(r.writerOffset) \notin r.dir) THEN [disk |-> r, ok |-> FALSE]
        ELSE LET o == OpenWriter(r)
                 b == IF Len(o.buf) = WriteBufferBlocks THEN Flush(o) ELSE o
             IN  IF b.failed THEN [disk |-> b, ok |-> FALSE]
                 ELSE [disk |-> [b EXCEPT !.buf = Append(@, block), !.writerOffset = @ + BlockBytes],
                       ok |-> TRUE]

\* drainChannelToDiskLocked: the blocks after a failed write are gone
Drain(d, blocks) ==
    FoldLeft(LAMBDA acc, b : IF acc.ok THEN Write(acc.disk, b) ELSE acc,
             [disk |-> d, ok |-> TRUE], blocks)

\* the reader takes the descriptor of the writer when both are in one chunk
OpenReader(d) ==
    IF d.reader # Unopened THEN d
    ELSE IF d.writer # Unopened /\ Chunk(d.readerOffset) = Chunk(d.writerOffset)
    THEN [d EXCEPT !.reader = Shared, !.writer.pos = d.readerOffset % ChunkFileSize]
    ELSE IF Chunk(d.readerOffset) \in d.dir
    THEN [d EXCEPT !.reader = OpenAt(d.readerOffset)]
    ELSE d

Descriptor(d) == IF d.reader = Shared THEN d.writer ELSE d.reader

\* what a read at the position of the reader finds, or None at the end of the file
BlockAt(d) ==
    LET fd == Descriptor(d)
        cell == Cell(fd.pos) + 1
    IN  IF cell <= Len(d.files[fd.file]) THEN d.files[fd.file][cell] ELSE None

\* the position of the reader moves past a block
PastBlock(d) ==
    IF d.reader = Shared THEN [d EXCEPT !.writer.pos = @ + BlockBytes]
    ELSE [d EXCEPT !.reader.pos = @ + BlockBytes]

\* readBlockFromDiskLocked: at the end of the file it goes on in the next chunk
RECURSIVE Read(_)
Read(d) ==
    IF d.readerOffset >= d.writerOffset THEN [disk |-> d, block |-> None]
    ELSE LET o == OpenReader(Flush(d))
         IN  IF o.failed THEN [disk |-> Flush(d), block |-> Error]
             ELSE IF o.reader = Unopened THEN [disk |-> o, block |-> None]
             ELSE IF BlockAt(o) # None
             THEN [disk |-> [PastBlock(o) EXCEPT !.readerOffset = @ + BlockBytes], block |-> BlockAt(o)]
             ELSE Read([o EXCEPT !.reader = Unopened, !.readerOffset = ChunkEnd(@)])

\* cleanupConsumedChunksLocked
Cleanup(d) == [d EXCEPT !.dir = {c \in @ : c >= Chunk(d.readerOffset)}]

-----------------------------------------------------------------------------
(* The operations of the one caller that SendQueue admits. *)

Ready == status = "open" /\ push = "idle"

\* the block of a Push that has not written it yet
InPush == IF push = "spill" THEN {pushed} ELSE {}

\* Push: the limit
PushFull ==
    /\ Ready /\ pushed < conf.maxBlocks
    /\ activeCount >= MaxSize
    /\ pushed' = pushed + 1
    /\ refused' = refused \cup {pushed + 1}
    /\ UNCHANGED <<ch, disk, meta, metaDirty, activeCount, push, full, status, restarts, popped, disorderly>>

\* Push: the channel has room
PushSend ==
    /\ Ready /\ pushed < conf.maxBlocks
    /\ activeCount < MaxSize
    /\ Len(ch) < MaxInmemoryBlocks
    /\ ch' = Append(ch, pushed + 1)
    /\ pushed' = pushed + 1
    /\ push' = "count"
    /\ UNCHANGED <<disk, meta, metaDirty, activeCount, full, status, restarts, refused, popped, disorderly>>

\* Push: the counters, after the send
PushCount ==
    /\ status = "open" /\ push = "count"
    /\ activeCount' = activeCount + 1
    /\ push' = "idle"
    /\ UNCHANGED <<ch, disk, meta, metaDirty, full, status, restarts, pushed, refused, popped, disorderly>>

\* Push: the channel is full
PushFindsFull ==
    /\ Ready /\ pushed < conf.maxBlocks
    /\ activeCount < MaxSize
    /\ Len(ch) = MaxInmemoryBlocks
    /\ pushed' = pushed + 1
    /\ push' = "spill"
    /\ UNCHANGED <<ch, disk, meta, metaDirty, activeCount, full, status, restarts, refused, popped, disorderly>>

\* (mutant) the block is written and the channel is left as it is
PushSpillBlockOnly ==
    /\ status = "open" /\ push = "spill"
    /\ LET w == Write(disk, pushed)
       IN  /\ disk' = w.disk
           /\ activeCount' = IF w.ok THEN activeCount + 1 ELSE activeCount
           /\ refused' = IF w.ok THEN refused ELSE refused \cup {pushed}
    /\ metaDirty' = TRUE
    /\ push' = "idle"
    /\ UNCHANGED <<ch, meta, full, status, restarts, pushed, popped, disorderly>>

\* (mutant) the block is not counted
PushSpillUncounted ==
    /\ status = "open" /\ push = "spill"
    /\ disk' = Write(Drain(disk, ch).disk, pushed).disk
    /\ ch' = <<>>
    /\ metaDirty' = TRUE
    /\ push' = "idle"
    /\ UNCHANGED <<activeCount, refused, meta, full, status, restarts, pushed, popped, disorderly>>

\* Push: everything goes to the buffered writer, under the mutex; a flush may
\* have emptied the channel since
PushSpill ==
    /\ status = "open" /\ push = "spill"
    /\ LET drained == Drain(disk, ch)
           w == IF drained.ok THEN Write(drained.disk, pushed) ELSE drained
       IN  /\ disk' = w.disk
           /\ activeCount' = IF w.ok THEN activeCount + 1 ELSE activeCount
           /\ refused' = IF w.ok THEN refused ELSE refused \cup {pushed}
           /\ metaDirty' = (metaDirty \/ w.disk.writerOffset # disk.writerOffset)
    /\ ch' = <<>>
    /\ push' = "idle"
    /\ UNCHANGED <<meta, full, status, restarts, pushed, popped, disorderly>>

\* Pop: a block is read from disk
PopDisk ==
    LET r == Read(disk)
    IN  /\ Ready
        /\ r.block \notin {None, Error}
        /\ disk' = Cleanup(r.disk)
        /\ activeCount' = activeCount - 1
        /\ metaDirty' = TRUE
        /\ popped' = Append(popped, r.block)
        /\ UNCHANGED <<ch, meta, push, full, status, restarts, pushed, refused, disorderly>>

\* Pop: nothing on disk, or the read met the end of the last file
PopChannel ==
    LET r == Read(disk)
    IN  /\ Ready
        /\ r.block = None /\ ch # <<>>
        /\ disk' = r.disk
        /\ ch' = Tail(ch)
        /\ activeCount' = activeCount - 1
        /\ popped' = Append(popped, Head(ch))
        /\ UNCHANGED <<meta, metaDirty, push, full, status, restarts, pushed, refused, disorderly>>

\* Pop returns nothing, or the error of the flush
PopNothing ==
    LET r == Read(disk)
    IN  /\ Ready
        /\ r.block = Error \/ (r.block = None /\ ch = <<>>)
        /\ disk' = r.disk
        /\ UNCHANGED <<ch, meta, metaDirty, activeCount, push, full, status, restarts,
                       pushed, refused, popped, disorderly>>

\* peekBlockFromDiskLocked: an open reader is moved, and the buffer is not
\* flushed; without one the file is opened for the moment
PeekDisk(d) ==
    IF d.readerOffset >= d.writerOffset THEN [disk |-> d, block |-> None]
    ELSE LET pos == d.readerOffset % ChunkFileSize
             s == IF d.reader = Shared THEN [d EXCEPT !.writer.pos = pos]
                  ELSE IF d.reader # Unopened THEN [d EXCEPT !.reader.pos = pos]
                  ELSE [d EXCEPT !.reader = OpenAt(d.readerOffset)]
             block == IF d.reader = Unopened /\ Chunk(d.readerOffset) \notin d.dir THEN None ELSE BlockAt(s)
         IN  [disk |-> IF d.reader = Unopened THEN d ELSE IF block = None THEN s ELSE PastBlock(s),
              block |-> block]

\* Peek: from disk, or the head of the channel, which goes to its end
Peek ==
    LET r == PeekDisk(disk)
    IN  /\ "peek" \in conf.calls /\ Ready
        /\ disk' = r.disk
        /\ ch' = IF r.block = None /\ ch # <<>> THEN Append(Tail(ch), Head(ch)) ELSE ch
        /\ UNCHANGED <<meta, metaDirty, activeCount, push, full, status, restarts,
                       pushed, refused, popped, disorderly>>

-----------------------------------------------------------------------------
(* The background loops. *)

\* metaSyncLoop
SyncMeta ==
    /\ status = "open" /\ metaDirty /\ ~full
    /\ meta' = [readerOffset |-> disk.readerOffset, writerOffset |-> disk.writerOffset,
                entryCount |-> activeCount]
    /\ metaDirty' = FALSE
    /\ UNCHANGED <<ch, disk, activeCount, push, full, status, restarts, pushed, refused, popped, disorderly>>

\* staleFlushLoop: no block was written for a while
FlushStale ==
    /\ "stale_flush" \in conf.calls /\ status = "open" /\ ch # <<>>
    /\ disk' = Flush(Drain(disk, ch).disk)
    /\ metaDirty' = (metaDirty \/ disk'.writerOffset # disk.writerOffset)
    /\ ch' = <<>>
    /\ UNCHANGED <<meta, activeCount, push, full, status, restarts, pushed, refused, popped, disorderly>>

\* staleFlushLoop: only the buffered writer
FlushBuffer ==
    /\ "stale_flush" \in conf.calls /\ status = "open" /\ disk.buf # <<>>
    /\ disk' = Flush(disk)
    /\ UNCHANGED <<ch, meta, metaDirty, activeCount, push, full, status, restarts,
                   pushed, refused, popped, disorderly>>

-----------------------------------------------------------------------------
(* The life of the process. *)

\* what stays when the descriptors and the buffer are gone
OnDisk(d) == [NoDisk EXCEPT !.files = d.files, !.dir = d.dir]

\* (mutant) the metadata stays as the loop last synced it
CloseUnsynced ==
    /\ "close" \in conf.calls /\ Ready /\ restarts < conf.maxRestarts
    /\ disk' = OnDisk(Flush(Drain(disk, ch).disk))
    /\ status' = "down" /\ ch' = <<>>
    /\ activeCount' = 0 /\ metaDirty' = FALSE
    /\ disorderly' = (disorderly \/ full)
    /\ UNCHANGED <<meta, push, full, restarts, pushed, refused, popped>>

Close ==
    LET d == Flush(Drain(disk, ch).disk)
    IN  /\ "close" \in conf.calls /\ Ready /\ restarts < conf.maxRestarts
        /\ disk' = OnDisk(d)
        /\ meta' = IF full THEN meta
                   ELSE [readerOffset |-> d.readerOffset, writerOffset |-> d.writerOffset,
                         entryCount |-> activeCount]
        /\ status' = "down" /\ ch' = <<>>
        /\ activeCount' = 0 /\ metaDirty' = FALSE
        /\ disorderly' = (disorderly \/ full)
        /\ UNCHANGED <<push, full, restarts, pushed, refused, popped>>

Crash ==
    /\ "crash" \in conf.calls /\ status = "open" /\ restarts < conf.maxRestarts
    /\ disk' = OnDisk(disk)
    /\ status' = "down" /\ ch' = <<>>
    /\ activeCount' = 0 /\ metaDirty' = FALSE /\ push' = "idle"
    /\ refused' = refused \cup InPush
    /\ disorderly' = TRUE
    /\ UNCHANGED <<meta, full, restarts, pushed, popped>>

\* countEntriesOnDisk: it never comes back from the end of a file
RECURSIVE Scan(_, _)
Scan(d, offset) ==
    IF offset >= meta.writerOffset THEN 0
    ELSE IF Chunk(offset) \notin d.dir THEN Scan(d, ChunkEnd(offset))
    ELSE IF Cell(offset % ChunkFileSize) >= Len(d.files[Chunk(offset)]) THEN -1
    ELSE LET rest == Scan(d, offset + BlockBytes)
         IN  IF rest < 0 THEN -1 ELSE rest + 1

Pending == meta.readerOffset < meta.writerOffset
MustScan == Pending /\ meta.entryCount <= 0

\* recover opens the writer without O_APPEND and then moves it for the reader
Reopened(d) ==
    LET c == Chunk(meta.writerOffset)
        w == IF meta.writerOffset > 0
             THEN [d EXCEPT !.writer = OpenAt(meta.writerOffset),
                            !.files[c] = IF c \in d.dir THEN @ ELSE <<>>,
                            !.dir = @ \cup {c}]
             ELSE d
        at == [w EXCEPT !.readerOffset = meta.readerOffset, !.writerOffset = meta.writerOffset]
    IN  IF Pending THEN OpenReader(at) ELSE at

\* cleanupOrphanedChunks
Orphaned(d) == {c \in d.dir : c < Chunk(d.readerOffset) \/ c > Chunk(d.writerOffset)}

\* no metadata: a fresh queue, whatever files there are
RecoverFresh ==
    /\ status = "down" /\ meta = NoMeta
    /\ status' = "open"
    /\ restarts' = restarts + 1
    /\ UNCHANGED <<ch, disk, meta, metaDirty, activeCount, push, full, pushed, refused, popped, disorderly>>

Recover ==
    LET d == Reopened(disk)
    IN  /\ status = "down" /\ meta # NoMeta
        /\ MustScan => Scan(disk, meta.readerOffset) >= 0
        /\ restarts' = restarts + 1
        /\ status' = IF Pending /\ d.reader = Unopened THEN "failed" ELSE "open"
        /\ disk' = IF status' = "failed" THEN OnDisk(d) ELSE [d EXCEPT !.dir = @ \ Orphaned(d)]
        /\ activeCount' = IF ~Pending THEN 0
                          ELSE IF MustScan THEN Scan(disk, meta.readerOffset) ELSE meta.entryCount
        /\ UNCHANGED <<ch, meta, metaDirty, push, full, pushed, refused, popped, disorderly>>

\* the scan took longer than recoveryTimeout: everything is discarded
RecoverTimeout ==
    /\ status = "down" /\ meta # NoMeta /\ MustScan
    /\ restarts' = restarts + 1
    /\ status' = "open"
    /\ disk' = NoDisk
    /\ meta' = NoMeta
    /\ UNCHANGED <<ch, metaDirty, activeCount, push, full, pushed, refused, popped, disorderly>>

\* environment: the file system fills up, or space is freed
DiskSpace ==
    /\ "disk_full" \in conf.calls
    /\ full' = ~full
    /\ UNCHANGED <<ch, disk, meta, metaDirty, activeCount, push, status, restarts,
                   pushed, refused, popped, disorderly>>

Push == PushFull \/ PushSend \/ PushCount \/ PushFindsFull \/ PushSpill
Pop == PopDisk \/ PopChannel \/ PopNothing

Step ==
    \/ Push \/ Pop \/ Peek
    \/ SyncMeta \/ FlushStale \/ FlushBuffer
    \/ Close \/ Crash \/ RecoverFresh \/ Recover \/ RecoverTimeout
    \/ DiskSpace

Next == Step /\ UNCHANGED conf

Spec == Init /\ [][Next]_vars

-----------------------------------------------------------------------------
\* the blocks that Pop would return from disk, called again and again
RECURSIVE Readable(_)
Readable(d) ==
    LET r == Read(d)
    IN  IF r.block \in {None, Error} THEN <<>> ELSE <<r.block>> \o Readable(Cleanup(r.disk))

Contents == Readable(disk) \o ch

Accepted == (1..pushed) \ (refused \cup InPush)
Waiting == Accepted \ ToSet(popped)

\* Until a restart Pop returns blocks in the order of their pushes and none of
\* them twice, whatever is spilled, flushed and read from which layer (Peek
\* moves the head of the channel to its end).  A crash or a restart may repeat
\* what was popped since the last metadata sync, but no block comes back
\* more than once in one life of the process.
InOrder ==
    /\ restarts = 0 /\ "peek" \notin conf.calls
         => \A i, j \in DOMAIN popped : i < j => popped[i] < popped[j]
    /\ \A b \in Blocks : Cardinality({i \in DOMAIN popped : popped[i] = b}) <= restarts + 1

\* The counter that the limit is tested against is never below what the queue
\* holds, also between the send and the count of a Push: MaxSize bounds the
\* real contents of channel, buffer and files.  (A restart takes the counter
\* from the metadata.)
CountCovers ==
    status = "open" /\ restarts = 0 => Len(Contents) <= activeCount + (IF push = "count" THEN 1 ELSE 0) /\ Len(Contents) <= MaxSize

\* The chunk that the reader is in exists as long as something is unread there,
\* whatever Pop removes, and also when NewFastQueue opens what an orderly Close
\* has left behind.
ReaderChunkKept ==
    /\ status = "open" /\ disk.readerOffset < disk.writerOffset
         => Chunk(disk.readerOffset) \in disk.dir \cup {Chunk(disk.writerOffset)}
    /\ status = "failed" => disorderly

\* Every accepted block is returned by Pop, in order: what was popped and what
\* Pop would still return are together the accepted blocks.
NothingSkipped ==
    status = "open" => Waiting = ToSet(Contents)

-----------------------------------------------------------------------------
(* For model checking: nothing but Push and Pop. *)
Quiet == {[calls |-> {}, maxBlocks |-> 6, maxRestarts |-> 0]}
==============================================================================
