------------------------------ MODULE BatchSplit ------------------------------
(***************************************************************************)
(* The byte splitter of the flush path (internal/buffer/splitter.go).  A   *)
(* batch is a sequence of entries; SizeOf is the serialized size of one.   *)
(***************************************************************************)
EXTENDS Integers, Sequences, FiniteSetsExt

CONSTANT SizeOf(_)

defaultMaxSplitDepth == 4

BatchBytes(batch) == MapThenSumSet(LAMBDA i : SizeOf(batch[i]), DOMAIN batch)

DepthLimit(depth) == depth >= defaultMaxSplitDepth

\* (mutant) the right half starts one entry late
RightHalfLate(batch, mid) == SubSeq(batch, mid + 2, Len(batch))

RightHalf(batch, mid) == SubSeq(batch, mid + 1, Len(batch))

RECURSIVE splitWithCachedSizes(_, _, _)
splitWithCachedSizes(batch, maxBytes, depth) ==
    IF \/ Len(batch) <= 1
       \/ BatchBytes(batch) <= maxBytes
       \/ DepthLimit(depth)
    THEN <<batch>>
    ELSE LET mid == Len(batch) \div 2
         IN  splitWithCachedSizes(SubSeq(batch, 1, mid), maxBytes, depth + 1)
               \o splitWithCachedSizes(RightHalf(batch, mid), maxBytes, depth + 1)

splitByBytes(batch, maxBytes) ==
    IF maxBytes <= 0 \/ Len(batch) <= 1
    THEN <<batch>>
    ELSE splitWithCachedSizes(batch, maxBytes, 0)
==============================================================================
