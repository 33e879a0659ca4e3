----------------------------- MODULE Downsample -----------------------------
(***************************************************************************)
(* The downsample engine: internal/sampling/downsample.go.                 *)
(*                                                                         *)
(* The engine keeps one processor per series; here the series is one, and  *)
(* the rule it falls under has any of the methods.  Values and timestamps  *)
(* are integers, and what the code computes with floating point is done    *)
(* with exact fractions: a slope is <<rise, run>>, the areas that choose a *)
(* point are scaled by the size of the bucket.  The rate that the adaptive *)
(* method derives from the coefficient of variation is any rate between    *)
(* its two bounds.                                                         *)
(***************************************************************************)
EXTENDS Integers, Sequences, SequencesExt, FiniteSetsExt

CONSTANTS
    Methods,      \* the methods of the rules
    Window,       \* window of the aggregating methods (and bucket of lttb)
    Deviation,    \* deadband of sdt
    Wrap,         \* number of timestamps: 2^64 in the code
    MaxOneIn,     \* adaptive: int64(1 / minRate)
    Stamps, Vals,  \* timestamps and values of the points
    MaxPoints     \* bound on the points of the series

VARIABLES
    method,       \* the rule's method
    proc,         \* the series processor, or None
    input,        \* ghost: the points ingested so far
    output,       \* ghost: what was emitted, with the points it stands for
    lost          \* ghost: points that went with a processor that was removed

vars == <<method, proc, input, output, lost>>

None == [kind |-> "none"]

Sum(s) == FoldLeft(LAMBDA acc, x : acc + x, 0, s)

Abs(x) == IF x < 0 THEN -x ELSE x

ValuesOf(points) == [i \in DOMAIN points |-> points[i].v]

--------------------------------------------------------------------------
(* avg, min, max, sum, count, last, delta *)

Aggregating == {"avg", "min", "max", "sum", "count", "last", "delta"}

EmptyWindow == [kind |-> "agg", hasData |-> FALSE, count |-> 0, sum |-> 0, min |-> 0, max |-> 0,
                last |-> 0, first |-> 0, end |-> 0, of |-> <<>>]

\* An average is <<sum, count>>.
aggregate(a) ==
    CASE method = "avg"   -> <<a.sum, a.count>>
      [] method = "min"   -> a.min
      [] method = "max"   -> a.max
      [] method = "sum"   -> a.sum
      [] method = "count" -> a.count
      [] method = "last"  -> a.last
      [] method = "delta" -> a.last - a.first

aggIngest(a, p) ==
    LET end == (p.t \div Window) * Window + Window
        crossed == a.hasData /\ end # a.end
        base == IF a.hasData /\ ~crossed THEN a
                ELSE [EmptyWindow EXCEPT !.end = end, !.first = p.v, !.min = p.v, !.max = p.v, !.hasData = TRUE]
    IN  [proc |-> [base EXCEPT !.count = @ + 1, !.sum = @ + p.v, !.last = p.v, !.of = Append(@, p),
                               !.min = IF p.v < @ THEN p.v ELSE @, !.max = IF p.v > @ THEN p.v ELSE @],
         emit |-> IF crossed THEN <<[t |-> a.end - 1, v |-> aggregate(a), of |-> a.of]>> ELSE <<>>]

--------------------------------------------------------------------------
(* lttb: of each bucket one point, emitted when the bucket after it closes *)

EmptyLTTB == [kind |-> "lttb", prev |-> <<>>, bucket |-> <<>>, start |-> 0]

\* The first point with the largest score.
BestBy(bucket, Score(_)) ==
    bucket[CHOOSE i \in DOMAIN bucket :
              /\ \A j \in DOMAIN bucket : Score(bucket[j]) <= Score(bucket[i])
              /\ \A j \in 1..(i - 1) : Score(bucket[j]) < Score(bucket[i])]

\* Twice the area of the triangle, times the number of points in the bucket.
selectBest(l) ==
    LET n == Len(l.bucket)
        sumV == Sum(ValuesOf(l.bucket))
        sumT == Sum([i \in DOMAIN l.bucket |-> l.bucket[i].t])
        prev == l.prev[1]
        Deviates(p) == Abs(n * p.v - sumV)
        Area(p) == Abs(prev.t * (n * p.v - sumV) + p.t * (sumV - n * prev.v) + sumT * (prev.v - p.v))
    IN  IF l.prev = <<>> THEN BestBy(l.bucket, Deviates) ELSE BestBy(l.bucket, Area)

lttbIngest(l, p) ==
    LET start == (p.t \div Window) * Window
    IN  IF l.bucket = <<>> THEN [proc |-> [l EXCEPT !.bucket = <<p>>, !.start = start], emit |-> <<>>]
        ELSE IF start = l.start THEN [proc |-> [l EXCEPT !.bucket = Append(@, p)], emit |-> <<>>]
        ELSE [proc |-> [l EXCEPT !.prev = <<selectBest(l)>>, !.bucket = <<p>>, !.start = start],
              emit |-> [i \in DOMAIN l.prev |-> [t |-> l.prev[i].t, v |-> l.prev[i].v, of |-> l.prev]]]

--------------------------------------------------------------------------
(* sdt: a corridor of slopes from the last emitted point *)

EmptySDT == [kind |-> "sdt", lastEmitted |-> <<>>, lastPoint |-> <<>>, upper |-> <<0, 1>>, lower |-> <<0, 1>>,
             open |-> FALSE]

Less(a, b) == a[1] * b[2] < b[1] * a[2]

\* A difference of unsigned timestamps: negative ones wrap around.
Elapsed(t, since) == (t - since) % Wrap

\* (mutant) The deviation counted twice above the value.
UpperTwice(e, p) == <<p.v - e.v + 2 * Deviation, Elapsed(p.t, e.t)>>

\* The corridor that point p leaves when seen from point e.
Upper(e, p) == <<p.v - e.v + Deviation, Elapsed(p.t, e.t)>>

Lower(e, p) == <<p.v - e.v - Deviation, Elapsed(p.t, e.t)>>

sdtIngest(s, p) ==
    LET e == s.lastEmitted[1]
        last == s.lastPoint[1]
        upper == IF Less(Upper(e, p), s.upper) THEN Upper(e, p) ELSE s.upper
        lower == IF Less(s.lower, Lower(e, p)) THEN Lower(e, p) ELSE s.lower
    IN  IF s.lastEmitted = <<>>
          THEN [proc |-> [s EXCEPT !.lastEmitted = <<p>>, !.lastPoint = <<p>>],
                emit |-> <<[t |-> p.t, v |-> p.v, of |-> <<p>>]>>]
        ELSE IF p.t <= e.t THEN [proc |-> s, emit |-> <<>>]
        ELSE IF ~s.open
          THEN [proc |-> [s EXCEPT !.upper = Upper(e, p), !.lower = Lower(e, p), !.open = TRUE, !.lastPoint = <<p>>],
                emit |-> <<>>]
        ELSE IF Less(upper, lower)
          THEN [proc |-> IF Elapsed(p.t, last.t) > 0
                         THEN [s EXCEPT !.lastEmitted = <<last>>, !.lastPoint = <<p>>,
                                        !.upper = Upper(last, p), !.lower = Lower(last, p)]
                         ELSE [s EXCEPT !.lastEmitted = <<last>>, !.lastPoint = <<p>>, !.open = FALSE,
                                        !.upper = upper, !.lower = lower],
                emit |-> <<[t |-> last.t, v |-> last.v, of |-> <<last>>]>>]
        ELSE [proc |-> [s EXCEPT !.upper = upper, !.lower = lower, !.lastPoint = <<p>>], emit |-> <<>>]
--------------------------------------------------------------------------
(* adaptive: one point in n, n as the variation of the values has it now *)

EmptyAdaptive == [kind |-> "adaptive", ops |-> 0]

adaptiveIngest(a, p, n) ==
    [proc |-> [a EXCEPT !.ops = @ + 1],
     emit |-> IF (a.ops + 1) % n = 0 THEN <<[t |-> p.t, v |-> p.v, of |-> <<p>>]>> ELSE <<>>]

--------------------------------------------------------------------------
(* The engine. *)

createProcessor ==
    CASE method \in Aggregating -> EmptyWindow
      [] method = "lttb" -> EmptyLTTB
      [] method = "sdt" -> EmptySDT
      [] method = "adaptive" -> EmptyAdaptive

Init ==
    /\ method \in Methods
    /\ proc = None
    /\ input = <<>>
    /\ output = <<>>
    /\ lost = 0

\* ingestAndEmit for a point; at most one point is emitted for it.
Ingest(p, n) ==
    LET old == IF proc = None THEN createProcessor ELSE proc
        res == CASE old.kind = "agg" -> aggIngest(old, p)
                 [] old.kind = "lttb" -> lttbIngest(old, p)
                 [] old.kind = "sdt" -> sdtIngest(old, p)
                 [] old.kind = "adaptive" -> adaptiveIngest(old, p, n)
    IN  /\ Len(input) < MaxPoints
        /\ proc' = res.proc
        /\ input' = Append(input, p)
        /\ output' = output \o res.emit
        /\ UNCHANGED <<method, lost>>

\* cleanupAll (and a reload, which makes a new engine): what the processor holds
\* goes.  At most once in a behaviour.
CleanupAll ==
    /\ proc # None
    /\ lost = 0
    /\ proc' = None
    /\ lost' = Len(input)
    /\ UNCHANGED <<method, input, output>>

Next ==
    \/ \E p \in [t : Stamps, v : Vals], n \in 1..(IF method = "adaptive" THEN MaxOneIn ELSE 1) : Ingest(p, n)
    \/ CleanupAll

Spec == Init /\ [][Next]_vars

--------------------------------------------------------------------------
(* Properties. *)

Ascending == \A i \in 1..(Len(input) - 1) : input[i].t < input[i + 1].t

Reference(points) ==
    LET vs == ValuesOf(points)
    IN  CASE method = "avg" -> <<Sum(vs), Len(vs)>>
          [] method = "min" -> Min(ToSet(vs))
          [] method = "max" -> Max(ToSet(vs))
          [] method = "sum" -> Sum(vs)
          [] method = "count" -> Len(vs)
          [] method = "last" -> vs[Len(vs)]
          [] method = "delta" -> vs[Len(vs)] - vs[1]

\* Windows of points that arrive in any order (aggProcessor.ingest): what was
\* emitted and what is pending are the points of the processor, each once and
\* in order; an emission has the value of its method over its own points, and
\* all of them belong to the window it is stamped with.
WindowsPartition ==
    proc.kind = "agg" /\ lost = 0 =>
        /\ FlattenSeq([i \in DOMAIN output |-> output[i].of]) \o proc.of = input
        /\ \A e \in ToSet(output) :
               /\ e.v = Reference(e.of)
               /\ \A p \in ToSet(e.of) : p.t \div Window = e.t \div Window

\* Points in the order of their timestamps, through lttb: every bucket that is
\* closed, but the last, has been emitted as one of its own points; the spike
\* of a bucket is never lost to a flat neighbour (selectBest).
BucketsRepresented ==
    proc.kind = "lttb" /\ lost = 0 /\ Ascending =>
        LET Bucket(p) == p.t \div Window
            closed == {Bucket(p) : p \in ToSet(input)} \ {Bucket(Last(input))}
            shown == [i \in DOMAIN output |-> Bucket(output[i])]
        IN  /\ ToSet(shown) = closed \ (IF closed = {} THEN {} ELSE {Max(closed)})
            /\ IsSorted(shown, <)
            /\ \A e \in ToSet(output) : [t |-> e.t, v |-> e.v] \in ToSet(input)

\* Points in the order of their timestamps, through sdt: a point that was not
\* emitted lies off the line between its emitted neighbours by less than twice
\* the deviation.  (Once does not hold: the emitted end of a segment is a real
\* point, which need not lie in the corridor of the points before it.)
WithinTwice ==
    proc.kind = "sdt" /\ lost = 0 /\ Ascending =>
        \A i \in 1..(Len(output) - 1) : \A p \in ToSet(input) :
            LET a == output[i]
                b == output[i + 1]
            IN  a.t <= p.t /\ p.t <= b.t =>
                    Abs((p.v - a.v) * (b.t - a.t) - (b.v - a.v) * (p.t - a.t)) < 2 * Deviation * (b.t - a.t)
=============================================================================
