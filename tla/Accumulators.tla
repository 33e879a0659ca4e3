---------------------------- MODULE Accumulators ----------------------------
(***************************************************************************)
(* The accumulators of an aggregation group:                               *)
(* internal/sampling/accumulators.go.  A group has one per function of its *)
(* rule, adds each value to all of them (aggregate.go, Ingest), takes      *)
(* their results at a flush and resets them for the next window.           *)
(*                                                                         *)
(* Values are integers, and quotients exact fractions <<n, d>>.  The       *)
(* reservoir of the quantiles replaces a position chosen at random.        *)
(***************************************************************************)
EXTENDS Integers, Sequences, SequencesExt, FiniteSetsExt

CONSTANTS
    Reservoir,    \* maxQuantileSamples (10000)
    Seconds,      \* the window of the rate, in seconds
    AccVals,      \* values added
    MaxAdds,      \* bound on the values of a window
    MaxWindows    \* bound on the flushes

VARIABLES acc, window, windows

vars == <<acc, window, windows>>

Empty == [sum |-> 0, count |-> 0, min |-> 0, max |-> 0, last |-> 0, first |-> 0, hasData |-> FALSE,
          mean |-> <<0, 1>>, m2 |-> <<0, 1>>, values |-> <<>>]

\* Fractions with a positive denominator.
Plus(a, b) == <<a[1] * b[2] + b[1] * a[2], a[2] * b[2]>>

Minus(a, b) == Plus(a, <<-b[1], b[2]>>)

Times(a, b) == <<a[1] * b[1], a[2] * b[2]>>

Same(a, b) == a[1] * b[2] = b[1] * a[2]

\* The same fraction in lowest terms.
Reduced(a) ==
    LET n == IF a[1] < 0 THEN -a[1] ELSE a[1]
        g == Max({x \in 1..(IF n < a[2] /\ n > 0 THEN n ELSE a[2]) : n % x = 0 /\ a[2] % x = 0})
    IN  <<a[1] \div g, a[2] \div g>>

\* sum, avg, min, max, count, last, increase and rate.
AddPlain(a, v) ==
    [a EXCEPT !.sum = @ + v, !.count = @ + 1, !.last = v, !.hasData = TRUE,
              !.min = IF ~a.hasData \/ v < @ THEN v ELSE @,
              !.max = IF ~a.hasData \/ v > @ THEN v ELSE @,
              !.first = IF a.hasData THEN @ ELSE v]

\* (mutant) The square of the distance from the old mean.
AddWelfordOld(a, v) ==
    LET delta == Minus(<<v, 1>>, a.mean)
        mean == Reduced(Plus(a.mean, Times(delta, <<1, a.count + 1>>)))
    IN  [a EXCEPT !.mean = mean, !.m2 = Reduced(Plus(@, Times(delta, delta)))]

\* stddev and stdvar: Welford's recurrence.
AddWelford(a, v) ==
    LET delta == Minus(<<v, 1>>, a.mean)
        mean == Reduced(Plus(a.mean, Times(delta, <<1, a.count + 1>>)))
    IN  [a EXCEPT !.mean = mean, !.m2 = Reduced(Plus(@, Times(delta, Minus(<<v, 1>>, mean))))]

\* quantiles: j is the position drawn (counted from 0).
AddQuantiles(a, v, j) ==
    [a EXCEPT !.values = IF Len(@) < Reservoir THEN Append(@, v)
                         ELSE IF j < Reservoir THEN [@ EXCEPT ![j + 1] = v] ELSE @]

\* The results.
Variance(a) == IF a.count < 2 THEN <<0, 1>> ELSE <<a.m2[1], a.m2[2] * a.count>>

Average(a) == IF a.count = 0 THEN <<0, 1>> ELSE <<a.sum, a.count>>

Increase(a) == IF a.hasData THEN a.last - a.first ELSE 0

Rate(a) == IF ~a.hasData \/ Seconds <= 0 THEN <<0, 1>> ELSE <<a.last - a.first, Seconds>>

\* quantileFromSorted, for the quantile q / 100.
quantileFromSorted(sorted, q) ==
    LET n == Len(sorted)
        idx == q * (n - 1)
        lower == idx \div 100
        frac == idx % 100
    IN  CASE n = 0 -> <<0, 1>>
          [] n # 0 /\ q <= 0 -> <<sorted[1], 1>>
          [] n # 0 /\ q >= 100 -> <<sorted[n], 1>>
          [] n # 0 /\ q \in 1..99 /\ lower + 1 >= n -> <<sorted[lower + 1], 1>>
          [] OTHER -> <<sorted[lower + 1] * (100 - frac) + sorted[lower + 2] * frac, 100>>

Quantile(a, q) == quantileFromSorted(SortSeq(a.values, <), q)

Init == acc = Empty /\ window = <<>> /\ windows = 0

Add(v, j) ==
    /\ Len(window) < MaxAdds
    /\ acc' = AddPlain(AddWelford(AddQuantiles(acc, v, j), v), v)
    /\ window' = Append(window, v)
    /\ UNCHANGED windows

\* A flush resets the accumulators of every group that has a value.
Reset ==
    /\ window # <<>>
    /\ windows < MaxWindows
    /\ acc' = Empty
    /\ window' = <<>>
    /\ windows' = windows + 1

Next == (\E v \in AccVals, j \in 0..Len(window) : Add(v, j)) \/ Reset

Spec == Init /\ [][Next]_vars

--------------------------------------------------------------------------
(* Properties. *)

Total(s) == FoldLeft(LAMBDA a, x : a + x, 0, s)

\* The one-pass results are those of the definitions over the values of the
\* window, and nothing of the window before is left in them: the variance is
\* the mean of the squared distances from the mean, the extremes are those of
\* the window, and the increase and the rate are those of a counter as long as
\* it is not reset within the window.
OnePass ==
    LET n == Len(window)
        squares == [i \in DOMAIN window |-> (n * window[i] - Total(window)) * (n * window[i] - Total(window))]
    IN  n > 0 =>
            /\ n > 1 => Same(Variance(acc), <<Total(squares), n * n * n>>)
            /\ Same(Average(acc), <<Total(window), n>>)
            /\ acc.min = Min(ToSet(window)) /\ acc.max = Max(ToSet(window))
            /\ (\A i \in 2..n : window[i - 1] <= window[i]) =>
                   LET grown == Total([i \in 1..(n - 1) |-> window[i + 1] - window[i]])
                   IN  Increase(acc) = grown /\ Same(Rate(acc), <<grown, Seconds>>)

\* Whatever the reservoir drops, a quantile lies between the extremes of the
\* window, grows with q, and without drops the ends are the extremes.
QuantilesSound ==
    LET Q(q) == Quantile(acc, q)
        Le(a, b) == a[1] * b[2] <= b[1] * a[2]
    IN  window # <<>> =>
            /\ Len(acc.values) = Min({Len(window), Reservoir})
            /\ \A q \in {0, 30, 50, 99} : Le(Q(q), Q(q + 1)) /\ Le(<<acc.min, 1>>, Q(q)) /\ Le(Q(q + 1), <<acc.max, 1>>)
            /\ Len(window) <= Reservoir => Same(Q(0), <<acc.min, 1>>) /\ Same(Q(100), <<acc.max, 1>>)
=============================================================================
