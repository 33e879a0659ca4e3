-------------------------------- MODULE Sums --------------------------------
(* Sums of byte counts. *)
LOCAL INSTANCE Integers

\* the sum of the first n of the numbers in s
Prefix(s, n) == LET sum[i \in 0..n] == IF i = 0 THEN 0 ELSE sum[i - 1] + s[i] IN sum[n]
=============================================================================
