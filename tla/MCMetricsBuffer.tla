--------------------------- MODULE MCMetricsBuffer ---------------------------
(* Model-checking instances of the buffer: two producers, one of them the     *)
(* aggregation flush.                                                         *)
EXTENDS MetricsBuffer

Config(policy, bytes, sizes, calls) ==
    [fullPolicy |-> policy, maxBufferBytes |-> bytes, sizes |-> sizes, maxAdds |-> calls]

\* reject needs the longest behaviours, to reach the bound of the overshoot;
\* drop_oldest needs two sizes, to evict more than one entry at a time
AllPolicies ==
    {Config("reject", 1, {1}, 5), Config("block", 1, {1}, 4),
     Config("drop_oldest", 2, {1, 2}, 3)}

Blocking == {Config("block", 1, {1}, 3)}
==============================================================================
