----------------------------- MODULE MCAlgorithms -----------------------------
(***************************************************************************)
(* The sequential algorithms, for model checking: the                      *)
(* downsampling methods, the accumulators of an aggregation group, the     *)
(* relabelling of a batch and the protobuf codecs.  unit says which of     *)
(* them a behaviour is about; the others stay in their initial state.      *)
(***************************************************************************)
EXTENDS Integers, Sequences

CONSTANTS
    Methods, Window, Deviation, Wrap, MaxOneIn, Stamps, Vals, MaxPoints,
    Reservoir, Seconds, AccVals, MaxAdds, MaxWindows,
    MaxBatch, MaxEdits,
    Schemas, OtlpTypes, Depth

VARIABLES
    unit,
    method, proc, input, output, lost,
    acc, window, windows,
    configs, held, batch, given, used, result, edits,
    type, msg, older, data, stage, back

dsVars == <<method, proc, input, output, lost>>
accVars == <<acc, window, windows>>
relabelVars == <<configs, held, batch, given, used, result, edits>>
wireVars == <<type, msg, older, data, stage, back>>
algVars == <<dsVars, accVars, relabelVars, wireVars>>

-----------------------------------------------------------------------------
(* Downsampling *)

DS == INSTANCE Downsample

\* What downsampling emits stands for what it was given: the windows of an
\* aggregating method partition its points and each emission is the value of the
\* method over its window, every closed bucket of lttb but the last is emitted
\* as one of its points, and what sdt leaves out lies within twice the
\* deviation of the line between the points it emitted.
DownsamplingSound ==
    unit = "downsample" => DS!WindowsPartition /\ DS!BucketsRepresented /\ DS!WithinTwice

-----------------------------------------------------------------------------
(* Accumulators *)

Acc == INSTANCE Accumulators

\* The one-pass results are those of the definitions over the window alone, and
\* quantiles from the reservoir are ordered and within the extremes.
AccumulatorsSound == unit = "accumulate" => Acc!OnePass /\ Acc!QuantilesSound

-----------------------------------------------------------------------------
(* Relabelling *)

Rule == [action |-> "replace", sources |-> <<"__name__">>, target |-> "", regex |-> {}, replacement |-> << >>,
         modulus |-> 0]

\* By name: m becomes n, x loses its name; the environment is copied, moved and hashed.
ByNameRules == <<
    [Rule EXCEPT !.target = "__name__", !.replacement = [v \in {<<"m">>, <<"x">>} |-> IF v = <<"m">> THEN "n" ELSE ""]],
    [Rule EXCEPT !.action = "drop", !.sources = <<"env", "absent">>, !.regex = {<<"dev", "">>}],
    [Rule EXCEPT !.action = "labelmap", !.replacement = [k \in {"env"} |-> "stage"]],
    [Rule EXCEPT !.action = "hashmod", !.sources = <<"stage">>, !.target = "shard", !.modulus = 2,
                 !.replacement = [v \in {<<"dev">>, <<"prod">>, <<"">>} |-> "1"]],
    [Rule EXCEPT !.action = "labeldrop", !.regex = {"env"}]>>

\* By the environment: only some of the points are renamed.
ByLabelRules == <<
    [Rule EXCEPT !.target = "__name__", !.sources = <<"env">>, !.replacement = [v \in {<<"dev">>} |-> "d"]],
    [Rule EXCEPT !.action = "keep", !.regex = {<<"m">>, <<"d">>}],
    [Rule EXCEPT !.action = "labelkeep", !.regex = {"env"}],
    [Rule EXCEPT !.action = "labelmap", !.replacement = [k \in {"env", "__name__"} |-> IF k = "env" THEN "a" ELSE "env"]],
    [Rule EXCEPT !.action = "labeldrop", !.regex = {"__name__"}],
    [Rule EXCEPT !.action = "unknown"]>>

RuleSets == <<[compiles |-> TRUE, rules |-> ByNameRules], [compiles |-> TRUE, rules |-> ByLabelRules],
              [compiles |-> TRUE, rules |-> <<>>], [compiles |-> FALSE, rules |-> <<>>]>>

Env(v) == [k \in {"env"} |-> v]

Metrics == {[name |-> "m", data |-> TRUE, points |-> <<Env("dev"), Env("prod"), << >>>>],
            [name |-> "x", data |-> TRUE, points |-> <<Env("dev"), Env("prod"), << >>>>],
            [name |-> "m", data |-> TRUE, points |-> <<>>],
            [name |-> "m", data |-> FALSE, points |-> <<>>]}

Re == INSTANCE Relabel

\* With rules that rename by name, every datapoint kept carries the name that
\* its metric is sent under, or the empty name that extractName passes over.
OneName == unit = "relabel" => Re!OneName

-----------------------------------------------------------------------------
(* The protobuf codecs *)

Codec == INSTANCE Wire

\* A message that arrives is the message that was sent, and SizeVT is the number
\* of bytes that MarshalVT writes.
WireSound == unit = "wire" => Codec!RoundTrip /\ Codec!SizeExact

-----------------------------------------------------------------------------
AlgInit ==
    /\ DS!Init /\ (unit = "downsample" \/ method = "avg")
    /\ Acc!Init
    /\ Re!Init /\ (unit = "relabel" \/ configs = 1)
    /\ IF unit = "wire" THEN Codec!Init
       ELSE type = "" /\ msg = <<>> /\ older = <<>> /\ data = <<>> /\ stage = "" /\ back = <<>>

AlgNext ==
    \/ unit = "downsample" /\ DS!Next /\ UNCHANGED <<accVars, relabelVars, wireVars>>
    \/ unit = "accumulate" /\ Acc!Next /\ UNCHANGED <<dsVars, relabelVars, wireVars>>
    \/ unit = "relabel" /\ Re!Next /\ UNCHANGED <<dsVars, accVars, wireVars>>
    \/ unit = "wire" /\ Codec!Next /\ UNCHANGED <<dsVars, accVars, relabelVars>>
===============================================================================
