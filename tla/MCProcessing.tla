---------------------------- MODULE MCProcessing ----------------------------
(***************************************************************************)
(* The processing rules at work, with workers, reloads and flush loops;    *)
(* and the sequential algorithms that they and the codecs use              *)
(* (MCAlgorithms).  unit says which of them a behaviour is about; the      *)
(* others stay in their initial state.                                     *)
(***************************************************************************)
EXTENDS Processing

CONSTANTS
    Units,
    Methods, Window, Deviation, Wrap, MaxOneIn, Stamps, Vals, MaxPoints,
    Reservoir, Seconds, AccVals, MaxAdds, MaxWindows,
    MaxBatch, MaxEdits, Schemas, OtlpTypes, Depth

VARIABLES
    unit,
    method, proc, input, output, lost, acc, window, windows,
    configs, inProcess, relabelled, given, used, result, edits,
    type, msg, older, data, stage, back

algVars == <<method, proc, input, output, lost, acc, window, windows, configs, inProcess, relabelled,
             given, used, result, edits, type, msg, older, data, stage, back>>


\* The metric names.
m == <<"m">>

n == <<"n">>

Rule == [name |-> "", owner |-> {}, given |-> {"input"}, bad |-> {}, input |-> {m, n},
         pattern |-> <<"[", "m", "n", "]">>, inputPrefix |-> <<>>, labels |-> << >>, action |-> "drop", strategy |-> "", rate |-> 5,
         method |-> "", interval |-> 1, deviation |-> 0, functions |-> <<>>, parsedFunctions |-> <<>>,
         groupBy |-> {}, dropLabels |-> {}, keepInput |-> FALSE, when |-> <<>>, operations |-> <<>>,
         compiledOps |-> <<>>, classify |-> <<>>]

File == [yaml |-> TRUE, given |-> {}, bad |-> {}, staleness |-> 10, dead |-> 0, required |-> {},
         strategy |-> "", defaultRate |-> 0, catchAll |-> [Rule EXCEPT !.name = "default"], rules |-> <<>>]

Values == 0..3

Op(kind, more) == [op |-> kind, kinds |-> {kind}, given |-> Needs[kind], bad |-> {}] @@ more

From(s, t, f) == [source |-> s, target |-> t, f |-> f]

Up == [v \in Values |-> IF v = 3 THEN 3 ELSE v + 1]

\* One operation of each kind.
Ops1 == <<
    Op("set", [target |-> "team", value |-> [ref |-> "env", lit |-> 0]]),
    Op("copy", [source |-> "team", target |-> "squad"]),
    Op("rename", [source |-> "squad", target |-> "unit"]),
    Op("replace", [target |-> "unit", f |-> Up])>>

Ops2 == <<
    Op("lower", [target |-> "unit", f |-> Up]),
    Op("upper", [target |-> "absent", f |-> Up]),
    Op("extract", From("unit", "part", [v \in Values |-> IF v = 3 THEN 1 ELSE NoMatch])),
    Op("hash_mod", From("team", "shard", Up))>>

Ops3 == <<
    Op("math", From("shard", "shard", Up)),
    Op("concat", [sources |-> <<"team", "env">>, target |-> "both", f |-> [v \in Values \X Values |-> v[1]]]),
    Op("map", [source |-> "env", target |-> "tier", default |-> 0, entries |-> <<[pattern |-> {1}, value |-> 2]>>]),
    Op("remove", [labels |-> {"both", "part"}])>>

Transform == [Rule EXCEPT !.name = "t", !.action = "transform", !.labels = [e \in {"env"} |-> {1}],
    !.when = <<[label |-> "env", equals |-> 0, contains |-> Values, matches |-> {1, 2}, notMatches |-> {3}, bad |-> FALSE]>>,
    !.operations = Ops1]

Transform2 == [Rule EXCEPT !.name = "u", !.action = "transform", !.input = {m}, !.pattern = m, !.operations = Ops2]

Transform3 == [Transform2 EXCEPT !.name = "v", !.operations = Ops3]

Classify == [Rule EXCEPT !.name = "c", !.action = "classify", !.given = {"input", "classify"},
    !.classify = [
        chains |-> <<[conditions |-> Transform.when,
                      set |-> {[k |-> "team", t |-> [ref |-> "", lit |-> 2]], [k |-> "tier", t |-> [ref |-> "env", lit |-> 0]]}]>>,
        mappings |-> <<[target |-> "tier", sources |-> <<"tier">>, join |-> << >>, dflt |-> 0, bad |-> FALSE,
                        entries |-> <<[pattern |-> {1, 2}, value |-> 3]>>]>>,
        removeAfter |-> {"team"}]]

\* A label condition that the labels set by Transform would meet.
Guarded == [Rule EXCEPT !.name = "g", !.input = {m}, !.pattern = m, !.labels = [e \in {"team"} |-> {1}]]

Aggregate == [Rule EXCEPT !.name = "a", !.action = "aggregate", !.input = {m}, !.pattern = m,
    !.given = {"input", "interval", "group_by"}, !.groupBy = {"env"}, !.functions = <<"sum">>]

Downsample == [Rule EXCEPT !.name = "d", !.action = "downsample", !.input = {n}, !.pattern = <<"[", "n", "]">>, !.method = "avg",
    !.given = {"input", "interval"}]

Sampled == [Rule EXCEPT !.name = "s", !.action = "sample", !.input = {n}, !.pattern = <<"[", "n", "]">>]

Dropped == [Rule EXCEPT !.name = "x", !.input = {n}, !.pattern = <<"[", "n", "]">>]

Legacy == [File EXCEPT !.given = {"default_rate"}, !.defaultRate = 10,
    !.rules = <<[Rule EXCEPT !.name = "old", !.action = "", !.input = {n}, !.pattern = <<"[", "n", "]">>, !.rate = 0]>>]

MCFiles == <<[File EXCEPT !.rules = <<Transform, Transform2, Transform3, Guarded, Sampled, Aggregate>>],
            [File EXCEPT !.rules = <<Aggregate, Classify, Downsample>>],
            Legacy,
            [File EXCEPT !.rules = <<Dropped, Dropped>>]>>

Pt(id, name, env, number) == [id |-> id, name |-> name, attrs |-> <<[k |-> "env", v |-> env]>>, number |-> number]

\* Numbers of two metrics, shorter streams of numbers and of points that are not
\* numbers, and one of points that are aggregated.
Mixed == <<Pt(1, m, 1, TRUE), Pt(2, n, 2, TRUE), Pt(3, m, 1, TRUE)>>

Pair == <<Pt(1, m, 1, TRUE), Pt(2, n, 2, TRUE)>>

Others == <<Pt(1, m, 1, FALSE), Pt(2, n, 2, FALSE)>>

Aggregated == <<Pt(1, m, 1, TRUE), Pt(2, m, 1, TRUE)>>

MCStreams == {Mixed, Pair, Others, Aggregated}

-----------------------------------------------------------------------------
(* The sequential algorithms *)

\* The messages of both protocols.
Messages == INSTANCE WireSchemas

MCSchemas == Messages!OtlpSchemas @@ Messages!PRWSchemas

MCOtlpTypes == DOMAIN Messages!OtlpSchemas

Alg == INSTANCE MCAlgorithms WITH held <- inProcess, batch <- relabelled

\* Downsampled points stand for what was given (Downsample).
DownsamplingSound == Alg!DownsamplingSound

\* Aggregates are those of the definitions (Accumulators).
AccumulatorsSound == Alg!AccumulatorsSound

\* With rules that rename by name, every datapoint kept carries the name that
\* its metric is sent under, or the empty name that is passed over (Relabel).
OneName == Alg!OneName

\* A message that arrives is the message that was sent (Wire).
WireSound == Alg!WireSound

-----------------------------------------------------------------------------
\* The rules run in two units: one in which the process stays up, and one with
\* the shutdown, which starts with a file whose first rule aggregates.  The
\* longer stream of numbers starts with the first file and meets the others
\* after a reload.
MCInit ==
    /\ unit \in Units /\ Init
    /\ CASE unit = "rules" -> (Points = Mixed /\ procRules = 1) \/ Points \in {Pair, Others}
         [] unit = "shutdown" -> Points = Aggregated /\ procRules = 2
         [] OTHER -> procRules = 1 /\ Points = Mixed
    /\ Alg!AlgInit

Processes(A) == unit \in {"rules", "shutdown"} /\ A /\ (unit = "rules" => UNCHANGED main) /\ UNCHANGED <<unit, algVars>>
MCNext == Processes(Next) \/ (Alg!AlgNext /\ UNCHANGED <<unit, vars>>)

allVars == <<unit, vars, algVars>>
MCSpec ==
    /\ MCInit /\ [][MCNext]_allVars
    /\ \A s \in 1..(MaxReloads + 1) : WF_vars(LoopStep(s))
    /\ WF_vars(ReloadStep)
    /\ WF_vars(ShutdownStep)
=============================================================================
