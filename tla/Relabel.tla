------------------------------ MODULE Relabel ------------------------------
(***************************************************************************)
(* Prometheus-style relabelling of a batch: internal/relabel/relabel.go.   *)
(*                                                                         *)
(* The labels of a datapoint are a function from keys to values, as the    *)
(* map of the code; "" is the empty value, also read for an absent label   *)
(* and for an attribute that is not a string.  A regular expression is the *)
(* set of what it matches: sequences of source values, or keys; the        *)
(* replacement is the function it computes on those.  A Go map is ranged   *)
(* over in any order, and a key inserted meanwhile may or may not come up. *)
(*                                                                         *)
(* Batches are relabelled one after the other while the rules are          *)
(* reloaded.                                                               *)
(***************************************************************************)
EXTENDS Integers, Sequences, SequencesExt, FiniteSets, FiniteSetsExt

CONSTANTS
    RuleSets,     \* contents of the relabel file: a sequence of [compiles, rules]
    Metrics,      \* metrics that may arrive: [name, data, points], points a sequence of label functions
    MaxBatch,     \* bound on the metrics of a batch
    MaxEdits      \* bound on the reloads

VARIABLES
    configs,      \* r.configs: the rule set in force
    held,         \* the configs of the call, 0 between calls
    batch,        \* the metrics that are left to relabel
    given, used,  \* ghosts: the metrics and the rules of the call
    result,       \* what the call has kept so far
    edits

vars == <<configs, held, batch, given, used, result, edits>>

Name == "__name__"

\* A map with one entry set.
With(l, key, value) == [k \in DOMAIN l \cup {key} |-> IF k = key THEN value ELSE l[k]]

attrsToLabels(name, attrs) == attrs @@ [k \in {Name} |-> name]

sourceValue(c, l) == [i \in DOMAIN c.sources |-> IF c.sources[i] \in DOMAIN l THEN l[c.sources[i]] ELSE ""]

actionReplace(c, l) ==
    LET v == sourceValue(c, l)
    IN  IF v \in DOMAIN c.replacement /\ c.target # "" THEN With(l, c.target, c.replacement[v]) ELSE l

\* One key of the iteration; a key that is not there is not visited.
MapOne(c, l, k) == IF k \in DOMAIN l \cap DOMAIN c.replacement THEN With(l, c.replacement[k], l[k]) ELSE l

\* All keys in some order, and any of the new ones.
actionLabelMap(c, l) ==
    LET new == {c.replacement[k] : k \in DOMAIN l \cap DOMAIN c.replacement} \ DOMAIN l
        Visit(acc, k) == MapOne(c, acc, k)
    IN  {FoldLeft(Visit, l, order) : order \in UNION {SetToSeqs(DOMAIN l \cup extra) : extra \in SUBSET new}}

Without(l, keys) == [k \in DOMAIN l \ keys |-> l[k]]

actionLabelDrop(c, l) == Without(l, c.regex)

actionLabelKeep(c, l) == Without(l, DOMAIN l \ (c.regex \cup {Name}))

actionHashMod(c, l) == IF c.modulus = 0 THEN l ELSE With(l, c.target, c.replacement[sourceValue(c, l)])

\* The labels a rule may leave; none when it drops the datapoint.
applyConfig(c, l) ==
    CASE c.action = "replace"   -> {actionReplace(c, l)}
      [] c.action = "keep"      -> IF sourceValue(c, l) \in c.regex THEN {l} ELSE {}
      [] c.action = "drop"      -> IF sourceValue(c, l) \in c.regex THEN {} ELSE {l}
      [] c.action = "labelmap"  -> actionLabelMap(c, l)
      [] c.action = "labeldrop" -> {actionLabelDrop(c, l)}
      [] c.action = "labelkeep" -> {actionLabelKeep(c, l)}
      [] c.action = "hashmod"   -> {actionHashMod(c, l)}
      [] OTHER                  -> {l}

applyConfigs(rules, l) ==
    LET Apply(ls, c) == UNION {applyConfig(c, x) : x \in ls}
    IN  FoldLeft(Apply, {l}, rules)

\* relabelNumberDataPoints and its four copies: the points kept, in order, in
\* each way they may come out.
relabelDataPoints(rules, name, points) ==
    LET Add(outs, p) ==
            LET ls == applyConfigs(rules, attrsToLabels(name, p))
            IN  IF ls = {} THEN outs ELSE {Append(o, l) : o \in outs, l \in ls}
    IN  FoldLeft(Add, {<<>>}, points)

\* (mutant) The name of the metric stays.
extractNameNot(original, attrs) == original

\* The name of the metric, from the attributes of its first point.
extractName(original, attrs) == IF Name \in DOMAIN attrs /\ attrs[Name] # "" THEN attrs[Name] ELSE original

\* relabelMetric: the metrics it may become, as sequences of at most one.
relabelMetric(rules, m) ==
    IF ~m.data THEN {<<m>>}
    ELSE {IF ps = <<>> THEN <<>> ELSE <<[m EXCEPT !.points = ps, !.name = extractName(m.name, ps[1])]>> :
             ps \in relabelDataPoints(rules, m.name, m.points)}

Init ==
    /\ configs \in {f \in DOMAIN RuleSets : RuleSets[f].compiles}
    /\ held = 0 /\ batch = <<>> /\ given = <<>> /\ used = 0 /\ result = <<>>
    /\ edits = 0

\* Relabel: the rules are read once, under the read lock.
Relabel(ms) ==
    /\ held = 0
    /\ given' = ms
    /\ used' = configs
    /\ IF RuleSets[configs].rules = <<>> \/ ms = <<>>
         THEN result' = ms /\ UNCHANGED <<held, batch>>
         ELSE held' = configs /\ batch' = ms /\ result' = <<>>
    /\ UNCHANGED <<configs, edits>>

RelabelNext ==
    /\ held # 0
    /\ batch # <<>>
    /\ \E out \in relabelMetric(RuleSets[held].rules, Head(batch)) : result' = result \o out
    /\ batch' = Tail(batch)
    /\ held' = IF Len(batch) = 1 THEN 0 ELSE held
    /\ UNCHANGED <<configs, given, used, edits>>

\* ReloadConfig: a file that does not compile leaves the rules as they are.
ReloadConfig(f) ==
    /\ edits < MaxEdits
    /\ edits' = edits + 1
    /\ configs' = IF RuleSets[f].compiles THEN f ELSE configs
    /\ UNCHANGED <<held, batch, given, used, result>>

Next ==
    \/ \E size \in 0..MaxBatch : \E ms \in [1..size -> Metrics] : Relabel(ms)
    \/ RelabelNext
    \/ \E f \in DOMAIN RuleSets : ReloadConfig(f)

Spec == Init /\ [][Next]_vars

--------------------------------------------------------------------------
(* Properties. *)

\* Whether the rules decide the name by the name alone.
ByName(rules) ==
    \A c \in ToSet(rules) :
        /\ c.action \in {"replace", "hashmod"} /\ c.target = Name => c.sources = <<Name>>
        /\ c.action = "labelmap" => \A k \in DOMAIN c.replacement : c.replacement[k] # Name

\* A metric of which relabelling keeps several datapoints has one name: with
\* rules that rewrite __name__ by the name alone every kept datapoint carries
\* the name its metric is sent under (relabelMetric takes it from the first
\* one, labelsToAttrs leaves it among the attributes), whatever reloads come in
\* between the metrics of the batch.  The exception is a name rewritten to the
\* empty string: all datapoints carry that, and the metric keeps its old name
\* (extractName).
OneName ==
    used # 0 /\ ByName(RuleSets[used].rules) => \A m \in ToSet(result) : m.data =>
        LET names == {l[Name] : l \in {l \in ToSet(m.points) : Name \in DOMAIN l}}
        IN  names \subseteq {m.name} \/ (names = {""} /\ \E g \in ToSet(given) : g.name = m.name)
=============================================================================
