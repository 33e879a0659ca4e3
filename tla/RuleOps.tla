------------------------------ MODULE RuleOps ------------------------------
(***************************************************************************)
(* What the processing rules do to the attributes of a datapoint:          *)
(* internal/sampling/transform.go, classify.go and the matching part of    *)
(* sampling.go.                                                            *)
(*                                                                         *)
(* Attributes are a sequence of [k, v], as in the code, because a key may  *)
(* occur twice (applyRename) and the first one counts.  A label value is a *)
(* number, 0 is the empty string (which is also what getLabelValue answers *)
(* for a label that is absent).  Regular expressions, number formats and   *)
(* hashes are data: a pattern is the set of the values it matches, and an  *)
(* operation that rewrites a value carries the function it applies.  Only   *)
(* the input of a rule is spelled out, character by character, for the sake *)
(* of the literal prefix that is tested before it.                          *)
(***************************************************************************)
EXTENDS Integers, Sequences, SequencesExt, FiniteSets

NoMatch == -1

getLabelValue(attrs, key) ==
    LET i == SelectInSeq(attrs, LAMBDA kv : kv.k = key)
    IN  IF i = 0 THEN 0 ELSE attrs[i].v

setLabel(attrs, key, value) ==
    LET i == SelectInSeq(attrs, LAMBDA kv : kv.k = key)
    IN  IF i = 0 THEN Append(attrs, [k |-> key, v |-> value])
                 ELSE [attrs EXCEPT ![i].v = value]

\* A template is a literal, or a reference ${label}.
interpolateLabels(t, attrs) == IF t.ref = "" THEN t.lit ELSE getLabelValue(attrs, t.ref)

\* All conditions hold (equals = 0: not given; the other three are sets of values).
evaluateConditions(conditions, attrs) ==
    \A c \in ToSet(conditions) :
        LET v == getLabelValue(attrs, c.label)
        IN  /\ c.equals # 0 => v = c.equals
            /\ v \in c.contains
            /\ v \in c.matches
            /\ v \notin c.notMatches

--------------------------------------------------------------------------
(* The operations of a transform rule. *)

applyRemove(attrs, labels) == SelectSeq(attrs, LAMBDA kv : kv.k \notin labels)

applySet(attrs, op) == setLabel(attrs, op.target, interpolateLabels(op.value, attrs))

\* The first attribute of that name gets the new name; an attribute that
\* already has the new name stays where it is.
applyRename(attrs, op) ==
    LET i == SelectInSeq(attrs, LAMBDA kv : kv.k = op.source)
    IN  IF i = 0 THEN attrs ELSE [attrs EXCEPT ![i].k = op.target]

applyCopy(attrs, op) ==
    LET v == getLabelValue(attrs, op.source)
    IN  IF v = 0 THEN attrs ELSE setLabel(attrs, op.target, v)

Rewrite(attrs, label, f) ==
    LET i == SelectInSeq(attrs, LAMBDA kv : kv.k = label)
    IN  IF i = 0 THEN attrs ELSE [attrs EXCEPT ![i].v = f[attrs[i].v]]

applyReplace(attrs, op) == Rewrite(attrs, op.target, op.f)

applyLower(attrs, op) == Rewrite(attrs, op.target, op.f)

applyUpper(attrs, op) == Rewrite(attrs, op.target, op.f)

\* An absent or empty source, and a value without a result (no match, not a
\* number, a zero operand), leave the attributes alone.
Derive(attrs, op) ==
    LET v == getLabelValue(attrs, op.source)
    IN  IF v = 0 \/ op.f[v] = NoMatch THEN attrs ELSE setLabel(attrs, op.target, op.f[v])

applyExtract(attrs, op) == Derive(attrs, op)

applyHashMod(attrs, op) == Derive(attrs, op)

applyMath(attrs, op) == Derive(attrs, op)

applyConcat(attrs, op) ==
    setLabel(attrs, op.target, op.f[[i \in DOMAIN op.sources |-> getLabelValue(attrs, op.sources[i])]])

\* The first entry (in the order in which they were compiled) that matches.
LookUp(entries, v, default) ==
    LET i == SelectInSeq(entries, LAMBDA e : v \in e.pattern)
    IN  IF i = 0 THEN default ELSE entries[i].value

applyMap(attrs, op) ==
    LET v == getLabelValue(attrs, op.source)
        hit == LookUp(op.entries, v, IF op.default = 0 THEN NoMatch ELSE op.default)
    IN  IF hit = NoMatch THEN attrs ELSE setLabel(attrs, op.target, hit)

applyOperation(attrs, op) ==
    CASE op.op = "remove"   -> applyRemove(attrs, op.labels)
      [] op.op = "set"      -> applySet(attrs, op)
      [] op.op = "rename"   -> applyRename(attrs, op)
      [] op.op = "copy"     -> applyCopy(attrs, op)
      [] op.op = "replace"  -> applyReplace(attrs, op)
      [] op.op = "extract"  -> applyExtract(attrs, op)
      [] op.op = "hash_mod" -> applyHashMod(attrs, op)
      [] op.op = "lower"    -> applyLower(attrs, op)
      [] op.op = "upper"    -> applyUpper(attrs, op)
      [] op.op = "concat"   -> applyConcat(attrs, op)
      [] op.op = "map"      -> applyMap(attrs, op)
      [] op.op = "math"     -> applyMath(attrs, op)

applyTransformOperations(attrs, ops) ==
    LET after[i \in 0..Len(ops)] == IF i = 0 THEN attrs ELSE applyOperation(after[i - 1], ops[i])
    IN  after[Len(ops)]

--------------------------------------------------------------------------
(* The classify action: the labels of the first chain that applies (in any *)
(* order: the code ranges over a map), then every mapping, then removals.   *)

Chains(attrs, chains) ==
    LET i == SelectInSeq(chains, LAMBDA c : evaluateConditions(c.conditions, attrs))
        SetOne(as, kv) == setLabel(as, kv.k, interpolateLabels(kv.t, as))
    IN  IF i = 0 THEN {attrs}
                 ELSE {FoldLeft(SetOne, attrs, order) : order \in SetToSeqs(chains[i].set)}

Mapping(attrs, m) ==
    LET parts == [i \in DOMAIN m.sources |-> getLabelValue(attrs, m.sources[i])]
        v == IF Len(m.sources) = 1 THEN parts[1] ELSE m.join[parts]
        hit == LookUp(m.entries, v, IF m.dflt = 0 THEN NoMatch ELSE m.dflt)
    IN  IF hit = NoMatch THEN attrs ELSE setLabel(attrs, m.target, hit)

applyClassify(attrs, cc) ==
    {applyRemove(FoldLeft(Mapping, as, cc.mappings), cc.removeAfter) : as \in Chains(attrs, cc.chains)}

--------------------------------------------------------------------------
(* Which rules apply. *)


\* The regular expression, after the shortcut on its literal prefix.
matchProcessingRuleName(rule, metricName) == IsPrefix(rule.inputPrefix, metricName) /\ metricName \in rule.input

computeNameMatchingIndices(rules, metricName) ==
    SelectSeq([i \in DOMAIN rules |-> i], LAMBDA i : matchProcessingRuleName(rules[i], metricName))

\* buildAttrMap: a later attribute of the same name wins.
buildAttrMap(attrs) ==
    [key \in {kv.k : kv \in ToSet(attrs)} |-> attrs[SelectLastInSeq(attrs, LAMBDA kv : kv.k = key)].v]

matchProcessingRuleLabels(rule, attrMap) ==
    \A key \in DOMAIN rule.labels : key \in DOMAIN attrMap /\ attrMap[key] \in rule.labels[key]
=============================================================================
