-------------------------- MODULE ProcessingConfig --------------------------
(***************************************************************************)
(* Loading, converting, validating and compiling the processing rules:     *)
(* internal/sampling/processing_config.go and DownsampleConfig.validate.   *)
(*                                                                         *)
(* The text of a field is data.  A rule has the set of the fields that are *)
(* given and the set of those whose text does not parse (a regular         *)
(* expression, a duration, a function name); numbers are numbers, and a    *)
(* rate is in tenths.                                                      *)
(***************************************************************************)
EXTENDS RuleOps

Reserved == {"rule", "action", "__name__"}

WindowMethods == {"avg", "min", "max", "sum", "count", "last", "delta", "lttb", "adaptive"}

validMethods == WindowMethods \cup {"sdt"}

Written(r, field) == field \in r.given /\ field \notin r.bad

validateSampleRule(r) ==
    /\ r.rate \in 0..10
    /\ r.method \in {"", "head", "probabilistic"}

\* DownsampleConfig.validate: a window for all methods but sdt, a deviation for sdt.
validateDownsampleRule(r) ==
    /\ r.method \in validMethods
    /\ r.method \in WindowMethods => Written(r, "interval") /\ r.interval > 0
    /\ r.method = "sdt" => r.deviation > 0

validateAggregateRule(r) ==
    /\ Written(r, "interval")
    /\ r.interval > 0
    /\ ~({"group_by", "drop_labels"} \subseteq r.given)
    /\ r.functions # <<>>
    /\ "functions" \notin r.bad

validateConditions(conditions) == \A c \in ToSet(conditions) : c.label # "" /\ ~c.bad

\* What each kind of operation needs.
Needs ==
    [remove |-> {}, set |-> {"label"}, rename |-> {"source", "target"}, copy |-> {"source", "target"},
     replace |-> {"label", "pattern"}, extract |-> {"source", "target", "pattern"},
     hash_mod |-> {"source", "target", "modulus"}, lower |-> {"label"}, upper |-> {"label"},
     concat |-> {"sources", "target"}, map |-> {"source", "target", "values"},
     math |-> {"source", "target", "operation"}]

\* Exactly one kind, with what it needs; a modulus of zero, fewer than two
\* sources and an unknown arithmetic operation count as not given.
compileOperation(op) ==
    /\ Cardinality(op.kinds) = 1
    /\ \A kind \in op.kinds : Needs[kind] \subseteq op.given
    /\ op.bad = {}

validateTransformRule(r) ==
    /\ r.operations # <<>>
    /\ validateConditions(r.when)
    /\ \A op \in ToSet(r.operations) : compileOperation(op)

validateClassifyRule(r) ==
    LET cc == r.classify
    IN  /\ "classify" \in r.given
        /\ cc.chains # <<>> \/ cc.mappings # <<>>
        /\ \A c \in ToSet(cc.chains) : c.conditions # <<>> /\ c.set # {} /\ validateConditions(c.conditions)
        /\ \A mp \in ToSet(cc.mappings) : mp.target # "" /\ mp.sources # <<>> /\ mp.entries # <<>> /\ ~mp.bad

ValidAction(r) ==
    CASE r.action = "sample"     -> validateSampleRule(r)
      [] r.action = "downsample" -> validateDownsampleRule(r)
      [] r.action = "aggregate"  -> validateAggregateRule(r)
      [] r.action = "transform"  -> validateTransformRule(r)
      [] r.action = "classify"   -> validateClassifyRule(r)
      [] r.action = "drop"       -> TRUE
      [] OTHER                   -> FALSE

ValidRule(r, required) ==
    /\ r.name # ""
    /\ r.owner \cap Reserved = {}
    /\ required \subseteq r.owner
    /\ Written(r, "input")
    /\ "input_labels" \notin r.bad
    /\ ValidAction(r)

\* extractLiteralPrefix: the characters before the first metacharacter.
Meta == {".", "*", "+", "?", "[", "]", "(", ")", "{", "}", "|", "^", "$", "\\"}

extractLiteralPrefix(pattern) ==
    LET i == SelectInSeq(pattern, LAMBDA c : c \in Meta)
    IN  IF i = 0 THEN pattern ELSE SubSeq(pattern, 1, i - 1)

\* What validation adds to a rule: the prefix of its input, and the functions
\* and the operations, which are appended to the compiled ones.
CompileAction(r) ==
    CASE r.action = "aggregate" -> [r EXCEPT !.parsedFunctions = @ \o r.functions]
      [] r.action = "transform" -> [r EXCEPT !.compiledOps = @ \o r.operations]
      [] r.action = "sample" /\ r.method = "" -> [r EXCEPT !.method = "head"]
      [] OTHER -> r

Compile(r) == [CompileAction(r) EXCEPT !.inputPrefix = extractLiteralPrefix(r.pattern)]

validateProcessingConfig(cfg) ==
    /\ "staleness" \in cfg.given => "staleness" \notin cfg.bad /\ cfg.staleness > 0
    /\ "dead" \in cfg.given => "dead" \notin cfg.bad /\ cfg.dead >= 0
    /\ \A i, j \in DOMAIN cfg.rules : cfg.rules[i].name = cfg.rules[j].name => i = j
    /\ \A r \in ToSet(cfg.rules) : ValidRule(r, cfg.required)

Compiled(cfg) ==
    [cfg EXCEPT !.rules = [i \in DOMAIN cfg.rules |-> Compile(cfg.rules[i])],
                !.staleness = IF "staleness" \in cfg.given THEN @ ELSE 10]

--------------------------------------------------------------------------
(* The older format: a rule has a strategy and a rate, and what no rule    *)
(* matches is kept at default_rate (0 when it is not written).             *)

LegacyRule(r, old) ==
    LET strategy == IF r.strategy = "" THEN old.strategy ELSE r.strategy
        base == [r EXCEPT !.given = (@ \cap {"interval"}) \cup {"input"}, !.owner = {}]
    IN  CASE strategy = "downsample" -> [base EXCEPT !.action = "downsample"]
          [] strategy # "downsample" /\ r.rate <= 0 -> [base EXCEPT !.action = "drop"]
          [] OTHER -> [base EXCEPT !.action = "sample",
                                   !.method = IF strategy = "probabilistic" THEN strategy ELSE "head"]

convertLegacyConfig(old) ==
    LET default == [old.catchAll EXCEPT !.action = IF old.defaultRate > 0 THEN "sample" ELSE "drop",
                                        !.rate = old.defaultRate,
                                        !.method = IF old.strategy = "probabilistic" THEN old.strategy ELSE "head"]
    IN  [old EXCEPT !.rules = [i \in DOMAIN @ |-> LegacyRule(@[i], old)]
                                \o (IF old.defaultRate < 10 THEN <<default>> ELSE <<>>),
                    !.given = {}, !.required = {}]

isLegacy(file) ==
    \/ {"default_rate", "strategy"} \cap file.given # {}
    \/ file.rules # <<>> /\ file.rules[1].action = ""

\* ParseProcessing: the answers are sets, empty for an error.
ParseProcessing(file) ==
    IF ~file.yaml THEN {}
    ELSE IF isLegacy(file) THEN {convertLegacyConfig(file)}
    ELSE IF validateProcessingConfig(file) THEN {Compiled(file)} ELSE {}

\* NewFromProcessing and ReloadProcessingConfig validate what they are given (again).
Accept(cfg) == IF validateProcessingConfig(cfg) THEN {Compiled(cfg)} ELSE {}
=============================================================================
