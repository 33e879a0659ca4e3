----------------------------- MODULE Processing -----------------------------
(***************************************************************************)
(* The processing engine: internal/sampling/sampling.go, rulecache.go and  *)
(* aggregate.go, with the reload and the shutdown that                     *)
(* cmd/metrics-governor/main.go performs on it.                            *)
(*                                                                         *)
(* Workers (receivers' goroutines) run Process.  A call takes the rule     *)
(* list once and walks it for each of its datapoints, through a cache from *)
(* metric names to rule indices that all calls share.  The SIGHUP          *)
(* goroutine replaces the rules, then clears the cache, then stops the     *)
(* flush loops of the aggregate engine, replaces its rule states and       *)
(* starts it again.  Each of these is a step of its own here because the   *)
(* code takes a different lock, or none, for each.  The main goroutine     *)
(* stops the receivers, then the aggregate engine, and only then cancels   *)
(* the context that the SIGHUP goroutine lives on, so a reload may overlap *)
(* the shutdown; and so may a handler that a receiver gave up waiting for. *)
(*                                                                         *)
(* A rule state of the aggregate engine outlives its place in e.rules (a   *)
(* worker or a flush loop may still hold it), so states are numbered and   *)
(* never reused.                                                           *)
(***************************************************************************)
EXTENDS ProcessingConfig

CONSTANTS
    Workers,      \* goroutines that call Process
    Streams,      \* what arrives: sequences of datapoints [id, name, attrs, number]
    Files,        \* contents of the processing file, now and after each edit: a sequence
    CacheSize,    \* newProcessingRuleCache(50000)
    MaxReloads    \* bound on SIGHUPs

VARIABLES
    Points,       \* the stream that arrives
    procRules,    \* s.procRules: the file they were compiled from
    staleness,    \* e.staleness
    dsEngine,     \* s.dsEngine # nil
    cache,        \* ruleNameCache: entries [name, indices], most recently used first
    ops,          \* s.ops
    states,       \* aggregate rule states ever made: [file, index, groups], a group is a set of points
    aggRules,     \* e.rules: numbers of states
    started,      \* e.started
    outputFn,     \* e.outputFn # nil
    loop,         \* per state: its flush loop, "off", "wait", "emit", "last" (emits, then ends)
    cargo,        \* per state: the points of the metrics its loop is about to emit
    cancelled,    \* the states whose flush loop has, or will have, a cancelled context
    hup,          \* the SIGHUP goroutine: where it is, the configuration it applies
    main,         \* the main goroutine: where it is, whether a receiver's Stop gave up on its handlers
    worker,       \* per worker: its local variables
    reloads,      \* SIGHUPs so far
    fate,         \* per point that has been taken: what became of it
    delivered     \* the batches that the callback put in the buffer, each with the points that it stands for

vars == <<Points, procRules, staleness, dsEngine, cache, ops, states, aggRules, started, outputFn, loop,
          cargo, cancelled, hup, main, worker, reloads, fate, delivered>>

aggVars == <<staleness, states, aggRules, started, outputFn, loop, cargo, cancelled, delivered>>

\* The local variables of a worker: where it is, the rules its call took, the
\* datapoint with its attributes as they are by now, the map made of them, the
\* indices still to walk, and the rule and the rule state it has come to.
NoPoint == [id |-> 0, name |-> <<>>, attrs |-> <<>>, number |-> FALSE]

Idle == [at |-> "idle", rules |-> 0, p |-> NoPoint, attrs |-> <<>>, attrMap |-> {}, indices |-> <<>>,
         rule |-> 0, rs |-> 0]

\* The datapoints of a stream are told apart by their places in it.
ASSUME StreamsAssumption ==
    \A stream \in Streams :
        /\ Len(stream) \in Nat /\ DOMAIN stream = 1..Len(stream)
        /\ \A i \in DOMAIN stream : stream[i].id = i

\* What LoadProcessingFile and the second validation make of a file: at most one configuration.
Loaded == [f \in DOMAIN Files |-> UNION {Accept(cfg) : cfg \in ParseProcessing(Files[f])}]

Config == [f \in {f \in DOMAIN Files : Loaded[f] # {}} |-> CHOOSE cfg \in Loaded[f] : TRUE]

Rules(f) == Config[f].rules

HasDownsample(f) == \E r \in ToSet(Rules(f)) : r.action = "downsample"

ASSUME RulesAssumption == \A f \in DOMAIN Config : IsFiniteSet(DOMAIN Rules(f))

\* A state for each rule that aggregates, in the order of the rules.
NewStates(f) ==
    LET aggregates == {i \in DOMAIN Rules(f) : Rules(f)[i].action = "aggregate"}
        Nth(n) == CHOOSE i \in aggregates : Cardinality({j \in aggregates : j <= i}) = n
    IN  [n \in 1..Cardinality(aggregates) |-> [file |-> f, index |-> Nth(n), groups |-> << >>]]

\* NewFromProcessing, then main: output and flush loops only when there is a
\* rule that aggregates.
Start(f) ==
    LET new == NewStates(f)
    IN  /\ procRules = f
        /\ staleness = Config[f].staleness
        /\ dsEngine = HasDownsample(f)
        /\ states = new
        /\ aggRules = [i \in DOMAIN new |-> i]
        /\ started = (new # <<>>)
        /\ outputFn = (new # <<>>)
        /\ loop = [i \in DOMAIN new |-> "wait"]
        /\ cargo = [i \in DOMAIN new |-> {}]
        /\ cancelled = {}

Init ==
    /\ Points \in Streams
    /\ \E f \in DOMAIN Config : Start(f)
    /\ cache = <<>>
    /\ ops = 0
    /\ hup = [at |-> "idle"]
    /\ main = [at |-> "run", late |-> FALSE]
    /\ worker = [w \in Workers |-> Idle]
    /\ reloads = 0
    /\ fate = << >>
    /\ delivered = <<>>

--------------------------------------------------------------------------
(* Process. *)

Arrived == Cardinality(DOMAIN fate)

\* The worker turns to the next datapoint, with the rule list it holds.  Once
\* the receivers are stopped only the handlers that outlived their Stop do.
Take(w, rules) ==
    LET p == Points[Arrived + 1]
    IN  /\ Arrived < Len(Points)
        /\ main.at = "run" \/ main.late
        /\ fate' = [i \in DOMAIN fate \cup {p.id} |-> IF i = p.id THEN "in" ELSE fate[i]]
        /\ worker' = [worker EXCEPT ![w] = [Idle EXCEPT !.at = "get", !.rules = rules, !.p = p, !.attrs = p.attrs]]
        /\ UNCHANGED <<Points, procRules, dsEngine, cache, ops, hup, main, reloads, aggVars>>

\* A call of Process reads the rules under the read lock.
Process(w) ==
    /\ worker[w].at \in {"idle", "next"}
    /\ Take(w, procRules)

\* A further datapoint of the same call.
NextPoint(w) ==
    /\ worker[w].at = "next"
    /\ Take(w, worker[w].rules)

InCache(name) == SelectInSeq(cache, LAMBDA e : e.name = name)

Promoted(c, i) == <<c[i]>> \o RemoveAt(c, i)

CacheGet(w) ==
    LET i == InCache(worker[w].p.name)
    IN  /\ worker[w].at = "get"
        /\ IF i # 0
             THEN /\ cache' = Promoted(cache, i)
                  /\ worker' = [worker EXCEPT ![w].indices = cache[i].indices, ![w].at = "walk"]
             ELSE /\ worker' = [worker EXCEPT ![w].indices = computeNameMatchingIndices(Rules(worker[w].rules), worker[w].p.name),
                                              ![w].at = "put"]
                  /\ UNCHANGED cache
        /\ UNCHANGED <<Points, procRules, dsEngine, ops, hup, main, reloads, fate, aggVars>>

\* The cache after Put: an entry of that name is renewed, or the least
\* recently used ones make room.
Put(c, e) ==
    LET i == SelectInSeq(c, LAMBDA x : x.name = e.name)
    IN  IF i # 0 THEN <<e>> \o RemoveAt(c, i)
                 ELSE <<e>> \o SubSeq(c, 1, (IF Len(c) < CacheSize THEN Len(c) ELSE CacheSize - 1))

CachePut(w) ==
    /\ worker[w].at = "put"
    /\ cache' = Put(cache, [name |-> worker[w].p.name, indices |-> worker[w].indices])
    /\ worker' = [worker EXCEPT ![w].at = "walk"]
    /\ UNCHANGED <<Points, procRules, dsEngine, ops, hup, main, reloads, fate, aggVars>>

--------------------------------------------------------------------------
(* applyProcessingRules and applyProcessingRulesGeneric: the walk over the *)
(* indices.  The attribute map is made for the first rule that has label   *)
(* conditions, and kept.                                                   *)

Done(w, what) ==
    /\ fate' = [fate EXCEPT ![worker[w].p.id] = what]
    /\ worker' = [worker EXCEPT ![w] = [Idle EXCEPT !.at = "next", !.rules = worker[w].rules]]

AttrMap(me, rule) ==
    IF DOMAIN rule.labels # {} /\ me.attrMap = {} THEN {buildAttrMap(me.attrs)} ELSE me.attrMap

\* The datapoint after a non-terminal rule, in each way the rule may leave it.
NonTerminal(rule, attrs) ==
    IF rule.action = "classify" THEN applyClassify(attrs, rule.classify)
    ELSE IF rule.when # <<>> /\ ~evaluateConditions(rule.when, attrs) THEN {attrs}
    ELSE {applyTransformOperations(attrs, rule.compiledOps)}

\* What a terminal rule does next; for points that are not numbers downsample
\* and aggregate are passed over.
Terminal(rule, number) ==
    CASE rule.action = "sample" -> "sample"
      [] rule.action \in {"downsample", "aggregate"} /\ number -> rule.action
      [] OTHER -> "walk"

\* The rule a worker has stopped at, and the rule of a rule state.
RuleOf(w) == Rules(worker[w].rules)[worker[w].rule]

StateRule(s) == Rules(states[s].file)[states[s].index]

\* One rule of the walk.  An index beyond the rules is a panic.
Walk(w) ==
    LET me == worker[w]
        rule == Rules(me.rules)[Head(me.indices)]
        rest == [me EXCEPT !.indices = Tail(@), !.attrMap = AttrMap(me, rule)]
    IN  /\ me.at = "walk"
        /\ me.indices # <<>>
        /\ IF Head(me.indices) \notin DOMAIN Rules(me.rules)
             THEN Done(w, "panic")
             ELSE IF rule.action = "drop" /\ \A m \in rest.attrMap : matchProcessingRuleLabels(rule, m)
             THEN Done(w, "dropped")
             ELSE /\ UNCHANGED fate
                  /\ IF DOMAIN rule.labels # {} /\ \E m \in rest.attrMap : ~matchProcessingRuleLabels(rule, m)
                       THEN worker' = [worker EXCEPT ![w] = rest]
                       ELSE IF rule.action \in {"transform", "classify"}
                       THEN \E as \in NonTerminal(rule, me.attrs) :
                                worker' = [worker EXCEPT ![w] = [rest EXCEPT !.attrs = as]]
                       ELSE worker' = [worker EXCEPT ![w] =
                                [rest EXCEPT !.rule = Head(me.indices), !.at = Terminal(rule, me.p.number)]]
        /\ UNCHANGED <<Points, procRules, dsEngine, cache, ops, hup, main, reloads, aggVars>>

PassThrough(w) ==
    /\ worker[w].at = "walk"
    /\ worker[w].indices = <<>>
    /\ Done(w, "kept")
    /\ UNCHANGED <<Points, procRules, dsEngine, cache, ops, hup, main, reloads, aggVars>>

\* shouldKeep.  With a rate strictly between 0 and 1 the shared counter is
\* stepped, and then read again for the one in n.
OneIn(rate) == 10 \div rate

Sample(w) ==
    LET rate == RuleOf(w).rate
    IN  /\ worker[w].at = "sample"
        /\ IF rate \in 1..9
             THEN /\ ops' = ops + 1
                  /\ worker' = [worker EXCEPT ![w].at = "keep?"]
                  /\ UNCHANGED fate
             ELSE Done(w, IF rate = 0 THEN "dropped" ELSE "kept") /\ UNCHANGED ops
        /\ UNCHANGED <<Points, procRules, dsEngine, cache, hup, main, reloads, aggVars>>

Keep(w) ==
    LET rule == RuleOf(w)
    IN  /\ worker[w].at = "keep?"
        /\ \E keep \in IF rule.method = "probabilistic" THEN BOOLEAN ELSE {ops % OneIn(rule.rate) = 0} :
               Done(w, IF keep THEN "kept" ELSE "dropped")
        /\ UNCHANGED <<Points, procRules, dsEngine, cache, ops, hup, main, reloads, aggVars>>

\* The engine is tested for nil, and read again for the call.
DownsampleTest(w) ==
    /\ worker[w].at = "downsample"
    /\ IF dsEngine THEN worker' = [worker EXCEPT ![w].at = "ingestAndEmit"] /\ UNCHANGED fate
                   ELSE Done(w, "kept")
    /\ UNCHANGED <<Points, procRules, dsEngine, cache, ops, hup, main, reloads, aggVars>>

\* The series either emits a point (which replaces this one) or holds it back.
DownsampleCall(w) ==
    /\ worker[w].at = "ingestAndEmit"
    /\ IF dsEngine THEN \E what \in {"kept", "held"} : Done(w, what)
                   ELSE Done(w, "panic")
    /\ UNCHANGED <<Points, procRules, dsEngine, cache, ops, hup, main, reloads, aggVars>>

--------------------------------------------------------------------------
(* The aggregate engine. *)

\* buildGroupLabels and buildGroupKey: the labels kept, in the order of their names.
GroupKey(attrs, rule) ==
    {kv \in ToSet(attrs) : IF rule.groupBy # {} THEN kv.k \in rule.groupBy ELSE kv.k \notin rule.dropLabels}

\* Ingest: the state of the rule of that name, found under the read lock.
IngestFind(w) ==
    LET i == SelectInSeq(aggRules, LAMBDA s : StateRule(s).name = RuleOf(w).name)
    IN  /\ worker[w].at = "aggregate"
        /\ IF i = 0 THEN Done(w, IF RuleOf(w).keepInput THEN "kept" ELSE "vanished")
                    ELSE /\ worker' = [worker EXCEPT ![w].at = "ingest", ![w].rs = aggRules[i]]
                         /\ UNCHANGED fate
        /\ UNCHANGED <<Points, procRules, dsEngine, cache, ops, hup, main, reloads, aggVars>>

\* Ingest: the point joins its group, under the lock of the state.
IngestAdd(w) ==
    LET me == worker[w]
        key == GroupKey(me.attrs, RuleOf(w))
        groups == states[me.rs].groups
        old == IF key \in DOMAIN groups THEN groups[key] ELSE {}
    IN  /\ me.at = "ingest"
        /\ states' = [states EXCEPT ![me.rs].groups =
               [k \in DOMAIN groups \cup {key} |-> IF k = key THEN old \cup {me.p.id} ELSE groups[k]]]
        /\ Done(w, IF RuleOf(w).keepInput THEN "kept" ELSE "ingested")
        /\ UNCHANGED <<Points, procRules, staleness, dsEngine, cache, ops, aggRules, started, outputFn, loop,
                       cargo, cancelled, hup, main, reloads, delivered>>

Held(s) == UNION {states[s].groups[k] : k \in DOMAIN states[s].groups}

\* (mutant) The accumulators are not reset.
FlushKeeps(s, next) ==
    /\ cargo' = [cargo EXCEPT ![s] = Held(s)]
    /\ loop' = [loop EXCEPT ![s] = next]
    /\ UNCHANGED <<Points, procRules, staleness, dsEngine, cache, ops, states, aggRules, started, outputFn,
                   cancelled, hup, main, worker, reloads, fate, delivered>>

\* flushRule under the lock: the groups stay, empty.
Flush(s, next) ==
    /\ states' = [states EXCEPT ![s].groups = [k \in DOMAIN @ |-> {}]]
    /\ cargo' = [cargo EXCEPT ![s] = Held(s)]
    /\ loop' = [loop EXCEPT ![s] = next]
    /\ UNCHANGED <<Points, procRules, staleness, dsEngine, cache, ops, aggRules, started, outputFn, cancelled,
                   hup, main, worker, reloads, fate, delivered>>

Tick(s) ==
    /\ loop[s] = "wait"
    /\ Held(s) # {}
    /\ Flush(s, "emit")

\* (mutant) The loop ends without a last flush.
FinalFlushNone(s) ==
    /\ loop[s] = "wait"
    /\ s \in cancelled
    /\ loop' = [loop EXCEPT ![s] = "off"]
    /\ UNCHANGED <<Points, procRules, staleness, dsEngine, cache, ops, states, aggRules, started, outputFn,
                   cargo, cancelled, hup, main, worker, reloads, fate, delivered>>

\* The context of the loop is cancelled: a last flush.
FinalFlush(s) ==
    /\ loop[s] = "wait"
    /\ s \in cancelled
    /\ Flush(s, "last")

\* The callback, after the lock is released.
Emit(s) ==
    /\ loop[s] \in {"emit", "last"}
    /\ delivered' = IF outputFn /\ cargo[s] # {} THEN Append(delivered, cargo[s]) ELSE delivered
    /\ cargo' = [cargo EXCEPT ![s] = {}]
    /\ loop' = [loop EXCEPT ![s] = IF @ = "last" THEN "off" ELSE "wait"]
    /\ UNCHANGED <<Points, procRules, staleness, dsEngine, cache, ops, states, aggRules, started, outputFn,
                   cancelled, hup, main, worker, reloads, fate>>

\* cleanupStale: a group not seen for longer than the staleness goes.  One
\* that still holds points is that old only if the rule flushes less often.
\* The cleanup may run once more after Stop, as long as Stop waits.
CleanupStale(s, key) ==
    /\ started \/ \E t \in DOMAIN loop : loop[t] # "off"
    /\ s \in ToSet(aggRules)
    /\ states[s].groups[key] # {} => StateRule(s).interval > staleness
    /\ states' = [states EXCEPT ![s].groups = [k \in DOMAIN @ \ {key} |-> @[k]]]
    /\ UNCHANGED <<Points, procRules, staleness, dsEngine, cache, ops, aggRules, started, outputFn, loop, cargo,
                   cancelled, hup, main, worker, reloads, fate, delivered>>

--------------------------------------------------------------------------
(* SIGHUP: LoadProcessingFile and ReloadProcessingConfig. *)

Reload(f) ==
    /\ hup.at = "idle"
    /\ reloads < MaxReloads
    /\ reloads' = reloads + 1
    /\ IF f \in DOMAIN Config
         THEN /\ procRules' = f
              /\ dsEngine' = HasDownsample(f)
              /\ hup' = [at |-> "clear", cfg |-> f]
         ELSE UNCHANGED <<procRules, dsEngine, hup>>
    /\ UNCHANGED <<Points, cache, ops, main, worker, fate, aggVars>>

ClearCache ==
    /\ hup.at = "clear"
    /\ cache' = <<>>
    /\ hup' = [hup EXCEPT !.at = "stop"]
    /\ UNCHANGED <<Points, procRules, dsEngine, ops, main, worker, reloads, fate, aggVars>>

\* Stop, up to the wait: if the engine is not started there is nothing to
\* cancel, and the caller does not wait for loops that are still ending.
Stop ==
    /\ started' = FALSE
    /\ cancelled' = IF started THEN DOMAIN loop ELSE cancelled
    /\ UNCHANGED <<Points, procRules, staleness, dsEngine, cache, ops, states, aggRules, outputFn, loop, cargo,
                   worker, reloads, fate, delivered>>

\* aggregateEngine.Reload begins with Stop.
ReloadStop ==
    /\ hup.at = "stop"
    /\ hup' = [hup EXCEPT !.at = IF started THEN "join" ELSE "swap"]
    /\ Stop
    /\ UNCHANGED main

Joined == \A s \in DOMAIN loop : loop[s] = "off"

\* Stop has returned: the new rule states take the place of the old ones.
SwapStates ==
    LET new == NewStates(hup.cfg)
    IN  /\ hup.at = "swap" \/ (hup.at = "join" /\ Joined)
        /\ states' = states \o new
        /\ aggRules' = [i \in DOMAIN new |-> Len(states) + i]
        /\ loop' = loop \o [i \in DOMAIN new |-> "off"]
        /\ cargo' = cargo \o [i \in DOMAIN new |-> {}]
        /\ staleness' = Config[hup.cfg].staleness
        /\ hup' = [hup EXCEPT !.at = "restart"]
        /\ UNCHANGED <<Points, procRules, dsEngine, cache, ops, started, outputFn, cancelled, main, worker, reloads,
                       fate, delivered>>

\* (mutant) A reload does not start the flush loops again.
RestartNone ==
    /\ hup.at = "restart"
    /\ hup' = [at |-> "idle"]
    /\ UNCHANGED <<Points, procRules, staleness, dsEngine, cache, ops, states, aggRules, started, outputFn, loop,
                   cargo, cancelled, main, worker, reloads, fate, delivered>>

\* main: StartAggregation if there is a rule that aggregates.  The context of
\* the loops derives from the one that main cancels at the end.
Restart ==
    /\ hup.at = "restart"
    /\ hup' = [at |-> "idle"]
    /\ IF aggRules # <<>>
         THEN /\ started' = TRUE
              /\ loop' = [s \in DOMAIN loop |-> IF s \in ToSet(aggRules) THEN "wait" ELSE loop[s]]
              /\ cancelled' = IF main.at = "end" THEN DOMAIN loop ELSE cancelled
         ELSE UNCHANGED <<started, loop, cancelled>>
    /\ UNCHANGED <<Points, procRules, staleness, dsEngine, cache, ops, states, aggRules, outputFn, cargo,
                   main, worker, reloads, fate, delivered>>

--------------------------------------------------------------------------
(* The shutdown in main. *)

\* The receivers stop: in time, with every call of Process returned, or not.
StopReceivers ==
    /\ main.at = "run"
    /\ \E late \in BOOLEAN :
           /\ ~late => \A w \in Workers : worker[w].at \in {"idle", "next"}
           /\ main' = [at |-> "stop", late |-> late]
    /\ UNCHANGED <<Points, procRules, dsEngine, cache, ops, hup, worker, reloads, fate, aggVars>>

\* StopAggregation, up to the wait.
StopAggregation ==
    /\ main.at = "stop"
    /\ main' = [main EXCEPT !.at = IF started THEN "join" ELSE "stopped"]
    /\ Stop
    /\ UNCHANGED hup

Stopped ==
    /\ main.at = "join"
    /\ Joined
    /\ main' = [main EXCEPT !.at = "stopped"]
    /\ UNCHANGED <<Points, procRules, dsEngine, cache, ops, hup, worker, reloads, fate, aggVars>>

\* cancel(): loops that a reload started meanwhile end, too.
Cancel ==
    /\ main.at = "stopped"
    /\ main' = [main EXCEPT !.at = "end"]
    /\ cancelled' = DOMAIN loop
    /\ UNCHANGED <<Points, procRules, staleness, dsEngine, cache, ops, states, aggRules, started, outputFn, loop,
                   cargo, hup, worker, reloads, fate, delivered>>

Step(w) ==
    \/ CacheGet(w) \/ CachePut(w) \/ Walk(w) \/ PassThrough(w) \/ Sample(w) \/ Keep(w)
    \/ DownsampleTest(w) \/ DownsampleCall(w) \/ IngestFind(w) \/ IngestAdd(w)

Next ==
    \/ \E w \in Workers : Process(w) \/ NextPoint(w) \/ Step(w)
    \/ \E s \in DOMAIN loop : Tick(s) \/ FinalFlush(s) \/ Emit(s)
    \/ \E s \in DOMAIN states : \E key \in DOMAIN states[s].groups : CleanupStale(s, key)
    \/ \E f \in DOMAIN Files : Reload(f)
    \/ ClearCache \/ ReloadStop \/ SwapStates \/ Restart
    \/ StopReceivers \/ StopAggregation \/ Stopped \/ Cancel

\* The flush loops have tickers; a reload, and a shutdown once begun, go on.
LoopStep(s) == s \in DOMAIN loop /\ (Tick(s) \/ FinalFlush(s) \/ Emit(s))

ReloadStep == ClearCache \/ ReloadStop \/ SwapStates \/ Restart

ShutdownStep == StopAggregation \/ Stopped \/ Cancel

Spec ==
    /\ Init
    /\ [][Next]_vars
    /\ \A s \in 1..(MaxReloads + 1) : WF_vars(LoopStep(s))
    /\ WF_vars(ReloadStep)
    /\ WF_vars(ShutdownStep)

--------------------------------------------------------------------------
(* Properties. *)

\* The walk without the cache and without the other calls: the rules in order,
\* up to the first terminal one.  Label conditions see the labels as they were
\* at the first rule of that name that has any; conditions of a transform, the
\* operations and the groups see them as they are by then.
Evaluate(rules, p) ==
    LET Ends(rule) ==
            CASE rule.action = "drop" -> {"dropped"}
              [] rule.action = "sample" -> IF rule.rate = 0 THEN {"dropped"}
                                           ELSE IF rule.rate = 10 THEN {"kept"} ELSE {"kept", "dropped"}
              [] rule.action = "downsample" -> IF p.number THEN {"kept", "held"} ELSE {}
              [] rule.action = "aggregate" -> IF p.number THEN IF rule.keepInput THEN {"kept"} ELSE {"ingested"}
                                              ELSE {}
        Seen(acc, rule) == IF acc.seen = {} /\ DOMAIN rule.labels # {} THEN {buildAttrMap(acc.attrs)} ELSE acc.seen
        Apply(acc, rule) ==
            IF \E labels \in acc.seen : ~matchProcessingRuleLabels(rule, labels) THEN acc
            ELSE IF rule.action \in {"transform", "classify"}
            THEN [acc EXCEPT !.attrs = CHOOSE as \in NonTerminal(rule, @) : TRUE]
            ELSE [acc EXCEPT !.ends = Ends(rule)]
        Step1(acc, rule) ==
            IF acc.ends # {} \/ p.name \notin rule.input THEN acc
            ELSE Apply([acc EXCEPT !.seen = Seen(acc, rule)], rule)
        after[i \in 0..Len(rules)] ==
            IF i = 0 THEN [attrs |-> p.attrs, seen |-> {}, ends |-> {}] ELSE Step1(after[i - 1], rules[i])
        ends == after[Len(rules)].ends
    IN  IF ends = {} THEN {"kept"} ELSE ends


\* docs/processing-rules.md says of a reload: "the new rule set is atomically
\* swapped in".  Every datapoint is treated by one of the configurations as a
\* whole, never by the rules of one with the cached indices, the engine or the
\* aggregate states of another (ReloadProcessingConfig).
AtomicSwap ==
    \A p \in ToSet(Points) : p.id \in DOMAIN fate /\ fate[p.id] # "in" =>
        \E f \in DOMAIN Config : fate[p.id] \in Evaluate(Rules(f), p)

Places(id) ==
    Cardinality({s \in DOMAIN states : id \in Held(s)}) + Cardinality({s \in DOMAIN cargo : id \in cargo[s]})
        + Cardinality({i \in DOMAIN delivered : id \in delivered[i]})

\* No rule flushes less often than its groups go stale.
FlushesInTime ==
    \A f \in DOMAIN Config : \A st \in ToSet(NewStates(f)) :
        ~(Rules(f)[st.index].interval > Config[f].staleness)

\* A datapoint that an aggregate rule took out of the stream counts in one
\* aggregate and never in two, across flushes, the final flush and a reload
\* (Ingest, flushRule, aggregateEngine.Reload); with a callback, and if no
\* group goes stale before it is flushed (cleanupStale), it is in one.
AggregateOnce ==
    \A id \in DOMAIN fate : fate[id] = "ingested" =>
        /\ Places(id) <= 1
        /\ outputFn /\ FlushesInTime => Places(id) = 1

\* If the receivers stopped in time then, once StopAggregation has returned,
\* every such datapoint has reached the buffer, except for what an overlapping
\* or an earlier reload has to do with: it was added to a state that a reload
\* has replaced; its loop has not ended, since a reload stopped the engine
\* first or has started it again; or a reload is about to replace its state or
\* to start its loop (main, aggregateEngine.Stop).
ShutdownDelivers ==
    main.at \in {"stopped", "end"} /\ ~main.late /\ outputFn /\ FlushesInTime =>
        \A id \in DOMAIN fate : fate[id] = "ingested" =>
            \/ \E i \in DOMAIN delivered : id \in delivered[i]
            \/ \E s \in DOMAIN states \ ToSet(aggRules) : id \in Held(s)
            \/ \E s \in DOMAIN states : id \in Held(s) \cup cargo[s] /\ loop[s] # "off"
            \/ hup.at \in {"join", "swap", "restart"}

\* What the rule states in use hold is flushed in the end, through reloads
\* (which stop the flush loops) and at shutdown, unless a handler that outlived
\* its receiver added it after the last flush.  And StopAggregation returns,
\* unless a reload starts the engine again while it waits for the loops.
GroupsFlushed ==
    LET InUse(id, ended) == \E s \in ToSet(aggRules) : id \in Held(s) /\ (ended => loop[s] = "off")
    IN  /\ \A id \in 1..Max({Len(stream) : stream \in Streams}) :
               InUse(id, FALSE) ~> (~InUse(id, FALSE) \/ (main.late /\ main.at # "run" /\ InUse(id, TRUE)))
        /\ main.at = "join" ~> (main.at = "stopped" \/ started)
=============================================================================
