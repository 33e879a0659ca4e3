---------------------------- MODULE LimitsEnforcer ----------------------------
(***************************************************************************)
(* The limits enforcer (internal/limits): the buffer's flush workers hand  *)
(* it metrics, it finds the first rule that matches, tracks the datapoints *)
(* and the series of the rule's groups in a window of one minute and acts  *)
(* on what goes beyond the limits of the rule.  The state is guarded by    *)
(* e.mu, the counters by violations.mu; the configuration, the dry-run     *)
(* flag and the pointer to the rule cache are read without a lock.  A step *)
(* here is what the code does between two of these accesses.               *)
(*                                                                         *)
(* A metric has a name, a resource label env and one user label for each   *)
(* of its datapoints.  Trackers of series are exact, bloom filters (which  *)
(* take a colliding series for a known one), hyperloglog sketches (which   *)
(* know no members) or hybrid, a bloom filter until Threshold series.      *)
(***************************************************************************)
EXTENDS Integers, Sequences, FiniteSets, FiniteSetsExt, Maps

CONSTANTS
    Workers,      \* the callers of Process
    Files,        \* the limits files: a sequence of sequences of rules
    Metrics,      \* the metrics that callers hand in
    Trackers,     \* the cardinality modes that the enforcer may be built with
    Colliding,    \* the users that a bloom filter takes for known ones
    Kept,         \* the users that hash-based sampling keeps
    CacheSize,    \* rule cache entries
    MaxGroups,    \* maxGroupsPerRule
    Threshold,    \* hll_threshold
    MaxCalls, MaxClock,
    MaxEvents     \* reloads, dry-run toggles, scrapes and passings of time

VARIABLES
    config,       \* e.config: the number of the file in force
    dryRun,       \* e.dryRun
    cache,        \* the rule cache, most recent first: <<[name, rule, clean]>>
    tracker,      \* the cardinality mode
    stats,        \* e.ruleStats: rule name -> window
    dropped,      \* e.droppedGroups: rule name -> group -> expiry
    seenLabels,   \* e.labelCardTrackers: rule name -> values of the user label
    counters,     \* violations: datapoints passed and dropped
    mu, vmu,      \* who holds e.mu; whether a scrape reads violations
    call,         \* worker -> the call it is in
    clock,        \* minutes
    scrape,       \* idle | stats: how far the scrape is
    calls, events,
    withheld,     \* datapoints that Process did not return
    everDry       \* dry-run was on at some time

limitVars == <<config, dryRun, cache, tracker, stats, dropped, seenLabels, counters, mu, vmu, call, clock, scrape,
               calls, events, withheld, everDry>>

\* The files are lists of rules with numeric limits and metrics are lists of points.
IsList(s) == Len(s) \in Nat /\ DOMAIN s = 1..Len(s)

ASSUME LimitsAssumption ==
    /\ IsList(Files) /\ 1 \in DOMAIN Files
    /\ \A f \in DOMAIN Files :
         /\ IsList(Files[f])
         /\ \A i \in DOMAIN Files[f] : Files[f][i].maxDatapointsRate \in Int /\ Files[f][i].maxCardinality \in Int
    /\ \A m \in Metrics : m \in [name : STRING, env : STRING, points : Seq(STRING)]
    /\ CacheSize \in Nat \ {0}

Free == "free"
None == <<0, 0>>                    \* no rule: a nil *Rule
Rule(p) == Files[p[1]][p[2]]        \* a *Rule points into the file it was read from

\* steady: no reload since the call began; clean: its rule is not from an entry
\* whose put had been overtaken by a reload.
Idle == [pc |-> "idle", m |-> <<>>, rule |-> None, i |-> 0, n |-> 0, why |-> "", act |-> "", counter |-> "none",
         nil |-> FALSE, steady |-> TRUE, clean |-> TRUE]

LimitsInit ==
    /\ config = 1
    /\ dryRun \in BOOLEAN
    /\ cache = <<>>
    /\ tracker \in Trackers
    /\ stats = << >> /\ dropped = << >> /\ seenLabels = << >>
    /\ counters = [passed |-> 0, dropped |-> 0]
    /\ mu = Free /\ vmu = FALSE
    /\ call = [w \in Workers |-> Idle]
    /\ clock = 0
    /\ scrape = "idle"
    /\ calls = 0 /\ events = 0
    /\ withheld = 0
    /\ everDry = dryRun

At(w, pc) == call[w].pc = pc

Go(w, pc) == call' = [call EXCEPT ![w].pc = pc]

countDatapoints(m) == Len(m.points)

buildSeriesKey(m, i) == <<m.env, m.points[i]>>

\* What a place of the code does with the metric: the counter that it adds the
\* datapoints to, and whether it returns nil outside of dry run.
Passes == [counter |-> "passed", nil |-> FALSE]
Drops == [counter |-> "dropped", nil |-> TRUE]
Through == [counter |-> "none", nil |-> FALSE]

Decide(w, what) ==
    call' = [call EXCEPT ![w] = [@ EXCEPT !.pc = IF what.counter = "none" THEN "return" ELSE "record",
                                          !.counter = what.counter, !.nil = what.nil]]

-----------------------------------------------------------------------------
(* Finding the rule *)

MatchesLabels(r, m) == r.env = "" \/ r.env = m.env
Matches(r, m) == m.name \in r.metrics /\ MatchesLabels(r, m)
HasLabelMatchers(r) == r.env # ""
HasAnyLabelMatchers(f) == \E i \in DOMAIN Files[f] : HasLabelMatchers(Files[f][i])

\* Where the name is in the cache, 0 when it is not.
CacheIndex(c, name) ==
    LET found == {i \in DOMAIN c : c[i].name = name}
    IN IF found = {} THEN 0 ELSE Min(found)

\* Put moves an entry to the front; the oldest entries make room for a new one.
CachePut(c, e) ==
    LET i == CacheIndex(c, e.name)
        rest == IF i = 0 THEN c ELSE SubSeq(c, 1, i - 1) \o SubSeq(c, i + 1, Len(c))
    IN <<e>> \o SubSeq(rest, 1, Min({Len(rest), CacheSize - 1}))

limitsCommon == <<config, dryRun, tracker, clock, scrape, events, everDry, vmu>>

\* A call looks its metric up in the cache of metric names; a hit is promoted
\* even when the labels of its rule do not match.
Process(w) ==
    \E m \in Metrics :
        /\ At(w, "idle") /\ calls < MaxCalls
        /\ calls' = calls + 1
        /\ LET i == CacheIndex(cache, m.name)
               hit == i # 0 /\ (cache[i].rule = None \/ MatchesLabels(Rule(cache[i].rule), m))
               c == [Idle EXCEPT !.m = m]
           IN /\ cache' = IF i = 0 THEN cache ELSE CachePut(cache, cache[i])
              /\ call' = [call EXCEPT ![w] = IF hit THEN [c EXCEPT !.pc = "gate", !.rule = cache[i].rule, !.clean = cache[i].clean]
                                             ELSE [c EXCEPT !.pc = "scan", !.i = 1, !.n = Len(Files[config])]]
        /\ UNCHANGED <<limitsCommon, stats, dropped, seenLabels, counters, mu, withheld>>

\* One round of the loop: the bound is the length of the list at its start, the
\* element comes from the list in force now (past its end, the call panics).
Scan(w) ==
    /\ At(w, "scan")
    /\ LET c == call[w]
           rules == Files[config]
       IN call' = [call EXCEPT ![w] =
                CASE c.i > c.n -> [c EXCEPT !.pc = "put", !.rule = None]
                  [] c.i <= c.n /\ c.i > Len(rules) -> [c EXCEPT !.pc = "panic"]
                  [] c.i <= c.n /\ c.i <= Len(rules) ->
                        IF Matches(rules[c.i], c.m) THEN [c EXCEPT !.pc = "put", !.rule = <<config, c.i>>]
                        ELSE [c EXCEPT !.i = @ + 1]]
    /\ UNCHANGED <<limitsCommon, cache, stats, dropped, seenLabels, counters, mu, calls, withheld>>

Found(c) == [name |-> c.m.name, rule |-> c.rule, clean |-> c.steady]

RememberAlways(w) ==                                         \* (mutant)
    /\ At(w, "put")
    /\ cache' = CachePut(cache, Found(call[w]))
    /\ Go(w, "gate")
    /\ UNCHANGED <<limitsCommon, stats, dropped, seenLabels, counters, mu, calls, withheld>>

\* What depends on the name alone is remembered, in the cache that is there by
\* now: after a reload the new one gets what was found in the old file.
Remember(w) ==
    /\ At(w, "put")
    /\ LET c == call[w]
           byName == IF c.rule = None THEN ~HasAnyLabelMatchers(config) ELSE ~HasLabelMatchers(Rule(c.rule))
       IN cache' = IF byName THEN CachePut(cache, Found(c)) ELSE cache
    /\ Go(w, "gate")
    /\ UNCHANGED <<limitsCommon, stats, dropped, seenLabels, counters, mu, calls, withheld>>

-----------------------------------------------------------------------------
(* Tracking *)

buildGroupKey(r, m) == IF r.groupBy THEN m.env ELSE m.name

isGroupDropped(r, g) == r.name \in DOMAIN dropped /\ g \in DOMAIN dropped[r.name] /\ clock < dropped[r.name][g]

\* A metric without a rule passes; one whose group is marked is dropped.
Gate(w) ==
    /\ At(w, "gate")
    /\ LET r == Rule(call[w].rule)
       IN IF call[w].rule = None THEN Decide(w, Passes)
          ELSE /\ mu = Free
               /\ IF isGroupDropped(r, buildGroupKey(r, call[w].m)) THEN Decide(w, Drops)
                  ELSE Go(w, IF r.labelLimit < 0 THEN "track" ELSE "labels")
    /\ UNCHANGED <<limitsCommon, cache, stats, dropped, seenLabels, counters, mu, calls, withheld>>

\* The values of the user label: new ones are taken in until the limit.
Values(seen, points, limit) ==
    LET take(acc, v) == IF v = "" \/ v \in acc.seen THEN acc
                        ELSE IF Cardinality(acc.seen) >= limit THEN [acc EXCEPT !.over = TRUE]
                        ELSE [acc EXCEPT !.seen = @ \union {v}]
        acc[i \in 0..Len(points)] ==
            IF i = 0 THEN [seen |-> seen, over |-> FALSE] ELSE take(acc[i - 1], points[i])
    IN acc[Len(points)]

\* The label is taken off all of the datapoints, or the metric is dropped; a
\* limit of 0 takes the label off under both actions.
checkLabelLimits(w) ==
    /\ At(w, "labels") /\ mu = Free
    /\ LET c == call[w]
           r == Rule(c.rule)
           seen == IF r.name \in DOMAIN seenLabels THEN seenLabels[r.name] ELSE {}
           after == Values(seen, c.m.points, r.labelLimit)
       IN /\ seenLabels' = With(seenLabels, r.name, after.seen)
          /\ IF after.over /\ r.labelAction = "drop" /\ r.labelLimit > 0 THEN Decide(w, Drops)
             ELSE call' = [call EXCEPT ![w] =
                    [c EXCEPT !.pc = "track", !.m.points = IF after.over THEN [i \in DOMAIN @ |-> ""] ELSE @]]
    /\ UNCHANGED <<limitsCommon, cache, stats, dropped, counters, mu, calls, withheld>>

NewGroup == [dps |-> 0, seen |-> {}, count |-> 0, hll |-> tracker = "hll"]

TestOnly(g, s) ==
    /\ ~g.hll
    /\ s \in g.seen \/ (tracker # "exact" /\ s[2] \in Colliding /\ g.seen # {})

\* Add: whether the series was new, and the tracker afterwards.
AddSeries(acc, s) ==
    IF acc.g.hll THEN [acc EXCEPT !.added = @ + 1, !.g.seen = @ \union {s}, !.g.count = Cardinality(acc.g.seen \union {s})]
    ELSE IF TestOnly(acc.g, s) THEN acc
    ELSE [acc EXCEPT !.added = @ + 1, !.g.seen = @ \union {s}, !.g.count = @ + 1]

\* The series one after the other.
AddAll(g, series) ==
    LET acc[i \in 0..Len(series)] == IF i = 0 THEN [g |-> g, added |-> 0] ELSE AddSeries(acc[i - 1], series[i])
    IN acc[Len(series)]

\* The window of the rule now: a new one for a new rule, or after a minute.
WindowNow(r) ==
    IF r.name \notin DOMAIN stats \/ clock > stats[r.name].end
    THEN [groups |-> << >>, totalDPs |-> 0, totalCard |-> 0, end |-> clock + 1]
    ELSE stats[r.name]

\* cleanupExpiredDroppedGroups
Unexpired(f) ==
    LET live(n) == {g \in DOMAIN f[n] : clock <= f[n][g]}
    IN [n \in {x \in DOMAIN f : live(x) # {}} |-> [g \in live(n) |-> f[n][g]]]

ExceedsLate(total, limit) == limit > 0 /\ total - 1 > limit  \* (mutant)

Exceeds(total, limit) == limit > 0 /\ total > limit

\* The limits are checked with what the metric would add, and only a metric
\* within them is added.  A tracker that reaches the threshold of the hybrid
\* mode switches inside of Add: see ModeSwitch.
updateAndCheckLimits(w) ==
    /\ At(w, "track") /\ mu = Free
    /\ LET c == call[w]
           r == Rule(c.rule)
           g == buildGroupKey(r, c.m)
           fresh == r.name \in DOMAIN stats /\ clock > stats[r.name].end
           rs == WindowNow(r)
           full == g \notin DOMAIN rs.groups /\ Cardinality(DOMAIN rs.groups) >= MaxGroups
           gs == IF g \in DOMAIN rs.groups THEN rs.groups[g] ELSE NewGroup
           series == [i \in DOMAIN c.m.points |-> buildSeriesKey(c.m, i)]
           newSeries == Cardinality({i \in DOMAIN series : ~TestOnly(gs, series[i])})
           dps == countDatapoints(c.m)
           overCard == Exceeds(rs.totalCard + newSeries, r.maxCardinality)
           overRate == Exceeds(rs.totalDPs + dps, r.maxDatapointsRate)
           add == AddAll(gs, series)
           within == ~full /\ ~overCard /\ ~overRate
           after == IF within THEN [rs EXCEPT !.groups = With(@, g, [add.g EXCEPT !.dps = @ + dps]),
                                              !.totalDPs = @ + dps, !.totalCard = @ + add.added]
                    ELSE IF full THEN rs ELSE [rs EXCEPT !.groups = With(@, g, gs)]
       IN /\ stats' = With(stats, r.name, after)
          /\ dropped' = IF fresh THEN Unexpired(Drop(dropped, {r.name})) ELSE dropped
          /\ seenLabels' = IF fresh THEN Drop(seenLabels, {r.name}) ELSE seenLabels
          /\ IF within /\ tracker = "hybrid" /\ ~gs.hll /\ add.g.count >= Threshold
             THEN mu' = w /\ Go(w, "switch")
             ELSE /\ mu' = mu
                  /\ IF within \/ full THEN Decide(w, Passes)
                     ELSE call' = [call EXCEPT ![w] = [c EXCEPT !.pc = "violation",
                                        !.why = IF overCard THEN "cardinality" ELSE "datapoints_rate"]]
    /\ UNCHANGED <<limitsCommon, cache, counters, calls, withheld>>

\* recordTrackerModeSwitch, the callback of the switch: it locks e.mu, which
\* the caller of Add holds.
ModeSwitch(w) ==
    /\ At(w, "switch") /\ mu = Free
    /\ Decide(w, Passes)
    /\ UNCHANGED <<limitsCommon, cache, stats, dropped, seenLabels, counters, mu, calls, withheld>>

-----------------------------------------------------------------------------
(* Acting on a violation *)

calculateUtilizationPercent(r, why) ==
    LET limit == IF why = "cardinality" THEN r.maxCardinality ELSE r.maxDatapointsRate
    IN IF r.name \notin DOMAIN stats \/ limit <= 0 THEN 100
       ELSE (100 * (IF why = "cardinality" THEN stats[r.name].totalCard ELSE stats[r.name].totalDPs)) \div limit

\* The action of the highest tier that the utilisation reaches, or the rule's.
handleViolation(w) ==
    /\ At(w, "violation") /\ mu = Free /\ ~vmu
    /\ LET r == Rule(call[w].rule)
           used == calculateUtilizationPercent(r, call[w].why)
           reached == {i \in DOMAIN r.tiers : used >= r.tiers[i].atPercent}
       IN call' = [call EXCEPT ![w].pc = "act",
                               ![w].act = IF reached = {} THEN r.action ELSE r.tiers[Max(reached)].action]
    /\ UNCHANGED <<limitsCommon, cache, stats, dropped, seenLabels, counters, mu, calls, withheld>>

\* Log and strip pass the metric on; drop does not; sample keeps it when the
\* hash of its first series is below the rate; any other action passes it
\* on and counts nothing.
Act(w) ==
    /\ At(w, "act") /\ call[w].act # "adaptive"
    /\ LET a == call[w].act
           kept == call[w].m.points # <<>> /\ call[w].m.points[1] \in Kept
       IN Decide(w, CASE a \in {"log", "strip_labels"} \/ (a = "sample" /\ kept) -> Passes
                      [] a = "drop" \/ (a = "sample" /\ ~kept) -> Drops
                      [] OTHER -> Through)
    /\ UNCHANGED <<limitsCommon, cache, stats, dropped, seenLabels, counters, mu, calls, withheld>>

\* The groups in the order they are dropped in: low priority first, then the
\* larger contribution; equal ones in any order.
Contribution(gs, why) == IF why = "cardinality" THEN gs.count ELSE gs.dps

Before(r, groups, why, a, b) ==
    \/ r.priority[a] < r.priority[b]
    \/ r.priority[a] = r.priority[b] /\ Contribution(groups[a], why) > Contribution(groups[b], why)

\* The shortest prefixes of such an order that make up the excess.
Offenders(r, groups, why, excess) ==
    LET total(s) == MapThenSumSet(LAMBDA g : Contribution(groups[g], why), s)
        down(s) == \A a \in s, b \in DOMAIN groups \ s : ~Before(r, groups, why, b, a)
    IN {s \in SUBSET DOMAIN groups :
            /\ down(s)
            /\ total(s) >= excess \/ s = DOMAIN groups
            /\ \E last \in s : total(s \ {last}) < excess /\ down(s \ {last})}

\* handleAdaptive marks groups until the window ends, then needs the lock of
\* the counters while it holds e.mu.  The totals hold only what was within the
\* limits: there is an excess after a reload to a lower limit and never else,
\* and without one the metric passes uncounted.
handleAdaptive(w) ==
    /\ At(w, "act") /\ call[w].act = "adaptive" /\ mu = Free
    /\ LET c == call[w]
           r == Rule(c.rule)
           g == buildGroupKey(r, c.m)
           rs == stats[r.name]
           excess == IF c.why = "cardinality" /\ r.maxCardinality > 0 THEN rs.totalCard - r.maxCardinality
                     ELSE IF r.maxDatapointsRate > 0 THEN rs.totalDPs - r.maxDatapointsRate ELSE 0
           marked == IF r.name \in DOMAIN dropped THEN dropped[r.name] ELSE << >>
       IN IF r.name \notin DOMAIN stats \/ excess <= 0 THEN Decide(w, Through) /\ UNCHANGED <<dropped, mu>>
          ELSE \E s \in Offenders(r, rs.groups, c.why, excess) :
                /\ dropped' = With(dropped, r.name, Over([x \in s |-> rs.end], marked))
                /\ mu' = w
                /\ Decide(w, IF g \in s \union DOMAIN marked THEN Drops ELSE Passes)
    /\ UNCHANGED <<limitsCommon, cache, stats, seenLabels, counters, calls, withheld>>

RecordUnlocked(w) ==                                         \* (mutant)
    /\ At(w, "record") /\ ~vmu
    /\ counters' = IF mu = w THEN counters ELSE [counters EXCEPT ![call[w].counter] = @ + countDatapoints(call[w].m)]
    /\ Go(w, "return")
    /\ UNCHANGED <<limitsCommon, cache, stats, dropped, seenLabels, mu, calls, withheld>>

\* recordPass or recordDrop, under the lock of the counters; the adaptive action
\* still holds e.mu here.
Record(w) ==
    /\ At(w, "record") /\ ~vmu
    /\ counters' = [counters EXCEPT ![call[w].counter] = @ + countDatapoints(call[w].m)]
    /\ Go(w, "return")
    /\ UNCHANGED <<limitsCommon, cache, stats, dropped, seenLabels, mu, calls, withheld>>

\* The dry-run flag is read after the counting, without a lock (by the adaptive
\* action under e.mu): nil is returned only outside of dry run.
Return(w) ==
    /\ At(w, "return")
    /\ withheld' = IF call[w].nil /\ ~dryRun THEN withheld + countDatapoints(call[w].m) ELSE withheld
    /\ call' = [call EXCEPT ![w] = Idle]
    /\ mu' = IF mu = w THEN Free ELSE mu
    /\ UNCHANGED <<limitsCommon, cache, stats, dropped, seenLabels, counters, calls>>

-----------------------------------------------------------------------------
(* Reload, dry run, scrape and time *)

Names(f) == {Files[f][i].name : i \in DOMAIN Files[f]}

Event == events < MaxEvents /\ events' = events + 1

workerVars == <<tracker, counters, mu, calls, withheld>>

\* The state of the rules that the new file still names is kept.
ReloadConfig(f) ==
    /\ Event /\ mu = Free
    /\ config' = f
    /\ stats' = [n \in DOMAIN stats \intersect Names(f) |-> stats[n]]
    /\ dropped' = [n \in DOMAIN dropped \intersect Names(f) |-> dropped[n]]
    /\ seenLabels' = [n \in DOMAIN seenLabels \intersect Names(f) |-> seenLabels[n]]
    /\ cache' = <<>>
    /\ call' = [w \in Workers |-> [call[w] EXCEPT !.steady = FALSE]]
    /\ UNCHANGED <<workerVars, dryRun, vmu, clock, scrape, everDry>>

ruleVars == <<config, cache, stats, dropped, seenLabels, call>>

SetDryRun ==
    /\ Event /\ mu = Free
    /\ dryRun' = ~dryRun
    /\ everDry' = TRUE
    /\ UNCHANGED <<workerVars, ruleVars, vmu, clock, scrape>>

\* ServeHTTP reads the counters, keeps their lock and waits for e.mu.
ScrapeCounters ==
    /\ Event /\ scrape = "idle"
    /\ vmu' = TRUE
    /\ scrape' = "stats"
    /\ UNCHANGED <<workerVars, ruleVars, dryRun, clock, everDry>>

ScrapeStats ==
    /\ scrape = "stats" /\ mu = Free
    /\ vmu' = FALSE
    /\ scrape' = "idle"
    /\ UNCHANGED <<workerVars, ruleVars, dryRun, clock, events, everDry>>

Tick ==
    /\ Event
    /\ clock' \in clock + 1 .. MaxClock
    /\ UNCHANGED <<workerVars, ruleVars, dryRun, vmu, scrape, everDry>>

Step(w) ==
    \/ Scan(w) \/ Remember(w) \/ Gate(w) \/ checkLabelLimits(w) \/ updateAndCheckLimits(w)
    \/ handleViolation(w) \/ Act(w) \/ handleAdaptive(w) \/ Record(w) \/ Return(w)

LimitsNext ==
    \/ \E w \in Workers : Process(w) \/ Step(w)
    \/ \E f \in DOMAIN Files : ReloadConfig(f)
    \/ SetDryRun \/ ScrapeCounters \/ ScrapeStats \/ Tick

LimitsSpec == LimitsInit /\ [][LimitsNext]_limitVars

\* The hybrid mode: the flush workers and the scrape are goroutines that run
\* whenever they are not waiting for a lock.
HybridNext == LimitsNext \/ \E w \in Workers : ModeSwitch(w)

-----------------------------------------------------------------------------
(* Properties *)

Allows(limit, total) == limit <= 0 \/ total <= limit

SomeRule(n, P(_)) == \E f \in DOMAIN Files : \E i \in DOMAIN Files[f] : Files[f][i].name = n /\ P(Files[f][i])

WithinBounds ==
    \A n \in DOMAIN stats :
        /\ SomeRule(n, LAMBDA r : Allows(r.maxDatapointsRate, stats[n].totalDPs))
        /\ SomeRule(n, LAMBDA r : Allows(r.maxCardinality, stats[n].totalCard))

\* The datapoints of the groups of a window, told apart.
Datapoints(groups) == UNION {{g} \X (1..groups[g].dps) : g \in DOMAIN groups}

\* The totals of a window, by which later metrics are judged, are those of the
\* datapoints and series that were let pass as within the limits, and they stay
\* within the limit that some file gives the rule, whatever calls and reloads
\* overlap: the check and the addition are one critical section
\* (updateAndCheckLimits), so that two callers never pass the limit together.
\* And the datapoints are what the groups of the window add up to: neither a
\* reload nor the end of a window leaves half of the sums behind.  What the
\* actions let pass beyond a limit (log, strip_labels, the kept part of sample,
\* adaptive without an excess) is in no total, and a limit bounds what leaves the
\* enforcer only under the action drop.
WithinLimits ==
    /\ WithinBounds
    /\ \A n \in DOMAIN stats : stats[n].totalDPs = Cardinality(Datapoints(stats[n].groups))

\* What calls have counted as dropped and not returned from yet, told apart.
Owes(c) == c.pc = "return" /\ c.counter = "dropped"
Pending == UNION {{w} \X (1..countDatapoints(call[w].m)) : w \in {x \in Workers : Owes(call[x])}}

\* Every datapoint that Process withholds, at whichever of its places (a marked
\* group, a label limit, an action), is in the dropped counter, which the delivery
\* ratio subtracts, from before the call returns: the counter is never behind,
\* also when the dry-run flag changes between the counting and the reading of
\* the flag, and without dry run it is ahead by the calls under way only.
DropsCounted ==
    /\ counters.dropped >= withheld + Cardinality(Pending)
    /\ ~everDry => counters.dropped = withheld + Cardinality(Pending)

\* The first rule of the file f that matches m.
FirstRule(f, m) ==
    LET matching == {i \in DOMAIN Files[f] : Matches(Files[f][i], m)}
    IN IF matching = {} THEN None ELSE <<f, Min(matching)>>

\* No rule with labels stands before one without them for the metric of m.
Orderly(f, m) ==
    \A i, j \in DOMAIN Files[f] :
        (i < j /\ m.name \in Files[f][i].metrics \intersect Files[f][j].metrics) =>
            ~(HasLabelMatchers(Files[f][i]) /\ ~HasLabelMatchers(Files[f][j]))

\* A call that no reload interrupts goes on with the first rule of the file in
\* force that matches its metric, from the cache or not, in an orderly file
\* (findMatchingRule).  The exception is an entry that a search put in the cache
\* after a reload had overtaken it: it is served until it is evicted or the
\* next reload.  Even then, and whatever reloads come between its steps, a
\* call goes on with no rule that does not match its metric.
FirstMatch ==
    \A w \in Workers : At(w, "gate") =>
        LET c == call[w]
        IN /\ (c.steady /\ c.clean /\ Orderly(config, c.m)) => c.rule = FirstRule(config, c.m)
           /\ c.rule # None => Matches(Rule(c.rule), c.m)

\* A tracker that reaches its threshold switches and the call that made it
\* switch goes on ("automatically switches to HyperLogLog when cardinality
\* exceeds a configurable threshold").
SwitchReturns == \A w \in Workers : At(w, "switch") ~> At(w, "idle")
===============================================================================
