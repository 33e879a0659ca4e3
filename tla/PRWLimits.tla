------------------------------ MODULE PRWLimits ------------------------------
(***************************************************************************)
(* The limits of the remote-write path (internal/prw/limits.go).  One      *)
(* critical section filters a request, series by series: all rules that    *)
(* match a series are charged in turn until one is violated.  Rates are    *)
(* per second, the series of a rule are never forgotten.                   *)
(***************************************************************************)
EXTENDS Integers, Sequences, FiniteSets
LOCAL INSTANCE SequencesExt

CONSTANTS
    PRWRules,       \* [metrics, label, rate, cardinality, action], one for each rule
    PRWSeries,      \* [name, label, n]: metric name, label value, datapoints
    MaxRequests, MaxSeconds

VARIABLES
    dry,            \* dryRun
    counts,         \* datapointCounts: rule -> datapoints of this second
    known,          \* cardinalityMap: rule -> series
    now, lastReset,
    totals,         \* totalDropped and totalViolations
    passed,         \* rule -> matching datapoints that passed since lastReset
    requests

prwLimitVars == <<dry, counts, known, now, lastReset, totals, passed, requests>>

Zero == [i \in DOMAIN PRWRules |-> 0]

Init ==
    /\ dry \in BOOLEAN
    /\ counts = Zero
    /\ known = [i \in DOMAIN PRWRules |-> {}]
    /\ now = 0 /\ lastReset = 0
    /\ totals = [dropped |-> 0, violations |-> 0]
    /\ passed = Zero
    /\ requests = 0

\* "" stands for a missing pattern; a rule without any matches nothing.
matchesRule(ts, r) ==
    /\ r.metrics # {} => ts.name \in r.metrics
    /\ r.label # "" => ts.label = r.label
    /\ r.metrics # {} \/ r.label # ""

\* One rule for one series; acc.at is the rule that was violated, 0 for none.
CheckRule(acc, i, ts) ==
    LET r == PRWRules[i]
        over == r.rate > 0 /\ acc.counts[i] + ts.n > r.rate
        counted == IF r.rate > 0 /\ ~over THEN [acc EXCEPT !.counts[i] = @ + ts.n] ELSE acc
        full == r.cardinality > 0 /\ ts \notin acc.known[i] /\ Cardinality(acc.known[i]) >= r.cardinality
    IN IF acc.at # 0 \/ ~matchesRule(ts, r) THEN acc
       ELSE IF over \/ full THEN [counted EXCEPT !.at = i]
       ELSE IF r.cardinality > 0 THEN [counted EXCEPT !.known[i] = @ \union {ts}] ELSE counted

\* All of the rules for one series, and what becomes of it.
CheckSeries(acc, ts) ==
    LET a == FoldLeft(LAMBDA x, i : CheckRule(x, i, ts), [acc EXCEPT !.at = 0], [i \in DOMAIN PRWRules |-> i])
        keep == a.at = 0 \/ dry \/ PRWRules[a.at].action = "log"
    IN [a EXCEPT !.violations = @ + (IF a.at = 0 THEN 0 ELSE 1),
                 !.dropped = @ + (IF keep THEN 0 ELSE 1),
                 !.passed = [i \in DOMAIN @ |-> @[i] + (IF keep /\ matchesRule(ts, PRWRules[i]) THEN ts.n ELSE 0)]]

\* The counters start again after a second.
Fresh == now - lastReset >= 1

Process(req) ==
    /\ requests < MaxRequests
    /\ LET acc == FoldLeft(CheckSeries, [counts |-> IF Fresh THEN Zero ELSE counts, known |-> known, at |-> 0,
                                         violations |-> totals.violations, dropped |-> totals.dropped,
                                         passed |-> IF now - lastReset >= 1 THEN Zero ELSE passed], req)
       IN /\ counts' = acc.counts
          /\ known' = acc.known
          /\ lastReset' = IF Fresh THEN now ELSE lastReset
          /\ totals' = [dropped |-> acc.dropped, violations |-> acc.violations]
          /\ passed' = acc.passed
    /\ requests' = requests + 1
    /\ UNCHANGED <<dry, now>>

ResetCardinality ==
    /\ known' = [i \in DOMAIN PRWRules |-> {}]
    /\ UNCHANGED <<dry, counts, now, lastReset, totals, passed, requests>>

Second ==
    /\ now < MaxSeconds
    /\ now' = now + 1
    /\ UNCHANGED <<dry, counts, known, lastReset, totals, passed, requests>>

Next ==
    \/ \E a \in PRWSeries : Process(<<a>>)
    \/ \E a, b \in PRWSeries : Process(<<a, b>>)
    \/ ResetCardinality \/ Second

Spec == Init /\ [][Next]_prwLimitVars

\* Outside of dry run, the datapoints that pass a rule in a second stay within
\* its rate when it drops and no rule before it only logs (a violated rule ends
\* the check, so that a logged violation hides the rules after it), whatever
\* series the request mixes; in dry run nothing is dropped.
RatesHold ==
    /\ dry => totals.dropped = 0
    /\ ~dry => \A i \in DOMAIN PRWRules :
            (PRWRules[i].rate > 0 /\ \A j \in 1..i : PRWRules[j].action = "drop") => passed[i] <= PRWRules[i].rate
===============================================================================
