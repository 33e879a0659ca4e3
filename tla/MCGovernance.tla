----------------------------- MODULE MCGovernance -----------------------------
(***************************************************************************)
(* What decides on the data in one model-checking instance: the limits     *)
(* enforcer, the tenants with their quotas, the limits of remote write and *)
(* the store of cardinality trackers.  unit says which of them a behaviour *)
(* is about; the others stay in their initial state.                       *)
(***************************************************************************)
EXTENDS LimitsEnforcer, TrackerStore, TLC

CONSTANTS
    Flushers, MaxTenantBatches, MaxSwaps, MaxTime,
    MaxPRWRequests, MaxSeconds

VARIABLES
    unit,
    detector, enforcers, quotas, batch, time, batches, swaps,
    dry, counts, known, now, lastReset, totals, passed, requests

tenancyVars == <<detector, enforcers, quotas, batch, time, batches, swaps>>
prwLimitVars == <<dry, counts, known, now, lastReset, totals, passed, requests>>
allVars == <<unit, limitVars, tenancyVars, prwLimitVars, storeVars>>

-----------------------------------------------------------------------------
(* The limits enforcer *)

LimitRule(name, metrics, env, groupBy, rate, card, action) ==
    [name |-> name, metrics |-> metrics, env |-> env, groupBy |-> groupBy, maxDatapointsRate |-> rate,
     maxCardinality |-> card, action |-> action, tiers |-> <<>>, labelLimit |-> -1, labelAction |-> "strip",
     priority |-> [g \in {"prod", "dev", "cpu", "mem"} |-> IF g = "prod" THEN 2 ELSE 1]]

\* A file with labelled rules, the last of them behind one for the same metric,
\* and a shorter one with lower limits and tiers.
LimitFiles ==
    << << LimitRule("a", {"cpu"}, "prod", FALSE, 1, 0, "drop"),
          [LimitRule("b", {"mem"}, "", TRUE, 4, 3, "adaptive") EXCEPT !.labelLimit = 1],
          LimitRule("c", {"mem"}, "prod", FALSE, 1, 0, "log") >>,
       << [LimitRule("b", {"mem", "cpu"}, "", TRUE, 1, 1, "adaptive") EXCEPT
             !.tiers = <<[atPercent |-> 50, action |-> "sample"], [atPercent |-> 200, action |-> "adaptive"]>>,
             !.labelLimit = 1, !.labelAction = "drop"] >> >>

LimitMetrics ==
    { [name |-> "cpu", env |-> "prod", points |-> <<"u1">>],
      [name |-> "cpu", env |-> "dev", points |-> <<"u2">>],
      [name |-> "mem", env |-> "prod", points |-> <<"u1", "u2">>] }

\* The hybrid tracker, with a rule whose group reaches the threshold.
HybridFiles == << << LimitRule("c", {"mem"}, "", FALSE, 0, 4, "log") >> >>

-----------------------------------------------------------------------------
(* Tenants *)

Quota(dps, card, action, priority) ==
    [set |-> TRUE, maxDatapoints |-> dps, maxCardinality |-> card, action |-> action, priority |-> priority,
     window |-> 1]

Unset == [Quota(0, 0, "", 0) EXCEPT !.set = FALSE]

TenantDetectors ==
    << [enabled |-> TRUE, mode |-> "label", inject |-> TRUE, strip |-> TRUE],
       [enabled |-> TRUE, mode |-> "attribute", inject |-> FALSE, strip |-> FALSE],
       [enabled |-> FALSE, mode |-> "header", inject |-> TRUE, strip |-> FALSE] >>

TenantQuotas ==
    << [global |-> Quota(4, 0, "drop", 0), default |-> Quota(2, 0, "", 0),
        tenants |-> [acme |-> Quota(3, 2, "drop", 1)]],
       [global |-> Quota(3, 2, "adaptive", 0), default |-> Unset,
        tenants |-> [acme |-> Quota(2, 0, "log", 1), free |-> Quota(2, 3, "adaptive", 0)]] >>

Point(label, s) == [label |-> label, s |-> s, tenant |-> ""]

TenantBatches ==
    { << [attr |-> "acme", points |-> <<Point("acme", "x"), Point("free", "y")>>],
         [attr |-> "free", points |-> <<Point("free", "x")>>] >>,
      << [attr |-> "", points |-> <<Point("", "x")>>],
         [attr |-> "", points |-> <<Point("", "y"), Point("", "y")>>] >> }

Tenants == INSTANCE Tenancy WITH
    Detectors <- TenantDetectors, Quotas <- TenantQuotas, Batches <- TenantBatches, MaxBatches <- MaxTenantBatches

-----------------------------------------------------------------------------
(* The limits of remote write *)

PRWRule(metrics, label, rate, card, action) ==
    [metrics |-> metrics, label |-> label, rate |-> rate, cardinality |-> card, action |-> action]

RemoteRules ==
    << PRWRule({"cpu"}, "", 2, 1, "drop"), PRWRule({}, "x", 3, 0, "drop"), PRWRule({"mem"}, "", 1, 2, "log"),
       PRWRule({}, "", 1, 1, "drop") >>

RemoteSeries ==
    { [name |-> "cpu", label |-> "x", n |-> 2], [name |-> "cpu", label |-> "y", n |-> 1],
      [name |-> "mem", label |-> "x", n |-> 2] }

Remote == INSTANCE PRWLimits WITH PRWRules <- RemoteRules, PRWSeries <- RemoteSeries, MaxRequests <- MaxPRWRequests

\* A window never sends on more than the quota of its tenant, and what passes a rule
\* of remote write in a second stays within its rate.
QuotaKept == (unit = "tenants" => Tenants!QuotaKept) /\ (unit = "remote" => Remote!RatesHold)

-----------------------------------------------------------------------------
\* Workers and keys are interchangeable: no definition names one.
Alike == Permutations(Workers) \union Permutations(Keys)

\* The two tracker kinds are spread over the two settings of dry run, and the
\* sketches get one event less.
MCInit ==
    /\ unit \in {"limits", "tenants", "remote", "store"}
    /\ LimitsInit
    /\ IF unit = "limits" THEN dryRun = (tracker = "hll") ELSE ~dryRun /\ tracker = "bloom"
    /\ Tenants!Init /\ (unit = "tenants" \/ (detector = 1 /\ quotas = 0))
    /\ Remote!Init /\ (unit = "remote" \/ ~dry)
    /\ StoreInit

MCNext ==
    \/ /\ unit = "limits" /\ LimitsNext
       /\ tracker = "hll" => events' < MaxEvents
       /\ UNCHANGED <<unit, tenancyVars, prwLimitVars, storeVars>>
    \/ unit = "tenants" /\ Tenants!Next /\ UNCHANGED <<unit, limitVars, prwLimitVars, storeVars>>
    \/ unit = "remote" /\ Remote!Next /\ UNCHANGED <<unit, limitVars, tenancyVars, storeVars>>
    \/ unit = "store" /\ StoreNext /\ UNCHANGED <<unit, limitVars, tenancyVars, prwLimitVars>>

MCSpec == MCInit /\ [][MCNext]_allVars

-----------------------------------------------------------------------------
HybridStep(A) == A /\ UNCHANGED <<unit, tenancyVars, prwLimitVars, storeVars>>

HybridSpec ==
    /\ MCInit /\ unit = "limits"
    /\ [][HybridStep(HybridNext)]_allVars
    /\ \A w \in Workers : WF_allVars(HybridStep(Step(w) \/ ModeSwitch(w)))
    /\ WF_allVars(HybridStep(ScrapeStats))
===============================================================================
