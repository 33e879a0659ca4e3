------------------------------- MODULE Tenancy -------------------------------
(***************************************************************************)
(* Tenants and their quotas (internal/tenant).  The pipeline takes its     *)
(* detector and its quota enforcer under a read lock, names the tenant of  *)
(* every resource, and hands the resources of each tenant to the enforcer, *)
(* one critical section for each tenant, in the order of a map.  A reload  *)
(* puts a new enforcer in place: a batch under way ends with the old one.  *)
(*                                                                         *)
(* A resource is [attr, points]; a point is [label, s, tenant]: the tenant *)
(* label it came with, the rest of its series, and the injected label.     *)
(***************************************************************************)
EXTENDS Integers, Sequences, FiniteSets
LOCAL INSTANCE SequencesExt
LOCAL INSTANCE Functions

CONSTANTS
    Flushers,       \* the callers of ProcessBatch
    Detectors,      \* detector configurations: [enabled, mode, inject, strip]
    Quotas,         \* quota files: [global, default, tenants]
    Batches,        \* what callers hand in: sequences of resources
    MaxBatches, MaxSwaps, MaxTime

VARIABLES
    detector,       \* the detector's configuration
    enforcers,      \* the quota enforcers built so far: [file, tenants, global]
    quotas,         \* pipeline.quotas: the number of the one in place, 0 for none
    batch,          \* flusher -> the batch it is in
    time, batches, swaps

tenancyVars == <<detector, enforcers, quotas, batch, time, batches, swaps>>

DefaultTenant == "default"
NoBatch == [on |-> FALSE, by |-> 0, buckets |-> << >>, out |-> <<>>]

\* sent is what left the enforcer in the window; the code has no such counter.
NewWindow(end) == [datapoints |-> 0, cardinality |-> {}, windowEnd |-> end, sent |-> 0]

NewQuotaEnforcer(file) == [file |-> file, tenants |-> << >>, global |-> NewWindow(-1)]

Init ==
    /\ detector \in DOMAIN Detectors
    /\ enforcers = <<NewQuotaEnforcer(1)>>
    /\ quotas \in {0, 1}
    /\ batch = [f \in Flushers |-> NoBatch]
    /\ time = 0 /\ batches = 0 /\ swaps = 0

-----------------------------------------------------------------------------
(* Detection *)

\* The first non-empty label of any point of the resource.
findLabelValue(rm) ==
    LET i == SelectInSeq(rm.points, LAMBDA p : p.label # "")
    IN IF i = 0 THEN "" ELSE rm.points[i].label

detectTenant(rm, headerTenant, cfg) ==
    LET found == CASE cfg.mode = "header" -> headerTenant
                   [] cfg.mode = "label" -> findLabelValue(rm)
                   [] cfg.mode = "attribute" -> rm.attr
    IN IF found = "" THEN DefaultTenant ELSE found

annotate(rm, tenant, cfg) ==
    [rm EXCEPT !.points = [i \in DOMAIN @ |->
        [@[i] EXCEPT !.tenant = IF cfg.inject THEN tenant ELSE @,
                     !.label = IF cfg.strip /\ cfg.mode = "label" THEN "" ELSE @]]]

\* Tenant -> the resources of the tenant, in the order they came in.
DetectAndAnnotate(rms, headerTenant, cfg) ==
    LET tenant(rm) == detectTenant(rm, headerTenant, cfg)
    IN [t \in {tenant(rms[i]) : i \in DOMAIN rms} |->
            LET mine == SelectSeq(rms, LAMBDA rm : tenant(rm) = t)
            IN [i \in DOMAIN mine |-> annotate(mine[i], t, cfg)]]

-----------------------------------------------------------------------------
(* Quotas *)

countRMDatapoints(rm) == Len(rm.points)
countDatapoints(rms) == FoldLeft(LAMBDA n, rm : n + countRMDatapoints(rm), 0, rms)

\* A series is its name and its labels; the resource is not part of it.
seriesKeys(rms) == FlattenSeq([i \in DOMAIN rms |-> rms[i].points])

countNewSeries(existing, keys) == Len(SelectSeq(keys, LAMBDA k : k \notin existing))

getTenantQuota(file, tenant) ==
    IF tenant \in DOMAIN Quotas[file].tenants THEN Quotas[file].tenants[tenant] ELSE Quotas[file].default

Limited(q) == q.maxDatapoints > 0 \/ q.maxCardinality > 0

\* The window, or a new one when it has expired.
Current(w, q) == IF time > w.windowEnd THEN NewWindow(time + q.window) ELSE w

Exceeded(w, q, rms) ==
    \/ q.maxDatapoints > 0 /\ w.datapoints + countDatapoints(rms) > q.maxDatapoints
    \/ q.maxCardinality > 0
       /\ Cardinality(w.cardinality) + countNewSeries(w.cardinality, seriesKeys(rms)) > q.maxCardinality

Charge(w, rms) ==
    [w EXCEPT !.datapoints = @ + countDatapoints(rms), !.cardinality = @ \union Range(seriesKeys(rms))]

adaptiveFilterFresh(rms, w, q) ==                            \* (mutant)
    LET fits(k) == countDatapoints(SubSeq(rms, 1, k)) <= q.maxDatapoints
    IN SubSeq(rms, 1, CHOOSE k \in 0..Len(rms) : fits(k) /\ (k = Len(rms) \/ ~fits(k + 1)))

\* The resources from the first on, as long as they fit what is left of the
\* datapoints.  Series are not looked at.
adaptiveFilter(rms, w, q) ==
    LET remaining == q.maxDatapoints - w.datapoints
        fits(k) == countDatapoints(SubSeq(rms, 1, k)) <= remaining
    IN IF remaining <= 0 THEN <<>>
       ELSE SubSeq(rms, 1, CHOOSE k \in 0..Len(rms) : fits(k) /\ (k = Len(rms) \/ ~fits(k + 1)))

\* The global level: the window afterwards and whether the batch goes on.  What
\* goes on is charged here, whatever the tenant's quota does to it later.
GlobalLevel(e, q, rms) ==
    LET g == Quotas[e.file].global
        w == Current(e.global, g)
        over == Exceeded(w, g, rms)
        stop == over /\ (g.action \in {"", "drop"} \/ (g.action = "adaptive" /\ q.set /\ q.priority <= 0))
    IN IF ~Limited(g) THEN [window |-> e.global, pass |-> TRUE]
       ELSE [window |-> IF stop THEN w ELSE Charge(w, rms), pass |-> ~stop]

\* The tenant's level: the window afterwards and what is left of the batch.
TenantLevel(e, tenant, q, rms) ==
    LET w == Current(IF tenant \in DOMAIN e.tenants THEN e.tenants[tenant] ELSE NewWindow(time + q.window), q)
        over == Exceeded(w, q, rms)
        left == CASE ~over \/ q.action = "log" -> rms
                  [] over /\ q.action = "drop" -> <<>>
                  [] over /\ q.action \in {"", "adaptive"} -> adaptiveFilter(rms, w, q)
    IN IF ~q.set \/ ~Limited(q) THEN [tenants |-> e.tenants, left |-> rms]
       ELSE [tenants |-> [t \in DOMAIN e.tenants \union {tenant} |->
                            IF t = tenant THEN [Charge(w, left) EXCEPT !.sent = @ + countDatapoints(left)]
                            ELSE e.tenants[t]],
             left |-> left]

-----------------------------------------------------------------------------
(* The pipeline *)

\* ProcessBatch takes the detector and the enforcer, names the tenants and
\* is done when there are no quotas.
ProcessBatch(f) ==
    \E rms \in Batches :
        /\ ~batch[f].on /\ batches < MaxBatches
        /\ batches' = batches + 1
        /\ LET cfg == Detectors[detector]
           IN batch' = IF ~cfg.enabled \/ quotas = 0 THEN batch
                       ELSE [batch EXCEPT ![f] = [NoBatch EXCEPT !.on = TRUE, !.by = quotas,
                                                                 !.buckets = DetectAndAnnotate(rms, "", cfg)]]
        /\ UNCHANGED <<detector, enforcers, quotas, time, swaps>>

\* QuotaEnforcer.Process for one tenant of the batch.
ProcessTenant(f) ==
    \E tenant \in DOMAIN batch[f].buckets :
        LET b == batch[f]
            e == enforcers[b.by]
            q == getTenantQuota(e.file, tenant)
            rms == b.buckets[tenant]
            global == GlobalLevel(e, q, rms)
            own == TenantLevel(e, tenant, q, rms)
            left == IF global.pass THEN own.left ELSE <<>>
        IN /\ enforcers' = [enforcers EXCEPT ![b.by].global = [global.window EXCEPT !.sent = @ + countDatapoints(left)],
                                             ![b.by].tenants = IF global.pass THEN own.tenants ELSE @]
           /\ batch' = [batch EXCEPT ![f].buckets = [t \in DOMAIN @ \ {tenant} |-> @[t]],
                                     ![f].out = @ \o left]
           /\ UNCHANGED <<detector, quotas, time, batches, swaps>>

ReturnBatch(f) ==
    /\ batch[f].on /\ DOMAIN batch[f].buckets = {}
    /\ batch' = [batch EXCEPT ![f] = NoBatch]
    /\ UNCHANGED <<detector, enforcers, quotas, time, batches, swaps>>

SetQuotaEnforcer(file) ==
    /\ swaps < MaxSwaps
    /\ enforcers' = Append(enforcers, NewQuotaEnforcer(file))
    /\ quotas' = Len(enforcers) + 1
    /\ swaps' = swaps + 1
    /\ UNCHANGED <<detector, batch, time, batches>>

ReloadDetector(d) ==
    /\ swaps < MaxSwaps
    /\ detector' = d
    /\ swaps' = swaps + 1
    /\ UNCHANGED <<enforcers, quotas, batch, time, batches>>

Pass ==
    /\ time < MaxTime
    /\ time' = time + 1
    /\ UNCHANGED <<detector, enforcers, quotas, batch, batches, swaps>>

Next ==
    \/ \E f \in Flushers : ProcessBatch(f) \/ ProcessTenant(f) \/ ReturnBatch(f)
    \/ \E file \in DOMAIN Quotas : SetQuotaEnforcer(file)
    \/ \E d \in DOMAIN Detectors : ReloadDetector(d)
    \/ Pass

Spec == Init /\ [][Next]_tenancyVars

-----------------------------------------------------------------------------
(* Properties *)

Caps(q) == q.action \in {"", "drop", "adaptive"}

\* A window never sends on more datapoints than its quota: a tenant's, unless
\* the action is to log, and the global one when its action is to drop; the
\* series of a tenant are kept to their number by the drop action only.  Held
\* by every enforcer, the replaced ones that still finish a batch included.
QuotaKept ==
    \A i \in DOMAIN enforcers :
        LET e == enforcers[i]
            g == Quotas[e.file].global
        IN /\ (g.maxDatapoints > 0 /\ g.action \in {"", "drop"}) => e.global.sent <= g.maxDatapoints
           /\ \A t \in DOMAIN e.tenants :
                LET q == getTenantQuota(e.file, t)
                IN /\ (q.maxDatapoints > 0 /\ Caps(q)) => e.tenants[t].sent <= q.maxDatapoints
                   /\ (q.maxCardinality > 0 /\ q.action = "drop") =>
                            Cardinality(e.tenants[t].cardinality) <= q.maxCardinality
===============================================================================
