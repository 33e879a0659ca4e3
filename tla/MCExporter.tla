----------------------------- MODULE MCExporter -----------------------------
(* Model-checking instances of the queued exporter, in its always-queue modes
   and in its legacy mode (unit says which one runs). *)
EXTENDS QueuedExporter, TLC

CONSTANTS g1, g2

Config(first, second, batches, oldest, timeouts) ==
    [role |-> (g1 :> first @@ g2 :> second), batches |-> batches,
     dropOldest |-> oldest, timesOut |-> timeouts]

Big == {1, 2, 3}   \* must be split twice
Bad == {4}         \* is refused
Small == {5, 6}    \* must be split once
Fine == {7}

AllBatches == {Big, Bad, Small, Fine}

Pipeline == {Config("preparer", "sender", {Small, Bad}, TRUE, FALSE)}

Modes ==
    Pipeline \cup
    {Config("worker", "worker", {Big, Bad}, TRUE, FALSE),
     Config("worker", "worker", {Small, Fine}, FALSE, FALSE),
     Config("preparer", "sender", {Small, Bad}, FALSE, TRUE),
     Config("worker", "memory", {Small, Fine}, TRUE, TRUE),
     Config("memory", "memory", {Small, Fine}, FALSE, FALSE)}

-----------------------------------------------------------------------------
VARIABLES
    unit,           \* "always" or "legacy"
    dropOldest, timesOut, answer, q, at, hand, phase, drained, delay, undrained, stopped, closed,
    sent, gone, forgotten   \* the variables of LegacyExporter

legacyVars == <<dropOldest, timesOut, answer, q, at, hand, phase, drained, delay, undrained,
                stopped, closed, sent, gone, forgotten>>

LegacyBatches == {Small, Bad}

Legacy == INSTANCE LegacyExporter WITH
    Batches <- LegacyBatches, Cap <- DiskCap, BatchDrainSize <- 2, BurstDrainSize <- 1,
    BaseDelay <- 1, MaxDelay <- 4,
    pc <- at, held <- hand, failed <- undrained, stop <- stopped,
    delivered <- sent, dropped <- gone, lost <- forgotten

MCInit ==
    /\ unit \in {"always", "legacy"}
    /\ Init /\ (unit = "legacy" => conf = CHOOSE c \in Configs : TRUE)
    /\ Legacy!Init /\ timesOut = ~dropOldest /\ (unit = "always" => dropOldest)

InAlways(A) == unit = "always" /\ A /\ UNCHANGED <<conf, unit, legacyVars>>
InLegacy(A) == unit = "legacy" /\ A /\ UNCHANGED <<dropOldest, timesOut, unit, vars>>

MCNext == InAlways(Step) \/ InLegacy(Legacy!Step)

mcvars == <<unit, vars, legacyVars>>

\* The fairness of QueuedExporter and that of LegacyExporter; one of them runs.
MCSpec ==
    /\ MCInit /\ [][MCNext]_mcvars
    /\ WF_mcvars(InAlways(CloseStep) \/ InLegacy(Legacy!LoopStep))
    /\ SF_mcvars(InAlways(Allow(g1)) \/ InLegacy(Legacy!Answers))
    /\ SF_mcvars(InAlways(Allow(g2)))
    /\ \A g \in Goroutines : WF_mcvars(InAlways(Work(g))) /\ SF_mcvars(InAlways(Answer(g)))

\* Without always-queue: what Export answers is true, and what it queued is
\* delivered, dropped by a rule or still here (LegacyExporter).
QueuedIsSafe == Legacy!QueuedIsSafe

\* The backlog is worked off once the backend answers: with always-queue every batch is
\* delivered or dropped by a rule (QueuedExporter), without it the retry loop empties the
\* queue and its backoff ends (LegacyExporter).
BacklogSettles == EventuallySettled /\ Legacy!LoopRecovers
=============================================================================
