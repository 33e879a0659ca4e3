------------------------------ MODULE Spillover ------------------------------
(***************************************************************************)
(* Hybrid mode: the spillover state of internal/queue/batchqueue.go and    *)
(* the part of QueuedExporter.Export that uses it.  Export is called by    *)
(* several flush goroutines; nothing guards the mode.  Evaluate reads it   *)
(* anew for the target, for each of two comparisons, for the step down and *)
(* for what it returns, and other goroutines may store it in between.  The *)
(* memory queue is a fill level, the disk queue a place that accepts or    *)
(* fails.  Ratios are percentages.                                         *)
(***************************************************************************)
EXTENDS Integers

CONSTANTS
    Callers,      \* goroutines in Export
    Cap,          \* capacity of the memory queue, in batches
    SpillPct, HysteresisPct,
    DropOldest,   \* whether a full memory queue drops its oldest batch
    MinMode       \* bound: lower modes are not told apart from this one

MemoryOnly == 0
PartialDisk == 1
AllDisk == 2
LoadShedding == 3

VARIABLES
    level,        \* batches in the memory queue
    mode,         \* SpilloverState.mode
    odd,          \* parity of SpilloverState.counter
    pc,           \* of the callers
    util, target  \* of the callers, while needed: utilization read, and the mode to be stored

vars == <<level, mode, odd, pc, util, target>>

Init ==
    /\ level = 0 /\ mode = MemoryOnly /\ odd = FALSE
    /\ pc = [g \in Callers |-> "idle"]
    /\ util = [g \in Callers |-> 0] /\ target = [g \in Callers |-> MemoryOnly]

Goto(g, where) == pc' = [pc EXCEPT ![g] = where]

-----------------------------------------------------------------------------
(* Evaluate *)

Utilization(l) == (l * 100) \div Cap

\* (mutant) no way back below the recovery threshold
TargetStays(u, m) ==
    CASE u >= SpillPct + 15 -> LoadShedding
      [] u >= SpillPct + 10 /\ u < SpillPct + 15 -> AllDisk
      [] u >= SpillPct /\ u < SpillPct + 10 -> PartialDisk
      [] OTHER -> m

Target(u, m) ==
    CASE u >= SpillPct + 15 -> LoadShedding
      [] u >= SpillPct + 10 /\ u < SpillPct + 15 -> AllDisk
      [] u >= SpillPct /\ u < SpillPct + 10 -> PartialDisk
      [] u >= HysteresisPct /\ u < SpillPct -> m
      [] OTHER -> MemoryOnly

\* Evaluate returns, and forgets its target
Returned(g) ==
    /\ target' = [target EXCEPT ![g] = MemoryOnly]
    /\ Goto(g, "decide")

ReadUtilization(g) ==
    /\ pc[g] = "idle"
    /\ util' = [util EXCEPT ![g] = Utilization(level)]
    /\ Goto(g, "target")
    /\ UNCHANGED <<level, mode, odd, target>>

FindTarget(g) ==
    /\ pc[g] = "target"
    /\ target' = [target EXCEPT ![g] = Target(util[g], mode)]
    /\ util' = [util EXCEPT ![g] = 0]
    /\ Goto(g, "above")
    /\ UNCHANGED <<level, mode, odd>>

\* escalation is immediate
CompareAbove(g) ==
    /\ pc[g] = "above"
    /\ Goto(g, IF target[g] > mode THEN "store" ELSE "below")
    /\ UNCHANGED <<level, mode, odd, util, target>>

\* full recovery goes straight to memory only, everything else one step down
CompareBelow(g) ==
    /\ pc[g] = "below"
    /\ IF target[g] < mode
       THEN Goto(g, IF target[g] = MemoryOnly THEN "store" ELSE "lower") /\ UNCHANGED target
       ELSE Returned(g)
    /\ UNCHANGED <<level, mode, odd, util>>

\* one below the mode that is there now
StepDown(g) ==
    /\ pc[g] = "lower"
    /\ target' = [target EXCEPT ![g] = IF mode > MinMode THEN mode - 1 ELSE MinMode]
    /\ Goto(g, "store")
    /\ UNCHANGED <<level, mode, odd, util>>

StoreMode(g) ==
    /\ pc[g] = "store"
    /\ mode' = target[g]
    /\ Returned(g)
    /\ UNCHANGED <<level, odd, util>>

-----------------------------------------------------------------------------
(* Export: the switch on the mode that Evaluate returns.  It has no default: with *)
(* a mode below MemoryOnly the batch is stored nowhere and Export returns nil.    *)

Decide(g) ==
    /\ pc[g] = "decide"
    /\ Goto(g, CASE mode = MemoryOnly -> "memory"
                 [] mode = PartialDisk -> "alternate"
                 [] mode = AllDisk -> "spill"
                 [] OTHER -> "idle")
    /\ UNCHANGED <<level, mode, odd, util, target>>

\* ShouldSpillThisBatch reads the mode again
Alternate(g) ==
    /\ pc[g] = "alternate"
    /\ odd' = IF mode = PartialDisk THEN ~odd ELSE odd
    /\ Goto(g, IF (mode = PartialDisk /\ odd) \/ mode >= AllDisk THEN "spill" ELSE "memory")
    /\ UNCHANGED <<level, mode, util, target>>

\* the rate limiter allows it, or not
Spill(g) ==
    /\ pc[g] = "spill"
    /\ \E where \in {"disk", "limited"} : Goto(g, where)
    /\ UNCHANGED <<level, mode, odd, util, target>>

\* PushBatch; a refused batch goes to disk, unless it was the limiter that sent it here
PutMemory(g) ==
    /\ pc[g] \in {"memory", "limited"}
    /\ level' = IF level < Cap THEN level + 1 ELSE level
    /\ Goto(g, IF level < Cap \/ DropOldest \/ pc[g] = "limited" THEN "idle" ELSE "disk")
    /\ UNCHANGED <<mode, odd, util, target>>

\* the push to disk succeeds, or its error is the answer
PutDisk(g) ==
    /\ pc[g] = "disk"
    /\ Goto(g, "idle")
    /\ UNCHANGED <<level, mode, odd, util, target>>

\* a memory worker takes a batch
Pop ==
    /\ level > 0
    /\ level' = level - 1
    /\ UNCHANGED <<mode, odd, pc, util, target>>

Step(g) ==
    \/ ReadUtilization(g) \/ FindTarget(g) \/ CompareAbove(g) \/ CompareBelow(g)
    \/ StepDown(g) \/ StoreMode(g) \/ Decide(g)
    \/ Alternate(g) \/ Spill(g) \/ PutMemory(g) \/ PutDisk(g)

Next == Pop \/ \E g \in Callers : Step(g)

Spec == Init /\ [][Next]_vars

-----------------------------------------------------------------------------
\* The mode is one of the four that Export knows, in every state.
ModeKnown == mode \in MemoryOnly..LoadShedding

\* The modes in which Export refuses every batch, or stores none and says nothing.
Shedding == mode = LoadShedding
Forgetting == ~ModeKnown
=============================================================================
