--------------------------- MODULE CircuitBreaker ---------------------------
(***************************************************************************)
(* The lock-free circuit breaker of the queued exporters                   *)
(* (internal/exporter/queued.go).  Every atomic load, store, add and       *)
(* compare-and-swap of AllowRequest, RecordSuccess and RecordFailure is a  *)
(* step of its own, because nothing else orders the goroutines that call   *)
(* them.  A goroutine is "idle", inside AllowRequest ("open", "cas",       *)
(* "store", "half"), "granted" (its export is in flight), inside           *)
(* RecordSuccess ("s_...") or inside RecordFailure ("f_...").              *)
(*                                                                         *)
(* Time is abstracted to one bit: elapsed says whether resetTimeout has    *)
(* passed since lastFailure was stored.  consecutiveFails saturates at     *)
(* FailureThreshold: the code only compares it with the threshold and      *)
(* resets it to zero.                                                      *)
(***************************************************************************)
EXTENDS Naturals, FiniteSets

CONSTANTS
    Callers,           \* flush goroutines, workers, the retry loop
    FailureThreshold   \* failures in a row that trip the breaker

ASSUME ThresholdAssumption == FailureThreshold \in Nat \ {0}

VARIABLES
    state,             \* atomic state
    consecutiveFails,  \* atomic counter, saturated at FailureThreshold
    elapsed,           \* resetTimeout has passed since lastFailure
    halfOpenProbe,     \* atomic flag
    step,              \* where each goroutine is
    seen,              \* the state each goroutine loaded in Record...
    tripped,           \* goroutines whose Add(1) reached the threshold
    abandoned          \* history: a caller was granted a request and reported nothing

circuitVars == <<state, consecutiveFails, elapsed, halfOpenProbe, step, seen, tripped, abandoned>>

CircuitStates == {"closed", "open", "half_open"}
CircuitSteps == {"idle", "open", "cas", "store", "half", "granted",
           "s_reset", "s_clear", "s_close",
           "f_stamp", "f_load", "f_clear", "f_open"}

CircuitInit ==
    /\ state = "closed"
    /\ consecutiveFails = 0
    /\ elapsed = TRUE
    /\ halfOpenProbe = 0
    /\ step = [g \in Callers |-> "idle"]
    /\ seen = [g \in Callers |-> "closed"]
    /\ tripped = {}
    /\ abandoned = FALSE

StepTo(g, p) == step' = [step EXCEPT ![g] = p]

-----------------------------------------------------------------------------
(* AllowRequest *)

\* state.Load() and the switch on it
AllowLoad(g) ==
    /\ step[g] = "idle"
    /\ StepTo(g, CASE state = "closed" -> "granted"
                 [] state = "open" -> "open"
                 [] OTHER -> "half")
    /\ UNCHANGED <<state, consecutiveFails, elapsed, halfOpenProbe, seen, tripped, abandoned>>

\* the reset timeout test
AllowOpen(g) ==
    /\ step[g] = "open"
    /\ StepTo(g, IF elapsed THEN "cas" ELSE "idle")
    /\ UNCHANGED <<state, consecutiveFails, elapsed, halfOpenProbe, seen, tripped, abandoned>>

\* state.CompareAndSwap(CircuitOpen, CircuitHalfOpen)
AllowSwap(g) ==
    /\ step[g] = "cas"
    /\ IF state = "open"
       THEN /\ state' = "half_open"
            /\ StepTo(g, "store")
       ELSE /\ StepTo(g, "idle")
            /\ UNCHANGED state
    /\ UNCHANGED <<consecutiveFails, elapsed, halfOpenProbe, seen, tripped, abandoned>>

\* halfOpenProbe.Store(1), after the swap
AllowStore(g) ==
    /\ step[g] = "store"
    /\ halfOpenProbe' = 1
    /\ StepTo(g, "granted")
    /\ UNCHANGED <<state, consecutiveFails, elapsed, seen, tripped, abandoned>>

\* halfOpenProbe.CompareAndSwap(0, 1)
AllowHalf(g) ==
    /\ step[g] = "half"
    /\ IF halfOpenProbe = 0
       THEN /\ halfOpenProbe' = 1
            /\ StepTo(g, "granted")
       ELSE /\ StepTo(g, "idle")
            /\ UNCHANGED halfOpenProbe
    /\ UNCHANGED <<state, consecutiveFails, elapsed, seen, tripped, abandoned>>

-----------------------------------------------------------------------------
(* RecordSuccess *)

\* the export returned nil; state.Load()
Success(g) ==
    /\ step[g] = "granted"
    /\ seen' = [seen EXCEPT ![g] = state]
    /\ StepTo(g, "s_reset")
    /\ UNCHANGED <<state, consecutiveFails, elapsed, halfOpenProbe, tripped, abandoned>>

\* (mutant) the half-open branch is forgotten
SuccessResetOnly(g) ==
    /\ step[g] = "s_reset"
    /\ consecutiveFails' = 0
    /\ StepTo(g, "idle")
    /\ UNCHANGED <<state, elapsed, halfOpenProbe, seen, tripped, abandoned>>

\* consecutiveFails.Store(0) and the test of the loaded state
SuccessReset(g) ==
    /\ step[g] = "s_reset"
    /\ consecutiveFails' = 0
    /\ StepTo(g, IF seen[g] = "half_open" THEN "s_clear" ELSE "idle")
    /\ UNCHANGED <<state, elapsed, halfOpenProbe, seen, tripped, abandoned>>

\* halfOpenProbe.Store(0)
SuccessClear(g) ==
    /\ step[g] = "s_clear"
    /\ halfOpenProbe' = 0
    /\ StepTo(g, "s_close")
    /\ UNCHANGED <<state, consecutiveFails, elapsed, seen, tripped, abandoned>>

\* state.Store(CircuitClosed)
SuccessClose(g) ==
    /\ step[g] = "s_close"
    /\ state' = "closed"
    /\ StepTo(g, "idle")
    /\ UNCHANGED <<consecutiveFails, elapsed, halfOpenProbe, seen, tripped, abandoned>>

-----------------------------------------------------------------------------
(* RecordFailure *)

\* the export failed; consecutiveFails.Add(1)
Failure(g) ==
    /\ step[g] = "granted"
    /\ consecutiveFails' = IF consecutiveFails < FailureThreshold
                           THEN consecutiveFails + 1
                           ELSE FailureThreshold
    /\ tripped' = IF consecutiveFails' = FailureThreshold THEN tripped \cup {g} ELSE tripped \ {g}
    /\ StepTo(g, "f_stamp")
    /\ UNCHANGED <<state, elapsed, halfOpenProbe, seen, abandoned>>

\* lastFailure.Store(now)
FailureStamp(g) ==
    /\ step[g] = "f_stamp"
    /\ elapsed' = FALSE
    /\ StepTo(g, "f_load")
    /\ UNCHANGED <<state, consecutiveFails, halfOpenProbe, seen, tripped, abandoned>>

\* state.Load() and the two tests on it
FailureLoad(g) ==
    /\ step[g] = "f_load"
    /\ seen' = [seen EXCEPT ![g] = state]
    /\ StepTo(g, CASE state = "half_open" -> "f_clear"
                 [] state = "closed" /\ g \in tripped -> "f_open"
                 [] OTHER -> "idle")
    /\ UNCHANGED <<state, consecutiveFails, elapsed, halfOpenProbe, tripped, abandoned>>

\* halfOpenProbe.Store(0)
FailureClear(g) ==
    /\ step[g] = "f_clear"
    /\ halfOpenProbe' = 0
    /\ StepTo(g, "f_open")
    /\ UNCHANGED <<state, consecutiveFails, elapsed, seen, tripped, abandoned>>

\* state.Store(CircuitOpen), in either branch
FailureOpen(g) ==
    /\ step[g] = "f_open"
    /\ state' = "open"
    /\ StepTo(g, "idle")
    /\ UNCHANGED <<consecutiveFails, elapsed, halfOpenProbe, seen, tripped, abandoned>>

-----------------------------------------------------------------------------
\* The request was granted but the caller reports no outcome: the retry loop
\* that finds its queue empty, an entry that does not deserialize.
Abandon(g) ==
    /\ step[g] = "granted"
    /\ abandoned' = TRUE
    /\ StepTo(g, "idle")
    /\ UNCHANGED <<state, consecutiveFails, elapsed, halfOpenProbe, seen, tripped>>

\* resetTimeout passes without another failure
ResetTimeout ==
    /\ ~elapsed
    /\ elapsed' = TRUE
    /\ UNCHANGED <<state, consecutiveFails, halfOpenProbe, step, seen, tripped, abandoned>>

\* what a goroutine does once it has called AllowRequest
Running(g) ==
    \/ AllowOpen(g) \/ AllowSwap(g) \/ AllowStore(g) \/ AllowHalf(g)
    \/ Success(g) \/ SuccessReset(g) \/ SuccessClear(g) \/ SuccessClose(g)
    \/ Failure(g) \/ FailureStamp(g) \/ FailureLoad(g) \/ FailureClear(g) \/ FailureOpen(g)
    \/ Abandon(g)

CircuitNext == ResetTimeout \/ \E g \in Callers : AllowLoad(g) \/ Running(g)

\* Callers are scheduled and every export ends (its context has a
\* timeout), the clock advances, and data keeps arriving.
CircuitFairness ==
    /\ WF_circuitVars(ResetTimeout)
    /\ \A g \in Callers : WF_circuitVars(Running(g)) /\ WF_circuitVars(AllowLoad(g))

CircuitSpec == CircuitInit /\ [][CircuitNext]_circuitVars
FairCircuitSpec == CircuitSpec /\ CircuitFairness

-----------------------------------------------------------------------------
\* The variables keep to their domains.
CircuitTypeOK ==
    /\ state \in CircuitStates
    /\ consecutiveFails \in 0..FailureThreshold
    /\ elapsed \in BOOLEAN
    /\ halfOpenProbe \in {0, 1}
    /\ step \in [Callers -> CircuitSteps]
    /\ seen \in [Callers -> CircuitStates]
    /\ tripped \in SUBSET Callers
    /\ abandoned \in BOOLEAN

\* g holds a grant whose outcome will still be recorded while the circuit is
\* half-open, or is past the load that saw it half-open
Resolving(g) ==
    \/ step[g] \in {"store", "granted", "f_stamp", "f_load", "f_clear", "f_open",
                  "s_clear", "s_close"}
    \/ step[g] = "s_reset" /\ seen[g] = "half_open"

\* While every granted request reports its outcome, a half-open circuit always
\* has a caller that is going to move it on: the probe flag is never left set
\* by nobody (AllowRequest, RecordSuccess and RecordFailure in any order).
HalfOpenHasResolver ==
    state = "half_open" /\ ~abandoned => \E g \in Callers : Resolving(g)

\* The circuit is half-open, and every granted request has reported its outcome so far.
Probing == state = "half_open" /\ ~abandoned

\* "Circuit auto-probes every reset_timeout" (docs/alerting.md:489): every
\* half-open episode ends, whatever the callers do.
HalfOpenResolves == (state = "half_open") ~> (state # "half_open")

\* Half-open is entered from open only: a goroutine that saw the circuit open
\* and was then overtaken never pushes a closed circuit back to probing.
HalfOpenFromOpen == [][state' = "half_open" /\ state # "half_open" => state = "open"]_circuitVars
=============================================================================
