-------------------------- MODULE ProcessingProofs --------------------------
(***************************************************************************)
(* Proofs about Processing: a datapoint that an aggregate rule took counts *)
(* once (AggregateOnceAlways) and reaches the output by the end of the     *)
(* shutdown (ShutdownDeliversAlways).                                      *)
(*                                                                         *)
(* Neither property is inductive.  IInv adds what they rest on: a          *)
(* datapoint that a worker still has is in no group, batch or output       *)
(* (Taken, Apart), so that Ingest cannot add it twice; what a state, a     *)
(* batch and the output hold is disjoint (Apart), so that flushing a group *)
(* and delivering a batch only move datapoints; the rule states in use come *)
(* from one configuration and carry its staleness (Current), so that the   *)
(* cleanup meets only empty groups when every rule flushes in time (Kept); *)
(* a loop that waits or has ended has no batch, and until the shutdown the *)
(* loops run unless a reload is between its Stop and its Start (Loops); and *)
(* a loop that ended in the shutdown left its state empty, if the receivers *)
(* stopped in time (Ending).  One lemma per action shows that the action   *)
(* keeps IInv.                                                             *)
(***************************************************************************)
EXTENDS Processing, SumProofs, FiniteSetTheorems

-----------------------------------------------------------------------------
(* The operators *)

\* the least of a set of numbers is one of them
LEMMA LeastIsIn ==
    ASSUME NEW I, I \subseteq Nat, I # {}
    PROVE  Min(I) \in I
<1>1. \E x \in I : \A y \in I : x <= y
  BY LeastOf, Zenon
<1>2. QED
  BY ZenonT(30), <1>1 DEF Min

\* two sequences one after the other
LEMMA JoinIs ==
    ASSUME NEW q, NEW r, NEW m \in Nat, NEW n \in Nat,
           q = [i \in 1..m |-> q[i]], r = [i \in 1..n |-> r[i]]
    PROVE  /\ q \o r = [i \in 1..(m + n) |-> (q \o r)[i]]
           /\ \A i \in 1..m : (q \o r)[i] = q[i]
           /\ \A i \in 1..n : (q \o r)[m + i] = r[i]
           /\ Len(q) = m
           /\ DOMAIN (q \o r) = 1..(m + n)
<1> DEFINE S == {q[i] : i \in 1..m} \cup {r[i] : i \in 1..n}
<1>1. q \in [1..m -> S] /\ r \in [1..n -> S]
  OBVIOUS
<1> HIDE DEF S
<1>2. q \in Seq(S) /\ r \in Seq(S)
  BY <1>1
<1>3. Len(q) = m /\ Len(r) = n
  BY <1>1, <1>2
<1>4. /\ q \o r \in Seq(S) /\ Len(q \o r) = m + n
      /\ \A i \in 1..(m + n) : (q \o r)[i] = IF i <= m THEN q[i] ELSE r[i - m]
  BY ZenonT(30), <1>2, <1>3, ConcatProperties
<1>5. \A i \in 1..n : m + i \in 1..(m + n) /\ ~(m + i <= m) /\ (m + i) - m = i
  OBVIOUS
<1>6. \A i \in 1..m : i \in 1..(m + n) /\ i <= m
  OBVIOUS
<1>7. \A i \in 1..n : (q \o r)[m + i] = r[i]
  BY <1>4, <1>5
<1>8. \A i \in 1..m : (q \o r)[i] = q[i]
  BY <1>4, <1>6
<1>9. DOMAIN (q \o r) = 1..(m + n) /\ q \o r = [i \in 1..(m + n) |-> (q \o r)[i]]
  BY SMTT(30), ZenonT(30), <1>4
<1>10. QED
  BY <1>3, <1>7, <1>8, <1>9

-----------------------------------------------------------------------------
(* The invariant *)

Busy == {"get", "put", "walk", "sample", "keep?", "downsample", "ingestAndEmit", "aggregate", "ingest"}

IsSequence(q) == \E n \in Nat : q = [i \in 1..n |-> q[i]]

\* the shape of the variables
Shape ==
    /\ Points \in Streams
    /\ \E n \in Nat : DOMAIN fate = 1..n
    /\ DOMAIN worker = Workers
    /\ \A w \in Workers : DOMAIN worker[w] = DOMAIN Idle /\ worker[w].at \in Busy \cup {"idle", "next"}
    /\ \E n \in Nat : /\ states = [s \in 1..n |-> states[s]]
                      /\ loop = [s \in 1..n |-> loop[s]]
                      /\ cargo = [s \in 1..n |-> cargo[s]]
    /\ \A s \in DOMAIN states : DOMAIN states[s] = {"file", "index", "groups"}
    /\ \A s \in DOMAIN loop : loop[s] \in {"off", "wait", "emit", "last"}
    /\ IsSequence(delivered)
    /\ \E n \in Nat : aggRules \in [1..n -> DOMAIN states]
    /\ started \in BOOLEAN /\ outputFn \in BOOLEAN
    /\ "at" \in DOMAIN hup
    /\ hup.at \in {"idle", "clear", "stop", "join", "swap", "restart"}
    /\ hup.at # "idle" => DOMAIN hup = {"at", "cfg"} /\ hup.cfg \in DOMAIN Config
    /\ DOMAIN main = {"at", "late"} /\ main.at \in {"run", "stop", "join", "stopped", "end"}
    /\ cancelled \subseteq DOMAIN states

\* a datapoint is with one worker until it has ended
Taken ==
    /\ \A w \in Workers : worker[w].at \in Busy =>
           worker[w].p.id \in DOMAIN fate /\ fate[worker[w].p.id] = "in"
    /\ \A v, w \in Workers : worker[v].at \in Busy /\ worker[w].at \in Busy /\ worker[v].p.id = worker[w].p.id => v = w
    /\ \A w \in Workers : worker[w].at = "ingest" => worker[w].rs \in DOMAIN states

\* a datapoint in a group, on its way or delivered has ended, and is in one of these places
Apart ==
    /\ \A s \in DOMAIN states : \A id \in Held(s) : id \in DOMAIN fate /\ fate[id] # "in"
    /\ \A s \in DOMAIN cargo : \A id \in cargo[s] : id \in DOMAIN fate /\ fate[id] # "in"
    /\ \A i \in DOMAIN delivered : \A id \in delivered[i] : id \in DOMAIN fate /\ fate[id] # "in"
    /\ \A s, t \in DOMAIN states : s # t => Held(s) \cap Held(t) = {}
    /\ \A s, t \in DOMAIN cargo : s # t => cargo[s] \cap cargo[t] = {}
    /\ \A i, j \in DOMAIN delivered : i # j => delivered[i] \cap delivered[j] = {}
    /\ \A s \in DOMAIN states, t \in DOMAIN cargo : Held(s) \cap cargo[t] = {}
    /\ \A s \in DOMAIN states, i \in DOMAIN delivered : Held(s) \cap delivered[i] = {}
    /\ \A s \in DOMAIN cargo, i \in DOMAIN delivered : cargo[s] \cap delivered[i] = {}

InPlace(id) ==
    \/ \E s \in DOMAIN states : id \in Held(s)
    \/ \E s \in DOMAIN cargo : id \in cargo[s]
    \/ \E i \in DOMAIN delivered : id \in delivered[i]

\* the rule states in use are those of one configuration, with its staleness
Current ==
    \A s \in ToSet(aggRules) :
        /\ states[s].file \in DOMAIN Config
        /\ staleness = Config[states[s].file].staleness
        /\ \E st \in ToSet(NewStates(states[s].file)) : st.index = states[s].index

\* nothing that was taken in is gone
Kept ==
    outputFn /\ FlushesInTime => \A id \in DOMAIN fate : fate[id] = "ingested" => InPlace(id)

\* the flush loops: until the shutdown they run while the engine is started, and
\* it is started unless a reload is between its Stop and its Start
Loops ==
    /\ \A s \in DOMAIN loop : loop[s] \in {"wait", "off"} => cargo[s] = {}
    /\ hup.at = "restart" => \A s \in ToSet(aggRules) : loop[s] = "off"
    /\ hup.at \in {"join", "swap", "restart"} => ~started
    /\ main.at \in {"run", "stop"} =>
         /\ hup.at \in {"idle", "clear", "stop"} => aggRules = <<>> \/ started
         /\ started => \A s \in ToSet(aggRules) : loop[s] \in {"wait", "emit"}
         /\ started \/ hup.at = "restart" => \A s \in ToSet(aggRules) : s \notin cancelled

\* the shutdown, if the receivers stopped in time: a loop that has ended has left its state empty
Ending ==
    ~main.late =>
        /\ main.at # "run" => \A w \in Workers : worker[w].at \in {"idle", "next"}
        /\ main.at \in {"join", "stopped", "end"} /\ hup.at \in {"idle", "clear", "stop"} =>
             \A s \in ToSet(aggRules) : loop[s] \in {"last", "off"} => Held(s) = {}

IInv == Shape /\ Taken /\ Apart /\ Current /\ Kept /\ Loops /\ Ending

-----------------------------------------------------------------------------
(* The workers *)

\* what a state holds, as a function of the state
Content(st) == UNION {st.groups[k] : k \in DOMAIN st.groups}

LEMMA HeldIs ==
    /\ \A s : Held(s) = Content(states[s])
    /\ \A s : Held(s)' = Content(states'[s])
BY DEF Held, Content

\* the variables that the places of datapoints and the flush loops consist of
placeVars == <<states, cargo, delivered>>
engineVars == <<staleness, aggRules, started, outputFn, loop, cancelled>>

LEMMA AggVarsAre == UNCHANGED aggVars => UNCHANGED placeVars /\ UNCHANGED engineVars
BY DEF aggVars, placeVars, engineVars

\* a step in which worker w goes on with its datapoint
Move(w) ==
    /\ UNCHANGED <<Points, hup, main, fate, placeVars, engineVars>>
    /\ DOMAIN worker' = Workers /\ \A v \in Workers \ {w} : worker'[v] = worker[v]
    /\ DOMAIN worker'[w] = DOMAIN Idle
    /\ worker'[w].at \in Busy /\ worker'[w].p = worker[w].p
    /\ worker'[w].at = "ingest" => worker'[w].rs \in DOMAIN states

LEMMA MoveStays ==
    ASSUME IInv, NEW w \in Workers, worker[w].at \in Busy, Move(w)
    PROVE  IInv'
<1>1. /\ Points' = Points /\ hup' = hup /\ main' = main /\ fate' = fate
      /\ states' = states /\ cargo' = cargo /\ delivered' = delivered
      /\ staleness' = staleness /\ aggRules' = aggRules /\ started' = started /\ outputFn' = outputFn /\ loop' = loop /\ cancelled' = cancelled
  BY DEF Move, placeVars, engineVars
<1>2. /\ DOMAIN worker' = Workers /\ \A v \in Workers : v # w => worker'[v] = worker[v]
      /\ DOMAIN worker'[w] = DOMAIN Idle
      /\ worker'[w].at \in Busy /\ worker'[w].p = worker[w].p
      /\ worker'[w].at = "ingest" => worker'[w].rs \in DOMAIN states
  BY DEF Move
<1>3. Shape'
  <2>1. \A v \in Workers : DOMAIN worker'[v] = DOMAIN Idle /\ worker'[v].at \in Busy \cup {"idle", "next"}
    BY <1>2 DEF IInv, Shape
  <2>2. QED
    BY <1>1, <1>2, <2>1 DEF IInv, Shape
<1>4. Taken'
  <2>1. \A v \in Workers : worker'[v].at \in Busy => worker[v].at \in Busy /\ worker'[v].p = worker[v].p
    BY <1>2
  <2>2. \A v \in Workers : worker'[v].at = "ingest" => worker'[v].rs \in DOMAIN states
    BY <1>2 DEF IInv, Taken
  <2>3. QED
    BY <1>1, <2>1, <2>2 DEF IInv, Taken
<1>5. Apart'
  BY <1>1, HeldIs DEF IInv, Apart
<1>6. Current'
  BY <1>1 DEF IInv, Current
<1>7. Kept'
  BY <1>1, HeldIs DEF IInv, Kept, InPlace
<1>8. Loops' /\ Ending'
  <2>1. main.late \/ main.at = "run"
    BY DEF IInv, Ending, Busy
  <2>2. Loops'
    BY <1>1 DEF IInv, Loops
  <2>3. Ending'
    BY <1>1, <2>1 DEF IInv, Shape, Ending
  <2>4. QED
    BY <2>2, <2>3
<1>9. QED
  BY <1>3, <1>4, <1>5, <1>6, <1>7, <1>8 DEF IInv

\* Done, in the terms the proofs need
LEMMA DoneIs ==
    ASSUME IInv, NEW w \in Workers, worker[w].at \in Busy, NEW what, Done(w, what)
    PROVE  LET id == worker[w].p.id
           IN  /\ DOMAIN fate' = DOMAIN fate /\ id \in DOMAIN fate /\ fate[id] = "in" /\ fate'[id] = what
               /\ \A i \in DOMAIN fate : i # id => fate'[i] = fate[i]
               /\ DOMAIN worker' = Workers /\ \A v \in Workers : v # w => worker'[v] = worker[v]
               /\ DOMAIN worker'[w] = DOMAIN Idle /\ worker'[w].at = "next"
               /\ \A v \in Workers : worker'[v].at \in Busy => v # w /\ worker[v].p.id # id
<1>1. worker[w].p.id \in DOMAIN fate /\ fate[worker[w].p.id] = "in" /\ DOMAIN worker = Workers
  BY DEF IInv, Taken, Shape
<1>2. /\ DOMAIN fate' = DOMAIN fate /\ fate'[worker[w].p.id] = what
      /\ \A i \in DOMAIN fate : i # worker[w].p.id => fate'[i] = fate[i]
  BY <1>1 DEF Done
<1>3. DOMAIN worker' = Workers /\ \A v \in Workers : v # w => worker'[v] = worker[v]
  BY <1>1 DEF Done
<1>4. worker'[w] = [Idle EXCEPT !.at = "next", !.rules = worker[w].rules]
  BY <1>1 DEF Done
<1>5. DOMAIN worker'[w] = DOMAIN Idle /\ worker'[w].at = "next"
  BY <1>4 DEF Idle
<1>6. \A v \in Workers : worker'[v].at \in Busy => v # w /\ worker[v].p.id # worker[w].p.id
  <2>1. "next" \notin Busy
    BY DEF Busy
  <2>2. QED
    BY <1>3, <1>5, <2>1 DEF IInv, Taken
<1>7. QED
  BY SMTT(30), ZenonT(30), <1>1, <1>2, <1>3, <1>5, <1>6

\* what a datapoint that has ended with any answer changes of the shape and of what is taken
LEMMA DoneTaken ==
    ASSUME IInv, NEW w \in Workers, worker[w].at \in Busy, NEW what, Done(w, what),
           Points' = Points, hup' = hup, main' = main, UNCHANGED engineVars, cargo' = cargo, delivered' = delivered,
           DOMAIN states' = DOMAIN states,
           \A n \in Nat : states = [s \in 1..n |-> states[s]] => states' = [s \in 1..n |-> states'[s]],
           \A s \in DOMAIN states : DOMAIN states'[s] = {"file", "index", "groups"}
    PROVE  Shape' /\ Taken'
<1> DEFINE id == worker[w].p.id
<1>1. /\ DOMAIN fate' = DOMAIN fate /\ fate'[id] = what
      /\ \A i \in DOMAIN fate : i # id => fate'[i] = fate[i]
      /\ DOMAIN worker' = Workers /\ \A v \in Workers : v # w => worker'[v] = worker[v]
      /\ DOMAIN worker'[w] = DOMAIN Idle /\ worker'[w].at = "next"
      /\ \A v \in Workers : worker'[v].at \in Busy => v # w /\ worker[v].p.id # id
  BY DoneIs, Zenon
<1> HIDE DEF id
<1>2. staleness' = staleness /\ aggRules' = aggRules /\ started' = started /\ outputFn' = outputFn /\ loop' = loop /\ cancelled' = cancelled
  BY DEF engineVars
<1>3. Shape'
  <2>1. \A v \in Workers : DOMAIN worker'[v] = DOMAIN Idle /\ worker'[v].at \in Busy \cup {"idle", "next"}
    BY SMTT(30), ZenonT(30), <1>1 DEF IInv, Shape
  <2>2. \E n \in Nat : /\ states' = [s \in 1..n |-> states'[s]]
                       /\ loop' = [s \in 1..n |-> loop'[s]]
                       /\ cargo' = [s \in 1..n |-> cargo'[s]]
    <3>1. PICK n \in Nat : states = [s \in 1..n |-> states[s]] /\ loop = [s \in 1..n |-> loop[s]] /\ cargo = [s \in 1..n |-> cargo[s]]
      BY DEF IInv, Shape
    <3>2. QED
      BY <1>2, <3>1
  <2>3. QED
    BY <1>1, <1>2, <2>1, <2>2 DEF IInv, Shape
<1>4. Taken'
  <2>1. \A v \in Workers : worker'[v].at \in Busy =>
            /\ worker'[v] = worker[v] /\ worker[v].p.id # id
            /\ worker[v].p.id \in DOMAIN fate /\ fate[worker[v].p.id] = "in"
    BY <1>1 DEF IInv, Taken
  <2>2. \A v \in Workers : worker'[v].at \in Busy => worker'[v].p.id \in DOMAIN fate' /\ fate'[worker'[v].p.id] = "in"
    BY <1>1, <2>1
  <2>3. \A v, u \in Workers : worker'[v].at \in Busy /\ worker'[u].at \in Busy /\ worker'[v].p.id = worker'[u].p.id => v = u
    BY <2>1 DEF IInv, Taken
  <2>4. \A v \in Workers : worker'[v].at = "ingest" => worker'[v].rs \in DOMAIN states'
    <3>1. "ingest" \in Busy
      BY DEF Busy
    <3>2. QED
      BY <2>1, <3>1 DEF IInv, Taken
  <2>5. QED
    BY <2>2, <2>3, <2>4 DEF Taken
<1>5. QED
  BY <1>3, <1>4

\* a datapoint ends in any other way than in a group
LEMMA EndStays ==
    ASSUME IInv, NEW w \in Workers, worker[w].at \in Busy, NEW what, what \notin {"in", "ingested"}, Done(w, what),
           UNCHANGED <<Points, hup, main, placeVars, engineVars>>
    PROVE  IInv'
<1> DEFINE id == worker[w].p.id
<1>1. /\ Points' = Points /\ hup' = hup /\ main' = main
      /\ states' = states /\ cargo' = cargo /\ delivered' = delivered
      /\ staleness' = staleness /\ aggRules' = aggRules /\ started' = started /\ outputFn' = outputFn /\ loop' = loop /\ cancelled' = cancelled
  BY DEF placeVars, engineVars
<1>2. /\ DOMAIN fate' = DOMAIN fate /\ fate'[id] = what /\ fate[id] = "in"
      /\ \A i \in DOMAIN fate : i # id => fate'[i] = fate[i]
  BY DoneIs, Zenon
<1>3. Shape' /\ Taken'
  <2>1. \A s \in DOMAIN states : DOMAIN states'[s] = {"file", "index", "groups"}
    BY <1>1 DEF IInv, Shape
  <2>2. UNCHANGED engineVars
    OBVIOUS
  <2>3. QED
    BY <1>1, <2>1, <2>2, DoneTaken
<1> HIDE DEF id
<1>4. /\ \A i \in DOMAIN fate : fate[i] # "in" => fate'[i] # "in"
      /\ \A i \in DOMAIN fate : fate'[i] = "ingested" => fate[i] = "ingested"
  BY <1>2
<1>5. Apart'
  BY <1>1, <1>2, <1>4, HeldIs DEF IInv, Apart
<1>6. Current'
  BY <1>1 DEF IInv, Current
<1>7. Kept'
  BY <1>1, <1>2, <1>4, HeldIs DEF IInv, Kept, InPlace
<1>8. Loops' /\ Ending'
  <2>1. main.late \/ main.at = "run"
    BY DEF IInv, Ending, Busy
  <2>2. Loops'
    BY <1>1 DEF IInv, Loops
  <2>3. Ending'
    BY <1>1, <2>1 DEF IInv, Shape, Ending
  <2>4. QED
    BY <2>2, <2>3
<1>9. QED
  BY <1>3, <1>5, <1>6, <1>7, <1>8 DEF IInv

\* a group gets one datapoint more
LEMMA GroupGets ==
    ASSUME NEW g, NEW key, NEW id, NEW old, old = IF key \in DOMAIN g THEN g[key] ELSE {},
           NEW h, h = [k \in DOMAIN g \cup {key} |-> IF k = key THEN old \cup {id} ELSE g[k]]
    PROVE  UNION {h[k] : k \in DOMAIN h} = (UNION {g[k] : k \in DOMAIN g}) \cup {id}
<1>1. ASSUME NEW x, x \in UNION {h[k] : k \in DOMAIN h} PROVE x \in (UNION {g[k] : k \in DOMAIN g}) \cup {id}
  <2>1. PICK k \in DOMAIN h : x \in h[k]
    BY <1>1
  <2>2. x = id \/ (k \in DOMAIN g /\ x \in g[k])
    BY <2>1
  <2>3. QED
    BY <2>2
<1>2. ASSUME NEW x, x \in UNION {g[k] : k \in DOMAIN g} PROVE x \in UNION {h[k] : k \in DOMAIN h}
  <2>1. PICK k \in DOMAIN g : x \in g[k]
    BY <1>2
  <2>2. k \in DOMAIN h /\ x \in h[k]
    BY <2>1
  <2>3. QED
    BY <2>2
<1>3. id \in UNION {h[k] : k \in DOMAIN h}
  <2>1. key \in DOMAIN h /\ id \in h[key]
    OBVIOUS
  <2>2. QED
    BY <2>1
<1>4. QED
  BY ZenonT(30), <1>1, <1>2, <1>3

LEMMA IngestAddStays ==
    ASSUME IInv, NEW w \in Workers, IngestAdd(w)
    PROVE  IInv'
<1> SUFFICES ASSUME NEW id, id = worker[w].p.id, NEW rs, rs = worker[w].rs PROVE IInv'
  BY SMTT(30), ZenonT(30)
<1> DEFINE what == IF RuleOf(w).keepInput THEN "kept" ELSE "ingested"
           key == GroupKey(worker[w].attrs, RuleOf(w))
           g == states[rs].groups
           old == IF key \in DOMAIN g THEN g[key] ELSE {}
           h == [k \in DOMAIN g \cup {key} |-> IF k = key THEN old \cup {id} ELSE g[k]]
<1>1. worker[w].at = "ingest" /\ worker[w].at \in Busy /\ rs \in DOMAIN states /\ Done(w, what)
  BY SMTT(30), ZenonT(30) DEF IngestAdd, Busy, IInv, Taken
<1>2. /\ Points' = Points /\ hup' = hup /\ main' = main /\ cargo' = cargo /\ delivered' = delivered
      /\ staleness' = staleness /\ aggRules' = aggRules /\ started' = started /\ outputFn' = outputFn /\ loop' = loop /\ cancelled' = cancelled
  BY SMTT(30), ZenonT(30) DEF IngestAdd
<1>3. states' = [states EXCEPT ![rs].groups = h]
  BY DEF IngestAdd
<1>4. what # "in" /\ what \in {"kept", "ingested"}
  OBVIOUS
<1>5. UNION {h[k] : k \in DOMAIN h} = (UNION {g[k] : k \in DOMAIN g}) \cup {id}
  <2>1. old = (IF key \in DOMAIN g THEN g[key] ELSE {}) /\ h = [k \in DOMAIN g \cup {key} |-> IF k = key THEN old \cup {id} ELSE g[k]]
    OBVIOUS
  <2> HIDE DEF key, g, old, h
  <2>2. QED
    BY <2>1, GroupGets
<1> HIDE DEF h, what
<1>6. /\ DOMAIN states' = DOMAIN states
      /\ \A s \in DOMAIN states : s # rs => states'[s] = states[s]
      /\ DOMAIN states'[rs] = DOMAIN states[rs]
      /\ states'[rs].groups = h /\ states'[rs].file = states[rs].file /\ states'[rs].index = states[rs].index
  <2>1. DOMAIN states[rs] = {"file", "index", "groups"}
    BY <1>1 DEF IInv, Shape
  <2>2. QED
    BY <1>1, <1>3, <2>1
<1>7. \A n \in Nat : states = [s \in 1..n |-> states[s]] => states' = [s \in 1..n |-> states'[s]]
  BY ZenonT(30), <1>3
<1>8. Content(states'[rs]) = Content(states[rs]) \cup {id}
  <2>1. Content(states'[rs]) = UNION {h[k] : k \in DOMAIN h}
    BY ZenonT(30), <1>6, Zenon DEF Content
  <2>2. Content(states[rs]) = UNION {g[k] : k \in DOMAIN g}
    BY DEF Content
  <2>3. QED
    BY <1>5, <2>1, <2>2, Zenon
<1> HIDE DEF g, key, old
<1>9. Shape' /\ Taken'
  <2>1. \A s \in DOMAIN states : DOMAIN states'[s] = {"file", "index", "groups"}
    BY <1>1, <1>6 DEF IInv, Shape
  <2>2. UNCHANGED engineVars
    BY <1>2 DEF engineVars
  <2>3. QED
    BY <1>1, <1>2, <1>6, <1>7, <2>1, <2>2, DoneTaken
<1>10. /\ DOMAIN fate' = DOMAIN fate /\ fate'[id] = what /\ fate[id] = "in" /\ id \in DOMAIN fate
       /\ \A i \in DOMAIN fate : i # id => fate'[i] = fate[i]
  BY <1>1, DoneIs, Zenon
<1>11. \A i \in DOMAIN fate : fate[i] # "in" => i # id /\ fate'[i] = fate[i] /\ fate'[i] # "in"
  BY <1>10
<1>12. /\ \A s \in DOMAIN states : Held(s)' \subseteq Held(s) \cup {id} /\ (s # rs => Held(s)' = Held(s)) /\ Held(s) \subseteq Held(s)'
       /\ id \in Held(rs)'
  <2>1. Held(rs)' = Held(rs) \cup {id}
    BY <1>8, HeldIs
  <2>2. \A s \in DOMAIN states : s # rs => Held(s)' = Held(s)
    BY <1>6, HeldIs
  <2>3. QED
    BY <2>1, <2>2, Zenon
<1>13. /\ \A s \in DOMAIN states : id \notin Held(s)
       /\ \A s \in DOMAIN cargo : id \notin cargo[s]
       /\ \A i \in DOMAIN delivered : id \notin delivered[i]
  BY <1>10 DEF IInv, Apart
<1>14. Apart'
  <2>1. \A s \in DOMAIN states' : \A i \in Held(s)' : i \in DOMAIN fate' /\ fate'[i] # "in"
    BY <1>4, <1>6, <1>10, <1>11, <1>12 DEF IInv, Apart
  <2>2. /\ \A s \in DOMAIN cargo' : \A i \in cargo'[s] : i \in DOMAIN fate' /\ fate'[i] # "in"
        /\ \A k \in DOMAIN delivered' : \A i \in delivered'[k] : i \in DOMAIN fate' /\ fate'[i] # "in"
    BY <1>2, <1>10, <1>11 DEF IInv, Apart
  <2>3. \A s, t \in DOMAIN states' : s # t => Held(s)' \cap Held(t)' = {}
    <3> SUFFICES ASSUME NEW s \in DOMAIN states, NEW t \in DOMAIN states, s # t PROVE Held(s)' \cap Held(t)' = {}
      BY <1>6
    <3>1. Held(s) \cap Held(t) = {} /\ id \notin Held(s) /\ id \notin Held(t)
      BY <1>13 DEF IInv, Apart
    <3>2. Held(s)' = Held(s) \/ Held(t)' = Held(t)
      BY SMTT(30), ZenonT(30), <1>12
    <3>3. QED
      BY <1>12, <3>1, <3>2
  <2>4. /\ \A s \in DOMAIN states', t \in DOMAIN cargo' : Held(s)' \cap cargo'[t] = {}
        /\ \A s \in DOMAIN states', i \in DOMAIN delivered' : Held(s)' \cap delivered'[i] = {}
    <3>1. \A s \in DOMAIN states, t \in DOMAIN cargo : Held(s)' \cap cargo[t] = {}
      BY SMTT(30), ZenonT(30), <1>12, <1>13 DEF IInv, Apart
    <3>2. \A s \in DOMAIN states, i \in DOMAIN delivered : Held(s)' \cap delivered[i] = {}
      BY SMTT(30), ZenonT(30), <1>12, <1>13 DEF IInv, Apart
    <3>3. QED
      BY <1>2, <1>6, <3>1, <3>2
  <2>5. QED
    BY SMTT(30), ZenonT(30), <1>2, <2>1, <2>2, <2>3, <2>4 DEF IInv, Apart
<1>15. Current'
  <2>1. \A s \in DOMAIN states : states'[s].file = states[s].file /\ states'[s].index = states[s].index
    BY <1>6
  <2>2. ToSet(aggRules) \subseteq DOMAIN states
    BY DEF ToSet, IInv, Shape
  <2>3. QED
    BY <1>2, <2>1, <2>2 DEF IInv, Current
<1>16. Kept'
  <2> SUFFICES ASSUME outputFn', FlushesInTime, NEW i \in DOMAIN fate', fate'[i] = "ingested" PROVE InPlace(i)'
    BY DEF Kept
  <2>1. CASE i = id
    <3>1. rs \in DOMAIN states' /\ i \in Held(rs)'
      BY <1>1, <1>6, <1>12, <2>1
    <3>2. QED
      BY <3>1, Zenon DEF InPlace
  <2>2. CASE i # id
    <3>1. InPlace(i)
      BY <1>2, <1>10, <2>2 DEF IInv, Kept
    <3>2. QED
      BY <1>2, <1>6, <1>12, <3>1 DEF InPlace
  <2>3. QED
    BY <2>1, <2>2
<1>17. Loops' /\ Ending'
  <2>1. main.late \/ main.at = "run"
    BY <1>1 DEF IInv, Ending, Busy
  <2>2. Loops'
    BY <1>2 DEF IInv, Loops
  <2>3. Ending'
    BY <1>2, <2>1 DEF IInv, Ending
  <2>4. QED
    BY <2>2, <2>3
<1>18. QED
  BY <1>9, <1>14, <1>15, <1>16, <1>17 DEF IInv

\* a worker turns to the next datapoint of the stream, which nobody has had
LEMMA TakeStays ==
    ASSUME IInv, NEW w \in Workers, worker[w].at \in {"idle", "next"}, NEW rules, Take(w, rules)
    PROVE  IInv'
<1>1. PICK n \in Nat : DOMAIN fate = 1..n
  BY DEF IInv, Shape
<1>2. Arrived = n
  BY <1>1, FS_Interval DEF Arrived
<1>3. Len(Points) \in Nat /\ DOMAIN Points = 1..Len(Points) /\ \A i \in DOMAIN Points : Points[i].id = i
  BY StreamsAssumption DEF IInv, Shape
<1>4. SUFFICES ASSUME NEW p, p = Points[n + 1] PROVE IInv'
  OBVIOUS
<1>5. n < Len(Points) /\ (main.at = "run" \/ main.late)
      /\ fate' = [i \in DOMAIN fate \cup {p.id} |-> IF i = p.id THEN "in" ELSE fate[i]]
      /\ worker' = [worker EXCEPT ![w] = [Idle EXCEPT !.at = "get", !.rules = rules, !.p = p, !.attrs = p.attrs]]
  BY <1>2, <1>4 DEF Take
<1>6. p.id = n + 1
  BY <1>3, <1>4, <1>5
<1>7. /\ DOMAIN fate' = 1..(n + 1) /\ fate'[n + 1] = "in" /\ n + 1 \notin DOMAIN fate
      /\ \A i \in DOMAIN fate : i \in DOMAIN fate' /\ fate'[i] = fate[i]
      /\ \A i \in DOMAIN fate' : i = n + 1 \/ i \in DOMAIN fate
  <2>1. 1..(n + 1) = (1..n) \cup {n + 1} /\ n + 1 \notin 1..n
    OBVIOUS
  <2>2. QED
    BY <1>1, <1>5, <1>6, <2>1
<1>8. /\ DOMAIN worker' = Workers /\ \A v \in Workers : v # w => worker'[v] = worker[v]
      /\ worker'[w] = [Idle EXCEPT !.at = "get", !.rules = rules, !.p = p, !.attrs = p.attrs]
  BY <1>5 DEF IInv, Shape
<1>9. DOMAIN worker'[w] = DOMAIN Idle /\ worker'[w].at = "get" /\ worker'[w].p = p
  BY <1>8 DEF Idle
<1>10. /\ Points' = Points /\ hup' = hup /\ main' = main /\ states' = states /\ cargo' = cargo /\ delivered' = delivered
       /\ staleness' = staleness /\ aggRules' = aggRules /\ started' = started /\ outputFn' = outputFn /\ loop' = loop /\ cancelled' = cancelled
  BY DEF Take, aggVars
<1>11. Shape'
  <2>1. \A v \in Workers : DOMAIN worker'[v] = DOMAIN Idle /\ worker'[v].at \in Busy \cup {"idle", "next"}
    <3>1. "get" \in Busy
      BY DEF Busy
    <3>2. \A v \in Workers : DOMAIN worker[v] = DOMAIN Idle /\ worker[v].at \in Busy \cup {"idle", "next"}
      BY DEF IInv, Shape
    <3> SUFFICES ASSUME NEW v \in Workers PROVE DOMAIN worker'[v] = DOMAIN Idle /\ worker'[v].at \in Busy \cup {"idle", "next"}
      OBVIOUS
    <3>3. CASE v = w
      BY <1>9, <3>1, <3>3
    <3>4. CASE v # w
      <4>1. worker'[v] = worker[v]
        BY <1>8, <3>4
      <4>2. QED
        BY <3>2, <4>1
    <3>5. QED
      BY <3>3, <3>4
  <2>2. \E k \in Nat : DOMAIN fate' = 1..k
    BY <1>7
  <2>3. QED
    BY SMTT(30), ZenonT(30), <1>8, <1>10, <2>1, <2>2 DEF IInv, Shape
<1>12. Taken'
  <2>1. "get" # "ingest" /\ "ingest" \in Busy
    BY DEF Busy
  <2>2. \A v \in Workers : v # w /\ worker'[v].at \in Busy =>
            /\ worker'[v] = worker[v] /\ worker[v].at \in Busy
            /\ worker'[v].p.id \in DOMAIN fate /\ fate[worker'[v].p.id] = "in"
    BY <1>8 DEF IInv, Taken
  <2>3. worker'[w].p.id = n + 1
    BY <1>6, <1>9
  <2>4. \A v \in Workers : worker'[v].at \in Busy => worker'[v].p.id \in DOMAIN fate' /\ fate'[worker'[v].p.id] = "in"
    BY <1>7, <2>2, <2>3
  <2>5. \A v, u \in Workers : worker'[v].at \in Busy /\ worker'[u].at \in Busy /\ worker'[v].p.id = worker'[u].p.id => v = u
    BY <1>7, <2>2, <2>3 DEF IInv, Taken
  <2>6. \A v \in Workers : worker'[v].at = "ingest" => worker'[v].rs \in DOMAIN states'
    <3>1. \A v \in Workers : worker'[v].at = "ingest" => v # w
      BY <1>9, <2>1
    <3>2. \A v \in Workers : v # w /\ worker'[v].at = "ingest" => worker'[v] = worker[v] /\ worker[v].at = "ingest"
      BY <1>8
    <3>3. QED
      BY <1>10, <3>1, <3>2 DEF IInv, Taken
  <2>7. QED
    BY <2>4, <2>5, <2>6 DEF Taken
<1>13. Apart'
  BY SMTT(30), ZenonT(30), <1>7, <1>10, HeldIs DEF IInv, Apart
<1>14. Current'
  BY <1>10 DEF IInv, Current
<1>15. Kept'
  <2>1. \A i \in DOMAIN fate' : fate'[i] = "ingested" => i \in DOMAIN fate /\ fate[i] = "ingested"
    BY <1>7
  <2>2. QED
    BY <1>10, <2>1, HeldIs DEF IInv, Kept, InPlace
<1>16. Loops' /\ Ending'
  <2>1. Loops'
    BY <1>10 DEF IInv, Loops
  <2>2. Ending'
    BY <1>5, <1>10 DEF IInv, Ending
  <2>3. QED
    BY <2>1, <2>2
<1>17. QED
  BY <1>11, <1>12, <1>13, <1>14, <1>15, <1>16 DEF IInv

\* every other step of a worker goes on with its datapoint or ends it
LEMMA WorkerStays ==
    ASSUME IInv, NEW w \in Workers, Step(w)
    PROVE  IInv'
<1> DEFINE same == UNCHANGED <<Points, hup, main, placeVars, engineVars>>
           Others == DOMAIN worker' = Workers /\ \A v \in Workers \ {w} : worker'[v] = worker[v]
<1>1. DOMAIN worker = Workers /\ DOMAIN worker[w] = DOMAIN Idle
  BY SMTT(30), ZenonT(30) DEF IInv, Shape
<1>2. DOMAIN Idle = {"at", "rules", "p", "attrs", "attrMap", "indices", "rule", "rs"}
  BY DEF Idle
<1>3. ASSUME CacheGet(w) PROVE worker[w].at \in Busy /\ Move(w)
  <2>1. worker[w].at = "get" /\ UNCHANGED <<Points, hup, main, fate>> /\ UNCHANGED aggVars
    BY <1>3 DEF CacheGet
  <2>2. \E x, to : to \in {"walk", "put"} /\ worker' = [worker EXCEPT ![w].indices = x, ![w].at = to]
    BY <1>3 DEF CacheGet
  <2>3. PICK x, to : to \in {"walk", "put"} /\ worker' = [worker EXCEPT ![w].indices = x, ![w].at = to]
    BY ZenonT(30), <2>2
  <2>4. Others /\ DOMAIN worker'[w] = DOMAIN Idle /\ worker'[w].p = worker[w].p /\ worker'[w].at = to
    BY <1>1, <1>2, <2>3
  <2>5. QED
    BY SMTT(30), ZenonT(30), <2>1, <2>3, <2>4, AggVarsAre DEF Move, Busy
<1>4. ASSUME CachePut(w) PROVE worker[w].at \in Busy /\ Move(w)
  <2>1. worker[w].at = "put" /\ UNCHANGED <<Points, hup, main, fate>> /\ UNCHANGED aggVars
        /\ worker' = [worker EXCEPT ![w].at = "walk"]
    BY <1>4 DEF CachePut
  <2>2. Others /\ DOMAIN worker'[w] = DOMAIN Idle /\ worker'[w].p = worker[w].p /\ worker'[w].at = "walk"
    BY <1>1, <1>2, <2>1
  <2>3. QED
    BY <2>1, <2>2, AggVarsAre DEF Move, Busy
<1>5. ASSUME Walk(w) PROVE worker[w].at \in Busy /\ (Move(w) \/ \E what \in {"panic", "dropped"} : Done(w, what) /\ same)
  <2> DEFINE me == worker[w]
             rule == Rules(me.rules)[Head(me.indices)]
             map == AttrMap(me, rule)
             rest == [me EXCEPT !.indices = Tail(@), !.attrMap = map]
  <2>1. me.at = "walk" /\ UNCHANGED <<Points, hup, main>> /\ UNCHANGED aggVars
    BY ZenonT(30), <1>5 DEF Walk
  <2>2. same /\ me.at \in Busy
    BY <2>1, AggVarsAre DEF Busy
  <2>3. \/ Done(w, "panic") \/ Done(w, "dropped")
        \/ fate' = fate /\ worker' = [worker EXCEPT ![w] = rest]
        \/ fate' = fate /\ \E as : worker' = [worker EXCEPT ![w] = [rest EXCEPT !.attrs = as]]
        \/ fate' = fate /\ \E x : worker' = [worker EXCEPT ![w] = [rest EXCEPT !.rule = x, !.at = Terminal(rule, me.p.number)]]
    BY ZenonT(30), <1>5 DEF Walk
  <2>4. Terminal(rule, me.p.number) \in {"sample", "downsample", "aggregate", "walk"}
    <3> HIDE DEF rule, me
    <3> QED
      BY DEF Terminal
  <2> HIDE DEF rule, map
  <2>5. DOMAIN rest = DOMAIN Idle /\ rest.at = "walk" /\ rest.p = me.p
    BY SMTT(30), ZenonT(30), <1>1, <1>2, <2>1
  <2> HIDE DEF rest
  <2>6. ASSUME fate' = fate, NEW new, worker' = [worker EXCEPT ![w] = new], DOMAIN new = DOMAIN Idle, new.p = me.p,
               new.at \in {"sample", "downsample", "aggregate", "walk"}
        PROVE  Move(w)
    <3>1. Others /\ worker'[w] = new
      BY <1>1, <2>6
    <3>2. new.at \in Busy /\ new.at # "ingest"
      BY <2>6 DEF Busy
    <3>3. QED
      BY <2>2, <2>6, <3>1, <3>2 DEF Move
  <2>7. ASSUME fate' = fate, worker' = [worker EXCEPT ![w] = rest] PROVE Move(w)
    BY ZenonT(30), <2>5, <2>6, <2>7
  <2>8. ASSUME fate' = fate, NEW as, worker' = [worker EXCEPT ![w] = [rest EXCEPT !.attrs = as]] PROVE Move(w)
    <3>1. DOMAIN [rest EXCEPT !.attrs = as] = DOMAIN Idle /\ [rest EXCEPT !.attrs = as].p = me.p /\ [rest EXCEPT !.attrs = as].at = "walk"
      BY <1>2, <2>5
    <3>2. QED
      BY ZenonT(30), <2>6, <2>8, <3>1
  <2>9. ASSUME fate' = fate, NEW x, worker' = [worker EXCEPT ![w] = [rest EXCEPT !.rule = x, !.at = Terminal(rule, me.p.number)]]
        PROVE  Move(w)
    <3> DEFINE new == [rest EXCEPT !.rule = x, !.at = Terminal(rule, me.p.number)]
    <3>1. DOMAIN new = DOMAIN Idle /\ new.p = me.p /\ new.at = Terminal(rule, me.p.number)
      BY <1>2, <2>5
    <3> HIDE DEF new
    <3>2. worker' = [worker EXCEPT ![w] = new]
      BY <2>9 DEF new
    <3>3. QED
      BY ZenonT(30), <2>4, <2>6, <2>9, <3>1, <3>2
  <2>10. QED
    BY ZenonT(30), <2>2, <2>3, <2>7, <2>8, <2>9
<1>6. ASSUME PassThrough(w) PROVE worker[w].at \in Busy /\ Done(w, "kept") /\ same
  BY <1>6, AggVarsAre DEF PassThrough, Busy
<1>7. ASSUME Sample(w)
      PROVE  worker[w].at \in Busy /\ (Move(w) \/ \E what \in {"kept", "dropped"} : Done(w, what) /\ same)
  <2>1. worker[w].at = "sample" /\ UNCHANGED <<Points, hup, main>> /\ UNCHANGED aggVars
    BY <1>7 DEF Sample
  <2>2. \/ fate' = fate /\ worker' = [worker EXCEPT ![w].at = "keep?"]
        \/ Done(w, "dropped") \/ Done(w, "kept")
    BY <1>7 DEF Sample
  <2>3. ASSUME fate' = fate, worker' = [worker EXCEPT ![w].at = "keep?"] PROVE Move(w)
    <3>1. Others /\ DOMAIN worker'[w] = DOMAIN Idle /\ worker'[w].p = worker[w].p /\ worker'[w].at = "keep?"
      BY <1>1, <1>2, <2>3
    <3>2. QED
      BY <2>1, <2>3, <3>1, AggVarsAre DEF Move, Busy
  <2>4. QED
    BY <2>1, <2>2, <2>3, AggVarsAre DEF Busy
<1>8. ASSUME Keep(w) PROVE worker[w].at \in Busy /\ \E what \in {"kept", "dropped"} : Done(w, what) /\ same
  <2>1. Done(w, "kept") \/ Done(w, "dropped")
    BY <1>8 DEF Keep
  <2>2. QED
    BY <1>8, <2>1, AggVarsAre DEF Keep, Busy
<1>9. ASSUME DownsampleTest(w)
      PROVE  worker[w].at \in Busy /\ (Move(w) \/ (Done(w, "kept") /\ same))
  <2>1. worker[w].at = "downsample" /\ UNCHANGED <<Points, hup, main>> /\ UNCHANGED aggVars
    BY <1>9 DEF DownsampleTest
  <2>2. (fate' = fate /\ worker' = [worker EXCEPT ![w].at = "ingestAndEmit"]) \/ Done(w, "kept")
    BY <1>9 DEF DownsampleTest
  <2>3. ASSUME fate' = fate, worker' = [worker EXCEPT ![w].at = "ingestAndEmit"] PROVE Move(w)
    <3>1. Others /\ DOMAIN worker'[w] = DOMAIN Idle /\ worker'[w].p = worker[w].p /\ worker'[w].at = "ingestAndEmit"
      BY <1>1, <1>2, <2>3
    <3>2. QED
      BY <2>1, <2>3, <3>1, AggVarsAre DEF Move, Busy
  <2>4. QED
    BY <2>1, <2>2, <2>3, AggVarsAre DEF Busy
<1>10. ASSUME DownsampleCall(w)
       PROVE  worker[w].at \in Busy /\ \E what \in {"kept", "held", "panic"} : Done(w, what) /\ same
  BY <1>10, AggVarsAre DEF DownsampleCall, Busy
<1>11. ASSUME IngestFind(w)
       PROVE  worker[w].at \in Busy /\ (Move(w) \/ \E what \in {"kept", "vanished"} : Done(w, what) /\ same)
  <2> DEFINE I == {j \in 1..Len(aggRules) : StateRule(aggRules[j]).name = RuleOf(w).name}
             i == IF I # {} THEN Min(I) ELSE 0
  <2>1. worker[w].at = "aggregate" /\ UNCHANGED <<Points, hup, main>> /\ UNCHANGED aggVars
    BY <1>11 DEF IngestFind
  <2>2. \/ i = 0 /\ (Done(w, "kept") \/ Done(w, "vanished"))
        \/ i # 0 /\ fate' = fate /\ worker' = [worker EXCEPT ![w].at = "ingest", ![w].rs = aggRules[i]]
    BY <1>11 DEF IngestFind, SelectInSeq
  <2>3. ASSUME i # 0, fate' = fate, worker' = [worker EXCEPT ![w].at = "ingest", ![w].rs = aggRules[i]] PROVE Move(w)
    <3>1. PICK n \in Nat : aggRules \in [1..n -> DOMAIN states]
      BY SMTT(30), ZenonT(30) DEF IInv, Shape
    <3>2. Len(aggRules) = n
      <4>1. aggRules \in Seq(DOMAIN states)
        BY <3>1
      <4>2. QED
        BY <3>1, <4>1
    <3>3. I # {} /\ I \subseteq Nat /\ I \subseteq 1..n /\ i = Min(I)
      BY <2>3, <3>2
    <3> HIDE DEF I
    <3>4. i \in 1..n
      BY ZenonT(30), <3>3, LeastIsIn
    <3> HIDE DEF i
    <3>5. aggRules[i] \in DOMAIN states
      BY <3>1, <3>4
    <3>6. Others /\ DOMAIN worker'[w] = DOMAIN Idle /\ worker'[w].p = worker[w].p /\ worker'[w].at = "ingest"
          /\ worker'[w].rs = aggRules[i]
      BY <1>1, <1>2, <2>3
    <3>7. QED
      BY <2>1, <2>3, <3>5, <3>6, AggVarsAre DEF Move, Busy
  <2>4. QED
    BY <2>1, <2>2, <2>3, AggVarsAre DEF Busy
<1>12. ASSUME worker[w].at \in Busy, NEW what \in {"kept", "dropped", "held", "panic", "vanished"}, Done(w, what), same
       PROVE  IInv'
  BY <1>12, EndStays
<1>13. QED
  BY <1>3, <1>4, <1>5, <1>6, <1>7, <1>8, <1>9, <1>10, <1>11, <1>12, MoveStays, IngestAddStays DEF Step

-----------------------------------------------------------------------------
(* The flush loops *)

\* the number of states, and the states in use
LEMMA StatesAre ==
    ASSUME IInv
    PROVE  /\ \E n \in Nat : /\ states = [s \in 1..n |-> states[s]] /\ DOMAIN states = 1..n
                             /\ loop = [s \in 1..n |-> loop[s]] /\ DOMAIN loop = 1..n
                             /\ cargo = [s \in 1..n |-> cargo[s]] /\ DOMAIN cargo = 1..n
           /\ DOMAIN loop = DOMAIN states /\ DOMAIN cargo = DOMAIN states
           /\ ToSet(aggRules) \subseteq DOMAIN states
<1>1. PICK n \in Nat : /\ states = [s \in 1..n |-> states[s]]
                       /\ loop = [s \in 1..n |-> loop[s]]
                       /\ cargo = [s \in 1..n |-> cargo[s]]
  BY DEF IInv, Shape
<1>2. DOMAIN states = 1..n /\ DOMAIN loop = 1..n /\ DOMAIN cargo = 1..n
  BY <1>1
<1>3. ToSet(aggRules) \subseteq DOMAIN states
  BY DEF IInv, Shape, ToSet
<1>4. QED
  BY ZenonT(30), <1>1, <1>2, <1>3, Zenon

\* a flush: the points go from the groups to the cargo of the loop
LEMMA FlushStays ==
    ASSUME IInv, NEW s \in DOMAIN loop, NEW next \in {"emit", "last"}, loop[s] = "wait",
           next = "last" => s \in cancelled, Flush(s, next)
    PROVE  IInv'
<1>1. /\ Points' = Points /\ hup' = hup /\ main' = main /\ fate' = fate /\ worker' = worker /\ delivered' = delivered
      /\ staleness' = staleness /\ aggRules' = aggRules /\ started' = started /\ outputFn' = outputFn /\ cancelled' = cancelled
  BY DEF Flush
<1>2. PICK n \in Nat : /\ states = [t \in 1..n |-> states[t]] /\ DOMAIN states = 1..n
                       /\ loop = [t \in 1..n |-> loop[t]] /\ DOMAIN loop = 1..n
                       /\ cargo = [t \in 1..n |-> cargo[t]] /\ DOMAIN cargo = 1..n
  BY StatesAre
<1> DEFINE h == [k \in DOMAIN states[s].groups |-> {}]
<1>3. /\ states' = [states EXCEPT ![s].groups = h]
      /\ cargo' = [cargo EXCEPT ![s] = Held(s)]
      /\ loop' = [loop EXCEPT ![s] = next]
  BY DEF Flush
<1>4. UNION {h[k] : k \in DOMAIN h} = {}
  OBVIOUS
<1> HIDE DEF h
<1>5. /\ states' = [t \in 1..n |-> states'[t]] /\ DOMAIN states' = 1..n
      /\ loop' = [t \in 1..n |-> loop'[t]] /\ DOMAIN loop' = 1..n
      /\ cargo' = [t \in 1..n |-> cargo'[t]] /\ DOMAIN cargo' = 1..n
  BY ZenonT(30), <1>2, <1>3
<1>6. DOMAIN states[s] = {"file", "index", "groups"} /\ s \in 1..n
  BY <1>2 DEF IInv, Shape
<1>7. /\ \A t \in 1..n : t # s => states'[t] = states[t]
      /\ DOMAIN states'[s] = DOMAIN states[s]
      /\ states'[s].groups = h /\ states'[s].file = states[s].file /\ states'[s].index = states[s].index
  BY <1>2, <1>3, <1>6
<1>8. /\ \A t \in 1..n : t # s => loop'[t] = loop[t] /\ cargo'[t] = cargo[t]
      /\ loop'[s] = next /\ cargo'[s] = Held(s)
  BY <1>2, <1>3, <1>6
<1>9. cargo[s] = {}
  BY DEF IInv, Loops
<1>10. Held(s)' = {} /\ \A t \in 1..n : t # s => Held(t)' = Held(t)
  <2>1. Content(states'[s]) = {}
    BY <1>4, <1>7 DEF Content
  <2>2. QED
    BY <1>7, <2>1, HeldIs
<1>11. Shape'
  <2>1. \A t \in DOMAIN states' : DOMAIN states'[t] = {"file", "index", "groups"}
    BY ZenonT(30), <1>2, <1>5, <1>6, <1>7 DEF IInv, Shape
  <2>2. \A t \in DOMAIN loop' : loop'[t] \in {"off", "wait", "emit", "last"}
    BY ZenonT(30), <1>2, <1>5, <1>8 DEF IInv, Shape
  <2>3. QED
    BY ZenonT(30), <1>1, <1>2, <1>5, <2>1, <2>2 DEF IInv, Shape
<1>12. Taken'
  BY <1>1, <1>2, <1>5 DEF IInv, Taken
<1>13. Apart'
  <2>1. /\ \A t \in 1..n : Held(t)' = {} \/ (t # s /\ Held(t)' = Held(t))
        /\ \A t \in 1..n : (t = s /\ cargo'[t] = Held(s)) \/ (t # s /\ cargo'[t] = cargo[t])
    BY <1>8, <1>10, SMT
  <2>2. /\ \A t \in 1..n : \A id \in Held(t) : id \in DOMAIN fate /\ fate[id] # "in"
        /\ \A t \in 1..n : \A id \in cargo[t] : id \in DOMAIN fate /\ fate[id] # "in"
    BY ZenonT(30), <1>2, Zenon DEF IInv, Apart
  <2>3. /\ \A t, u \in 1..n : t # u => Held(t) \cap Held(u) = {}
        /\ \A t, u \in 1..n : t # u => cargo[t] \cap cargo[u] = {}
        /\ \A t, u \in 1..n : Held(t) \cap cargo[u] = {}
    BY <1>2 DEF IInv, Apart
  <2>4. /\ \A t \in 1..n, i \in DOMAIN delivered : Held(t) \cap delivered[i] = {}
        /\ \A t \in 1..n, i \in DOMAIN delivered : cargo[t] \cap delivered[i] = {}
    BY <1>2 DEF IInv, Apart
  <2>5. /\ \A t \in 1..n : \A id \in Held(t)' : id \in DOMAIN fate /\ fate[id] # "in"
        /\ \A t \in 1..n : \A id \in cargo'[t] : id \in DOMAIN fate /\ fate[id] # "in"
    BY <1>6, <2>1, <2>2
  <2>6. \A t, u \in 1..n : t # u => Held(t)' \cap Held(u)' = {}
    BY <2>1, <2>3
  <2>7. \A t, u \in 1..n : t # u => cargo'[t] \cap cargo'[u] = {}
    BY <1>6, <2>1, <2>3
  <2>8. \A t, u \in 1..n : Held(t)' \cap cargo'[u] = {}
    BY <1>6, <2>1, <2>3
  <2>9. /\ \A t \in 1..n, i \in DOMAIN delivered : Held(t)' \cap delivered[i] = {}
        /\ \A t \in 1..n, i \in DOMAIN delivered : cargo'[t] \cap delivered[i] = {}
    BY <1>6, <2>1, <2>4
  <2>10. QED
    BY <1>1, <1>5, <2>5, <2>6, <2>7, <2>8, <2>9 DEF IInv, Apart
<1>14. Current'
  <2>1. \A t \in DOMAIN states : states'[t].file = states[t].file /\ states'[t].index = states[t].index
    BY <1>2, <1>7
  <2>2. QED
    BY <1>1, <2>1, StatesAre DEF IInv, Current
<1>15. Kept'
  <2> SUFFICES ASSUME outputFn', FlushesInTime, NEW id \in DOMAIN fate', fate'[id] = "ingested" PROVE InPlace(id)'
    BY DEF Kept
  <2>1. InPlace(id)
    BY <1>1 DEF IInv, Kept
  <2>2. CASE id \in Held(s)
    <3>1. s \in DOMAIN cargo' /\ id \in cargo'[s]
      BY SMTT(30), ZenonT(30), <1>5, <1>6, <1>8, <2>2
    <3>2. QED
      BY <3>1 DEF InPlace
  <2>3. CASE id \notin Held(s)
    <3>1. \A t \in DOMAIN states : id \in Held(t) => t \in DOMAIN states' /\ id \in Held(t)'
      BY ZenonT(30), <1>2, <1>5, <1>10, <2>3
    <3>2. \A t \in DOMAIN cargo : id \in cargo[t] => t \in DOMAIN cargo' /\ id \in cargo'[t]
      BY ZenonT(30), <1>2, <1>5, <1>8, <1>9
    <3>3. QED
      BY <1>1, <2>1, <3>1, <3>2 DEF InPlace
  <2>4. QED
    BY <2>2, <2>3
<1>16. Loops'
  <2>1. \A t \in DOMAIN loop' : loop'[t] \in {"wait", "off"} => cargo'[t] = {}
    BY <1>2, <1>5, <1>8 DEF IInv, Loops
  <2>2. main.at \in {"run", "stop"} /\ started => \A t \in ToSet(aggRules) : loop'[t] \in {"wait", "emit"}
    <3>1. main.at \in {"run", "stop"} /\ started => \A t \in ToSet(aggRules) : loop[t] \in {"wait", "emit"} /\ t \notin cancelled
      BY DEF IInv, Loops
    <3>2. QED
      BY ZenonT(30), <1>1, <1>2, <1>8, <3>1, StatesAre
  <2>3. hup.at = "restart" => \A t \in ToSet(aggRules) : loop'[t] = "off"
    <3>1. hup.at = "restart" => \A t \in ToSet(aggRules) : loop[t] = "off"
      BY DEF IInv, Loops
    <3>2. QED
      BY ZenonT(30), <1>2, <1>8, <3>1, StatesAre
  <2>4. QED
    BY SMTT(30), ZenonT(30), <1>1, <2>1, <2>2, <2>3 DEF IInv, Loops
<1>17. Ending'
  <2>1. \A t \in ToSet(aggRules) : (loop[t] \in {"last", "off"} => Held(t) = {}) => (loop'[t] \in {"last", "off"} => Held(t)' = {})
    BY ZenonT(30), <1>2, <1>8, <1>10, StatesAre
  <2>2. QED
    BY <1>1, <2>1 DEF IInv, Ending
<1>18. QED
  BY <1>11, <1>12, <1>13, <1>14, <1>15, <1>16, <1>17 DEF IInv

\* a sequence with one more element
LEMMA AppendIs ==
    ASSUME NEW m \in Nat, NEW q, q = [i \in 1..m |-> q[i]], NEW x
    PROVE  /\ Append(q, x) = [i \in 1..(m + 1) |-> Append(q, x)[i]]
           /\ \A i \in 1..m : Append(q, x)[i] = q[i]
           /\ Append(q, x)[m + 1] = x
<1>1. q \in Seq({q[i] : i \in 1..m} \cup {x}) /\ Len(q) = m
  OBVIOUS
<1>2. QED
  BY <1>1

\* the callback: the cargo of a loop is delivered, and the loop waits or ends
LEMMA EmitStays ==
    ASSUME IInv, NEW s \in DOMAIN loop, Emit(s)
    PROVE  IInv'
<1>1. /\ Points' = Points /\ hup' = hup /\ main' = main /\ fate' = fate /\ worker' = worker /\ states' = states
      /\ staleness' = staleness /\ aggRules' = aggRules /\ started' = started /\ outputFn' = outputFn /\ cancelled' = cancelled
  BY DEF Emit
<1>2. PICK n \in Nat : /\ states = [t \in 1..n |-> states[t]] /\ DOMAIN states = 1..n
                       /\ loop = [t \in 1..n |-> loop[t]] /\ DOMAIN loop = 1..n
                       /\ cargo = [t \in 1..n |-> cargo[t]] /\ DOMAIN cargo = 1..n
  BY StatesAre
<1>3. /\ loop[s] \in {"emit", "last"}
      /\ cargo' = [cargo EXCEPT ![s] = {}]
      /\ loop' = [loop EXCEPT ![s] = IF loop[s] = "last" THEN "off" ELSE "wait"]
      /\ delivered' = IF outputFn /\ cargo[s] # {} THEN Append(delivered, cargo[s]) ELSE delivered
  BY DEF Emit
<1>4. /\ loop' = [t \in 1..n |-> loop'[t]] /\ DOMAIN loop' = 1..n
      /\ cargo' = [t \in 1..n |-> cargo'[t]] /\ DOMAIN cargo' = 1..n
      /\ \A t \in 1..n : t # s => loop'[t] = loop[t] /\ cargo'[t] = cargo[t]
      /\ cargo'[s] = {} /\ s \in 1..n
      /\ loop'[s] = IF loop[s] = "last" THEN "off" ELSE "wait"
  BY ZenonT(30), <1>2, <1>3
<1>5. /\ \A t \in 1..n : \A id \in Held(t) : id \in DOMAIN fate /\ fate[id] # "in"
      /\ \A t \in 1..n : \A id \in cargo[t] : id \in DOMAIN fate /\ fate[id] # "in"
      /\ \A i \in DOMAIN delivered : \A id \in delivered[i] : id \in DOMAIN fate /\ fate[id] # "in"
  BY <1>2, Zenon DEF IInv, Apart
<1>6. /\ \A t, u \in 1..n : t # u => Held(t) \cap Held(u) = {}
      /\ \A t, u \in 1..n : t # u => cargo[t] \cap cargo[u] = {}
      /\ \A t, u \in 1..n : Held(t) \cap cargo[u] = {}
      /\ \A i, j \in DOMAIN delivered : i # j => delivered[i] \cap delivered[j] = {}
      /\ \A t \in 1..n, i \in DOMAIN delivered : Held(t) \cap delivered[i] = {}
      /\ \A t \in 1..n, i \in DOMAIN delivered : cargo[t] \cap delivered[i] = {}
  BY <1>2 DEF IInv, Apart
<1>7. /\ IsSequence(delivered')
      /\ \A i \in DOMAIN delivered : i \in DOMAIN delivered' /\ delivered'[i] = delivered[i]
      /\ \A i \in DOMAIN delivered' : \/ i \in DOMAIN delivered /\ delivered'[i] = delivered[i]
                                      \/ i \notin DOMAIN delivered /\ delivered'[i] = cargo[s]
      /\ \A i, j \in DOMAIN delivered' : i \notin DOMAIN delivered /\ j \notin DOMAIN delivered => i = j
      /\ outputFn => \A id \in cargo[s] : \E i \in DOMAIN delivered' : id \in delivered'[i]
  <2>1. PICK m \in Nat : delivered = [i \in 1..m |-> delivered[i]]
    BY DEF IInv, Shape, IsSequence
  <2>2. CASE outputFn /\ cargo[s] # {}
    <3>1. /\ delivered' = [i \in 1..(m + 1) |-> delivered'[i]]
          /\ \A i \in 1..m : delivered'[i] = delivered[i]
          /\ delivered'[m + 1] = cargo[s]
      BY <1>3, <2>1, <2>2, AppendIs
    <3>2. m + 1 \in Nat /\ DOMAIN delivered = 1..m /\ DOMAIN delivered' = 1..(m + 1)
      BY <2>1, <3>1
    <3>3. /\ \A i \in 1..(m + 1) : i \in 1..m \/ i = m + 1
          /\ m + 1 \notin 1..m /\ m + 1 \in 1..(m + 1)
          /\ \A i \in 1..m : i \in 1..(m + 1)
      BY SMT
    <3>4. IsSequence(delivered')
      BY <3>1, <3>2 DEF IsSequence
    <3>5. QED
      BY <3>1, <3>2, <3>3, <3>4
  <2>3. CASE ~outputFn \/ cargo[s] = {}
    BY ZenonT(30), <1>3, <2>1, <2>3 DEF IsSequence
  <2>4. QED
    BY <2>2, <2>3
<1>8. \A t : Held(t)' = Held(t)
  BY <1>1, HeldIs
<1>9. Shape'
  <2>1. \A t \in DOMAIN loop' : loop'[t] \in {"off", "wait", "emit", "last"}
    BY ZenonT(30), <1>2, <1>4 DEF IInv, Shape
  <2>2. QED
    BY <1>1, <1>2, <1>4, <1>7, <2>1 DEF IInv, Shape
<1>10. Taken'
  BY <1>1 DEF IInv, Taken
<1>11. Apart'
  <2>1. \A t \in 1..n : cargo'[t] = {} \/ (t # s /\ cargo'[t] = cargo[t])
    BY <1>4, SMT
  <2>2. /\ \A i \in DOMAIN delivered' : \A id \in delivered'[i] : id \in DOMAIN fate /\ fate[id] # "in"
        /\ \A t \in 1..n : \A id \in cargo'[t] : id \in DOMAIN fate /\ fate[id] # "in"
    <3>1. \A i \in DOMAIN delivered' : \A id \in delivered'[i] : id \in DOMAIN fate /\ fate[id] # "in"
      BY SMTT(30), ZenonT(30), <1>4, <1>5, <1>7
    <3>2. \A t \in 1..n : \A id \in cargo'[t] : id \in DOMAIN fate /\ fate[id] # "in"
      BY <1>5, <2>1
    <3>3. QED
      BY ZenonT(30), <3>1, <3>2, Zenon
  <2>3. /\ \A t, u \in 1..n : t # u => cargo'[t] \cap cargo'[u] = {}
        /\ \A t, u \in 1..n : Held(t) \cap cargo'[u] = {}
    BY ZenonT(30), <1>6, <2>1
  <2>4. \A i, j \in DOMAIN delivered' : i # j => delivered'[i] \cap delivered'[j] = {}
    <3>1. \A i \in DOMAIN delivered : cargo[s] \cap delivered[i] = {} /\ delivered[i] \cap cargo[s] = {}
      BY <1>4, <1>6
    <3> SUFFICES ASSUME NEW i \in DOMAIN delivered', NEW j \in DOMAIN delivered', i # j
                 PROVE  delivered'[i] \cap delivered'[j] = {}
      OBVIOUS
    <3>2. CASE i \in DOMAIN delivered /\ j \in DOMAIN delivered
      BY SMTT(30), ZenonT(30), <1>6, <1>7, <3>2
    <3>3. CASE i \in DOMAIN delivered /\ j \notin DOMAIN delivered
      BY SMTT(30), ZenonT(30), <1>7, <3>1, <3>3
    <3>4. CASE i \notin DOMAIN delivered /\ j \in DOMAIN delivered
      BY SMTT(30), ZenonT(30), <1>7, <3>1, <3>4
    <3>5. QED
      BY SMTT(30), ZenonT(30), <1>7, <3>2, <3>3, <3>4
  <2>5. \A t \in 1..n, i \in DOMAIN delivered' : Held(t) \cap delivered'[i] = {}
    BY <1>4, <1>6, <1>7
  <2>6. \A t \in 1..n, i \in DOMAIN delivered' : cargo'[t] \cap delivered'[i] = {}
    BY SMTT(30), ZenonT(30), <1>4, <1>6, <1>7, <2>1
  <2>7. QED
    BY <1>1, <1>2, <1>4, <1>5, <1>6, <1>8, <2>2, <2>3, <2>4, <2>5, <2>6 DEF Apart
<1>12. Current'
  BY <1>1 DEF IInv, Current
<1>13. Kept'
  <2> SUFFICES ASSUME outputFn', FlushesInTime, NEW id \in DOMAIN fate', fate'[id] = "ingested" PROVE InPlace(id)'
    BY DEF Kept
  <2>1. InPlace(id)
    BY <1>1 DEF IInv, Kept
  <2>2. CASE id \in cargo[s]
    BY <1>1, <1>7, <2>2 DEF InPlace
  <2>3. CASE id \notin cargo[s]
    BY ZenonT(30), <1>1, <1>2, <1>4, <1>7, <1>8, <2>1, <2>3 DEF InPlace
  <2>4. QED
    BY <2>2, <2>3
<1>14. Loops'
  <2>1. \A t \in DOMAIN loop' : loop'[t] \in {"wait", "off"} => cargo'[t] = {}
    BY <1>2, <1>4 DEF IInv, Loops
  <2>2. main.at \in {"run", "stop"} /\ started => \A t \in ToSet(aggRules) : loop'[t] \in {"wait", "emit"}
    <3>1. main.at \in {"run", "stop"} /\ started => \A t \in ToSet(aggRules) : loop[t] \in {"wait", "emit"}
      BY DEF IInv, Loops
    <3>2. QED
      BY ZenonT(30), <1>1, <1>2, <1>4, <3>1, StatesAre
  <2>3. hup.at = "restart" => \A t \in ToSet(aggRules) : loop'[t] = "off"
    <3>1. hup.at = "restart" => \A t \in ToSet(aggRules) : loop[t] = "off"
      BY DEF IInv, Loops
    <3>2. QED
      BY ZenonT(30), <1>2, <1>3, <1>4, <3>1, StatesAre
  <2>4. QED
    BY SMTT(30), ZenonT(30), <1>1, <2>1, <2>2, <2>3 DEF IInv, Loops
<1>15. Ending'
  <2>1. \A t \in ToSet(aggRules) : (loop[t] \in {"last", "off"} => Held(t) = {}) => (loop'[t] \in {"last", "off"} => Held(t)' = {})
    BY <1>2, <1>3, <1>4, <1>8, StatesAre
  <2>2. QED
    BY <1>1, <2>1 DEF IInv, Ending
<1>16. QED
  BY <1>9, <1>10, <1>11, <1>12, <1>13, <1>14, <1>15 DEF IInv

\* a stale group goes, and takes no datapoint with it if every rule flushes in time
LEMMA CleanupStays ==
    ASSUME IInv, NEW s \in DOMAIN states, NEW key \in DOMAIN states[s].groups, CleanupStale(s, key)
    PROVE  IInv'
<1>1. /\ Points' = Points /\ hup' = hup /\ main' = main /\ fate' = fate /\ worker' = worker /\ delivered' = delivered
      /\ staleness' = staleness /\ aggRules' = aggRules /\ started' = started /\ outputFn' = outputFn /\ cancelled' = cancelled
      /\ loop' = loop /\ cargo' = cargo
  BY DEF CleanupStale
<1>2. PICK n \in Nat : states = [t \in 1..n |-> states[t]] /\ DOMAIN states = 1..n /\ DOMAIN loop = 1..n /\ DOMAIN cargo = 1..n
  BY StatesAre
<1> DEFINE g == states[s].groups
           h == [k \in DOMAIN g \ {key} |-> g[k]]
<1>3. /\ states' = [states EXCEPT ![s].groups = h]
      /\ s \in ToSet(aggRules)
      /\ g[key] # {} => StateRule(s).interval > staleness
  BY SMTT(30), ZenonT(30) DEF CleanupStale
<1>4. /\ UNION {h[k] : k \in DOMAIN h} \subseteq UNION {g[k] : k \in DOMAIN g}
      /\ g[key] = {} => UNION {h[k] : k \in DOMAIN h} = UNION {g[k] : k \in DOMAIN g}
  <2> HIDE DEF g
  <2>1. UNION {h[k] : k \in DOMAIN h} \subseteq UNION {g[k] : k \in DOMAIN g}
    <3> SUFFICES ASSUME NEW k \in DOMAIN h PROVE h[k] \subseteq UNION {g[j] : j \in DOMAIN g}
      BY Zenon
    <3>1. k \in DOMAIN g /\ h[k] = g[k]
      OBVIOUS
    <3>2. QED
      BY <3>1, Zenon
  <2>2. ASSUME g[key] = {} PROVE UNION {g[k] : k \in DOMAIN g} \subseteq UNION {h[k] : k \in DOMAIN h}
    <3> SUFFICES ASSUME NEW k \in DOMAIN g, NEW x \in g[k] PROVE x \in UNION {h[j] : j \in DOMAIN h}
      BY Zenon
    <3>1. k # key
      BY <2>2
    <3>2. k \in DOMAIN h /\ x \in h[k]
      BY <3>1
    <3>3. QED
      BY <3>2, Zenon
  <2>3. QED
    BY <2>1, <2>2
<1> HIDE DEF h
<1>5. DOMAIN states[s] = {"file", "index", "groups"} /\ s \in 1..n
  BY <1>2 DEF IInv, Shape
<1>6. /\ states' = [t \in 1..n |-> states'[t]] /\ DOMAIN states' = 1..n
      /\ \A t \in 1..n : t # s => states'[t] = states[t]
      /\ DOMAIN states'[s] = DOMAIN states[s]
      /\ states'[s].groups = h /\ states'[s].file = states[s].file /\ states'[s].index = states[s].index
  BY ZenonT(30), <1>2, <1>3, <1>5
<1>7. /\ \A t \in 1..n : Held(t)' \subseteq Held(t)
      /\ g[key] = {} => \A t \in 1..n : Held(t)' = Held(t)
  <2>1. Content(states'[s]) = UNION {h[k] : k \in DOMAIN h}
    BY ZenonT(30), <1>6, Zenon DEF Content
  <2>2. Content(states[s]) = UNION {g[k] : k \in DOMAIN g}
    BY DEF Content
  <2> HIDE DEF g
  <2>3. Held(s)' \subseteq Held(s) /\ (g[key] = {} => Held(s)' = Held(s))
    BY <1>4, <2>1, <2>2, HeldIs
  <2>4. \A t \in 1..n : t # s => Held(t)' = Held(t)
    BY <1>6, HeldIs
  <2>5. QED
    BY <2>3, <2>4, Zenon
<1>8. FlushesInTime => g[key] = {}
  <2> SUFFICES ASSUME FlushesInTime PROVE ~(StateRule(s).interval > staleness)
    BY <1>3
  <2>1. /\ states[s].file \in DOMAIN Config /\ staleness = Config[states[s].file].staleness
        /\ \E st \in ToSet(NewStates(states[s].file)) : st.index = states[s].index
    BY SMTT(30), ZenonT(30), <1>3 DEF IInv, Current
  <2>2. QED
    BY <2>1, Zenon DEF FlushesInTime, StateRule
<1> HIDE DEF g
<1>9. Shape'
  <2>1. \A t \in DOMAIN states' : DOMAIN states'[t] = {"file", "index", "groups"}
    BY ZenonT(30), <1>2, <1>5, <1>6 DEF IInv, Shape
  <2>2. \E k \in Nat : /\ states' = [t \in 1..k |-> states'[t]]
                       /\ loop' = [t \in 1..k |-> loop'[t]]
                       /\ cargo' = [t \in 1..k |-> cargo'[t]]
    <3>1. loop = [t \in 1..n |-> loop[t]] /\ cargo = [t \in 1..n |-> cargo[t]]
      BY <1>2 DEF IInv, Shape
    <3>2. QED
      BY <1>1, <1>6, <3>1
  <2>3. QED
    BY <1>1, <1>2, <1>6, <2>1, <2>2 DEF IInv, Shape
<1>10. Taken'
  BY <1>1, <1>2, <1>6 DEF IInv, Taken
<1>11. Apart'
  <2>1. /\ \A t \in 1..n : \A id \in Held(t) : id \in DOMAIN fate /\ fate[id] # "in"
        /\ \A t, u \in 1..n : t # u => Held(t) \cap Held(u) = {}
        /\ \A t \in 1..n, u \in DOMAIN cargo : Held(t) \cap cargo[u] = {}
        /\ \A t \in 1..n, i \in DOMAIN delivered : Held(t) \cap delivered[i] = {}
    BY <1>2 DEF IInv, Apart
  <2>2. /\ \A t \in 1..n : \A id \in Held(t)' : id \in DOMAIN fate /\ fate[id] # "in"
        /\ \A t, u \in 1..n : t # u => Held(t)' \cap Held(u)' = {}
        /\ \A t \in 1..n, u \in DOMAIN cargo : Held(t)' \cap cargo[u] = {}
        /\ \A t \in 1..n, i \in DOMAIN delivered : Held(t)' \cap delivered[i] = {}
    BY ZenonT(30), <1>7, <2>1, Zenon
  <2>3. QED
    BY <1>1, <1>6, <2>2 DEF IInv, Apart
<1>12. Current'
  <2>1. \A t \in DOMAIN states : states'[t].file = states[t].file /\ states'[t].index = states[t].index
    BY <1>2, <1>6
  <2>2. QED
    BY <1>1, <2>1, StatesAre DEF IInv, Current
<1>13. Kept'
  <2> SUFFICES ASSUME outputFn', FlushesInTime, NEW id \in DOMAIN fate', fate'[id] = "ingested" PROVE InPlace(id)'
    BY DEF Kept
  <2>1. InPlace(id)
    BY SMTT(30), ZenonT(30), <1>1 DEF IInv, Kept
  <2>2. QED
    BY <1>1, <1>2, <1>6, <1>7, <1>8, <2>1 DEF InPlace
<1>14. Loops' /\ Ending'
  <2>1. \A t \in ToSet(aggRules) : Held(t) = {} => Held(t)' = {}
    BY <1>2, <1>7, StatesAre
  <2>2. Loops'
    BY SMTT(30), ZenonT(30), <1>1 DEF IInv, Loops
  <2>3. Ending'
    BY <1>1, <2>1 DEF IInv, Ending
  <2>4. QED
    BY <2>2, <2>3
<1>15. QED
  BY <1>9, <1>10, <1>11, <1>12, <1>13, <1>14 DEF IInv

-----------------------------------------------------------------------------
(* Reload and shutdown *)

\* what the control of the engine consists of, apart from the loops themselves
others == <<Points, worker, fate, placeVars, staleness, aggRules, outputFn>>

\* a step that changes only the flush loops and how far the reload and the shutdown are
LEMMA LoopStays ==
    ASSUME IInv, UNCHANGED others, Shape', Loops', Ending'
    PROVE  IInv'
<1>1. /\ Points' = Points /\ fate' = fate /\ worker' = worker
      /\ states' = states /\ cargo' = cargo /\ delivered' = delivered
      /\ staleness' = staleness /\ aggRules' = aggRules /\ outputFn' = outputFn
  BY SMTT(30), ZenonT(30) DEF others, placeVars
<1>2. \A s : Held(s)' = Held(s)
  BY <1>1, HeldIs
<1>3. Taken'
  BY SMTT(30), ZenonT(30), <1>1 DEF IInv, Taken
<1>4. Apart'
  BY SMTT(30), ZenonT(30), <1>1, <1>2 DEF IInv, Apart
<1>5. Current'
  BY SMTT(30), ZenonT(30), <1>1 DEF IInv, Current
<1>6. Kept'
  BY <1>1, <1>2 DEF IInv, Kept, InPlace
<1>7. QED
  BY <1>3, <1>4, <1>5, <1>6 DEF IInv

\* the shape of the variables does not depend on how far a reload or the shutdown is
LEMMA ControlShape ==
    ASSUME IInv, UNCHANGED others, loop' = loop, started' \in BOOLEAN, cancelled' \subseteq DOMAIN loop,
           "at" \in DOMAIN hup',
           hup'.at \in {"idle", "clear", "stop", "join", "swap", "restart"},
           hup'.at # "idle" => DOMAIN hup' = {"at", "cfg"} /\ hup'.cfg \in DOMAIN Config,
           DOMAIN main' = {"at", "late"}, main'.at \in {"run", "stop", "join", "stopped", "end"}
    PROVE  Shape'
<1>1. /\ Points' = Points /\ fate' = fate /\ worker' = worker
      /\ states' = states /\ cargo' = cargo /\ delivered' = delivered
      /\ aggRules' = aggRules /\ outputFn' = outputFn /\ DOMAIN loop = DOMAIN states
  BY StatesAre DEF others, placeVars
<1>2. QED
  BY <1>1 DEF IInv, Shape

\* a reload: main and the engine stay as they are
LEMMA HupStays ==
    ASSUME IInv, UNCHANGED others, loop' = loop, started' = started, cancelled' = cancelled, main' = main,
           hup.at \in {"idle", "clear"}, "at" \in DOMAIN hup', hup'.at \in {"idle", "clear", "stop"},
           hup'.at # "idle" => DOMAIN hup' = {"at", "cfg"} /\ hup'.cfg \in DOMAIN Config
    PROVE  IInv'
<1>1. Shape'
  <2>1. /\ started \in BOOLEAN /\ cancelled \subseteq DOMAIN loop
        /\ DOMAIN main = {"at", "late"} /\ main.at \in {"run", "stop", "join", "stopped", "end"}
    BY StatesAre DEF IInv, Shape
  <2>2. QED
    BY SMTT(30), ZenonT(30), <2>1, ControlShape
<1>2. worker' = worker /\ aggRules' = aggRules /\ cargo' = cargo /\ \A s : Held(s)' = Held(s)
  BY SMTT(30), ZenonT(30), HeldIs DEF others, placeVars
<1>3. Loops'
  BY ZenonT(30), <1>2 DEF IInv, Loops
<1>4. Ending'
  BY <1>2 DEF IInv, Ending
<1>5. QED
  BY SMTT(30), ZenonT(30), <1>1, <1>3, <1>4, LoopStays

LEMMA OthersAre ==
    ASSUME UNCHANGED <<Points, worker, fate>>, UNCHANGED aggVars
    PROVE  UNCHANGED others /\ loop' = loop /\ started' = started /\ cancelled' = cancelled
BY DEF aggVars, others, placeVars

LEMMA ReloadStays ==
    ASSUME IInv, NEW f, Reload(f)
    PROVE  IInv'
<1>1. UNCHANGED <<Points, worker, fate>> /\ UNCHANGED aggVars /\ main' = main /\ hup.at = "idle"
  BY DEF Reload
<1>2. CASE f \in DOMAIN Config
  <2>1. hup' = [at |-> "clear", cfg |-> f]
    BY <1>2 DEF Reload
  <2>2. DOMAIN hup' = {"at", "cfg"} /\ hup'.at = "clear" /\ hup'.cfg = f
    BY <2>1
  <2>3. QED
    BY <1>1, <1>2, <2>2, OthersAre, HupStays
<1>3. CASE f \notin DOMAIN Config
  <2>1. hup' = hup
    BY SMTT(30), ZenonT(30), <1>3 DEF Reload
  <2>2. "at" \in DOMAIN hup
    BY DEF IInv, Shape
  <2>3. QED
    BY <1>1, <2>1, <2>2, OthersAre, HupStays
<1>4. QED
  BY <1>2, <1>3

LEMMA ClearCacheStays ==
    ASSUME IInv, ClearCache
    PROVE  IInv'
<1>1. /\ UNCHANGED <<Points, worker, fate>> /\ UNCHANGED aggVars /\ main' = main
      /\ hup.at = "clear" /\ hup' = [hup EXCEPT !.at = "stop"]
  BY DEF ClearCache
<1>2. DOMAIN hup = {"at", "cfg"} /\ hup.cfg \in DOMAIN Config
  BY <1>1 DEF IInv, Shape
<1>3. DOMAIN hup' = {"at", "cfg"} /\ hup'.at = "stop" /\ hup'.cfg = hup.cfg
  BY <1>1, <1>2
<1>4. QED
  BY <1>1, <1>2, <1>3, OthersAre, HupStays

\* Stop, in the terms the proofs need
LEMMA StopIs ==
    ASSUME IInv, Stop
    PROVE  /\ UNCHANGED others /\ loop' = loop /\ started' = FALSE /\ cancelled' \subseteq DOMAIN loop
           /\ worker' = worker /\ aggRules' = aggRules /\ cargo' = cargo /\ \A s : Held(s)' = Held(s)
<1>1. /\ UNCHANGED others /\ loop' = loop /\ started' = FALSE
      /\ cancelled' = IF started THEN DOMAIN loop ELSE cancelled
  BY DEF Stop, others, placeVars
<1>2. cancelled \subseteq DOMAIN loop
  BY StatesAre DEF IInv, Shape
<1>3. worker' = worker /\ aggRules' = aggRules /\ cargo' = cargo /\ \A s : Held(s)' = Held(s)
  BY <1>1, HeldIs DEF others, placeVars
<1>4. QED
  BY <1>1, <1>2, <1>3

LEMMA ReloadStopStays ==
    ASSUME IInv, ReloadStop
    PROVE  IInv'
<1>1. /\ hup.at = "stop" /\ hup' = [hup EXCEPT !.at = IF started THEN "join" ELSE "swap"] /\ Stop /\ main' = main
  BY DEF ReloadStop
<1>2. /\ UNCHANGED others /\ loop' = loop /\ started' = FALSE /\ cancelled' \subseteq DOMAIN loop
      /\ worker' = worker /\ aggRules' = aggRules /\ cargo' = cargo /\ \A s : Held(s)' = Held(s)
  BY <1>1, StopIs
<1>3. DOMAIN hup = {"at", "cfg"} /\ hup.cfg \in DOMAIN Config
  BY <1>1 DEF IInv, Shape
<1>4. DOMAIN hup' = {"at", "cfg"} /\ hup'.at \in {"join", "swap"} /\ hup'.cfg = hup.cfg
  BY <1>1, <1>3
<1>5. DOMAIN main = {"at", "late"} /\ main.at \in {"run", "stop", "join", "stopped", "end"}
  BY DEF IInv, Shape
<1>6. Shape'
  BY ZenonT(30), <1>1, <1>2, <1>3, <1>4, <1>5, ControlShape
<1>7. Loops'
  BY <1>1, <1>2, <1>4 DEF IInv, Loops
<1>8. Ending'
  BY <1>1, <1>2, <1>4 DEF IInv, Ending
<1>9. QED
  BY <1>2, <1>6, <1>7, <1>8, LoopStays

\* a step of main that leaves the SIGHUP goroutine and the loops alone
LEMMA MainShape ==
    ASSUME IInv, UNCHANGED others, loop' = loop, started' \in BOOLEAN, cancelled' \subseteq DOMAIN loop, hup' = hup,
           DOMAIN main' = {"at", "late"}, main'.at \in {"run", "stop", "join", "stopped", "end"}
    PROVE  Shape' /\ worker' = worker /\ aggRules' = aggRules /\ cargo' = cargo /\ \A s : Held(s)' = Held(s)
<1>1. Shape'
  <2>1. /\ "at" \in DOMAIN hup /\ hup.at \in {"idle", "clear", "stop", "join", "swap", "restart"}
        /\ hup.at # "idle" => DOMAIN hup = {"at", "cfg"} /\ hup.cfg \in DOMAIN Config
    BY DEF IInv, Shape
  <2>2. QED
    BY <2>1, ControlShape
<1>2. worker' = worker /\ aggRules' = aggRules /\ cargo' = cargo /\ \A s : Held(s)' = Held(s)
  BY HeldIs DEF others, placeVars
<1>3. QED
  BY <1>1, <1>2

LEMMA StopReceiversStays ==
    ASSUME IInv, StopReceivers
    PROVE  IInv'
<1>1. /\ UNCHANGED <<Points, worker, fate>> /\ UNCHANGED aggVars /\ hup' = hup /\ main.at = "run"
      /\ \E late \in BOOLEAN : /\ ~late => \A w \in Workers : worker[w].at \in {"idle", "next"}
                               /\ main' = [at |-> "stop", late |-> late]
  BY DEF StopReceivers
<1>2. PICK late \in BOOLEAN : /\ ~late => \A w \in Workers : worker[w].at \in {"idle", "next"}
                              /\ main' = [at |-> "stop", late |-> late]
  BY <1>1
<1>3. DOMAIN main' = {"at", "late"} /\ main'.at = "stop" /\ main'.late = late
  BY <1>2
<1>4. UNCHANGED others /\ loop' = loop /\ started' = started /\ cancelled' = cancelled
  BY <1>1, OthersAre
<1>5. started \in BOOLEAN /\ cancelled \subseteq DOMAIN loop
  BY StatesAre DEF IInv, Shape
<1>6. Shape' /\ worker' = worker /\ aggRules' = aggRules /\ cargo' = cargo /\ \A s : Held(s)' = Held(s)
  BY <1>1, <1>3, <1>4, <1>5, MainShape
<1>7. Loops'
  BY SMTT(30), ZenonT(30), <1>1, <1>3, <1>4, <1>6 DEF IInv, Loops
<1>8. Ending'
  BY <1>2, <1>3, <1>6 DEF Ending
<1>9. QED
  BY <1>4, <1>6, <1>7, <1>8, LoopStays

\* when main stops the engine the loops of the states in use still run, or a
\* reload has stopped it already
LEMMA StopAggregationStays ==
    ASSUME IInv, StopAggregation
    PROVE  IInv'
<1>1. main.at = "stop" /\ main' = [main EXCEPT !.at = IF started THEN "join" ELSE "stopped"] /\ Stop /\ hup' = hup
  BY DEF StopAggregation
<1>2. /\ UNCHANGED others /\ loop' = loop /\ started' = FALSE /\ cancelled' \subseteq DOMAIN loop
  BY <1>1, StopIs
<1>3. DOMAIN main = {"at", "late"}
  BY DEF IInv, Shape
<1>4. DOMAIN main' = {"at", "late"} /\ main'.at \in {"join", "stopped"} /\ main'.late = main.late
  BY <1>1, <1>3
<1>5. Shape' /\ worker' = worker /\ aggRules' = aggRules /\ cargo' = cargo /\ \A s : Held(s)' = Held(s)
  BY ZenonT(30), <1>1, <1>2, <1>4, MainShape
<1>6. Loops'
  BY <1>1, <1>2, <1>4, <1>5 DEF IInv, Loops
<1>7. Ending'
  <2>1. ~main.late => \A w \in Workers : worker[w].at \in {"idle", "next"}
    BY <1>1 DEF IInv, Ending
  <2>2. hup.at \in {"idle", "clear", "stop"} => \A s \in ToSet(aggRules) : loop[s] \notin {"last", "off"}
    <3>1. CASE aggRules = <<>>
      BY <3>1 DEF ToSet
    <3>2. CASE started
      BY SMTT(30), ZenonT(30), <1>1, <3>2 DEF IInv, Loops
    <3>3. QED
      BY <1>1, <3>1, <3>2 DEF IInv, Loops
  <2>3. QED
    BY <1>1, <1>2, <1>4, <1>5, <2>1, <2>2 DEF Ending
<1>8. QED
  BY <1>2, <1>5, <1>6, <1>7, LoopStays

\* StopAggregation returns, and main cancels what is left
LEMMA EndingStays ==
    ASSUME IInv, UNCHANGED others, loop' = loop, started' = started, cancelled' \subseteq DOMAIN loop, hup' = hup,
           main.at \in {"join", "stopped"}, NEW to \in {"stopped", "end"}, main' = [main EXCEPT !.at = to]
    PROVE  IInv'
<1>1. DOMAIN main = {"at", "late"} /\ started \in BOOLEAN
  BY DEF IInv, Shape
<1>2. DOMAIN main' = {"at", "late"} /\ main'.at \in {"stopped", "end"} /\ main'.late = main.late
  BY <1>1
<1>3. Shape' /\ worker' = worker /\ aggRules' = aggRules /\ cargo' = cargo /\ \A s : Held(s)' = Held(s)
  BY <1>1, <1>2, MainShape
<1>4. Loops'
  BY <1>2, <1>3 DEF IInv, Loops
<1>5. Ending'
  BY <1>2, <1>3 DEF IInv, Ending
<1>6. QED
  BY <1>3, <1>4, <1>5, LoopStays

LEMMA StoppedStays ==
    ASSUME IInv, Stopped
    PROVE  IInv'
<1>1. /\ UNCHANGED <<Points, worker, fate>> /\ UNCHANGED aggVars /\ hup' = hup
      /\ main.at = "join" /\ main' = [main EXCEPT !.at = "stopped"]
  BY DEF Stopped
<1>2. cancelled \subseteq DOMAIN loop
  BY StatesAre DEF IInv, Shape
<1>3. QED
  BY <1>1, <1>2, OthersAre, EndingStays

LEMMA CancelStays ==
    ASSUME IInv, Cancel
    PROVE  IInv'
<1>1. /\ UNCHANGED others /\ loop' = loop /\ started' = started /\ cancelled' = DOMAIN loop /\ hup' = hup
      /\ main.at = "stopped" /\ main' = [main EXCEPT !.at = "end"]
  BY DEF Cancel, others, placeVars
<1>2. QED
  BY <1>1, EndingStays

\* the loops of the new states start, with nothing on their way
LEMMA RestartStays ==
    ASSUME IInv, Restart
    PROVE  IInv'
<1>1. /\ UNCHANGED others /\ main' = main
      /\ hup.at = "restart" /\ hup' = [at |-> "idle"]
      /\ IF aggRules # <<>>
           THEN /\ started' = TRUE /\ loop' = [s \in DOMAIN loop |-> IF s \in ToSet(aggRules) THEN "wait" ELSE loop[s]]
                /\ cancelled' = IF main.at = "end" THEN DOMAIN loop ELSE cancelled
           ELSE started' = started /\ loop' = loop /\ cancelled' = cancelled
  BY SMTT(30), ZenonT(30) DEF Restart, others, placeVars
<1>2. /\ \A s \in DOMAIN loop : loop[s] \in {"wait", "off"} => cargo[s] = {}
      /\ \A s \in ToSet(aggRules) : loop[s] = "off"
      /\ main.at \in {"run", "stop"} => \A s \in ToSet(aggRules) : s \notin cancelled
      /\ ToSet(aggRules) \subseteq DOMAIN loop
  BY <1>1, StatesAre DEF IInv, Loops
<1>3. PICK n \in Nat : /\ states = [s \in 1..n |-> states[s]] /\ DOMAIN states = 1..n
                       /\ loop = [s \in 1..n |-> loop[s]] /\ DOMAIN loop = 1..n
                       /\ cargo = [s \in 1..n |-> cargo[s]]
  BY StatesAre
<1>4. /\ DOMAIN loop' = 1..n /\ loop' = [s \in 1..n |-> loop'[s]]
      /\ \A s \in 1..n : loop'[s] = loop[s] \/ (s \in ToSet(aggRules) /\ loop'[s] = "wait")
      /\ aggRules # <<>> => \A s \in ToSet(aggRules) : loop'[s] = "wait"
  BY <1>1, <1>2, <1>3
<1>5. /\ states' = states /\ cargo' = cargo /\ delivered' = delivered /\ aggRules' = aggRules /\ started' \in BOOLEAN
      /\ Points' = Points /\ worker' = worker /\ fate' = fate /\ outputFn' = outputFn /\ hup'.at = "idle" /\ "at" \in DOMAIN hup'
  BY ZenonT(30), <1>1 DEF others, placeVars, IInv, Shape
<1>6. cancelled' \subseteq DOMAIN states'
  <2>1. cancelled \subseteq DOMAIN states
    BY DEF IInv, Shape
  <2>2. QED
    BY SMTT(30), ZenonT(30), <1>1, <1>3, <1>5, <2>1
<1>7. Shape'
  <2>1. \E k \in Nat : /\ states' = [t \in 1..k |-> states'[t]]
                       /\ loop' = [t \in 1..k |-> loop'[t]]
                       /\ cargo' = [t \in 1..k |-> cargo'[t]]
    BY <1>3, <1>4, <1>5
  <2>2. \A s \in DOMAIN loop' : loop'[s] \in {"off", "wait", "emit", "last"}
    BY ZenonT(30), <1>3, <1>4 DEF IInv, Shape
  <2>3. QED
    BY SMTT(30), ZenonT(30), <1>1, <1>5, <1>6, <2>1, <2>2 DEF IInv, Shape
<1>8. \A s \in ToSet(aggRules) : loop'[s] = "wait"
  BY <1>4 DEF ToSet
<1>9. Loops'
  <2>1. \A s \in DOMAIN loop' : loop'[s] \in {"wait", "off"} => cargo'[s] = {}
    BY ZenonT(30), <1>2, <1>3, <1>4, <1>5
  <2>2. aggRules = <<>> \/ started'
    BY <1>1
  <2>3. main.at \in {"run", "stop"} => \A s \in ToSet(aggRules) : s \notin cancelled'
    BY <1>1, <1>2
  <2>4. QED
    BY <1>1, <1>5, <1>8, <2>1, <2>2, <2>3 DEF Loops
<1>10. Ending'
  BY SMTT(30), ZenonT(30), <1>1, <1>5, <1>8 DEF IInv, Ending
<1>11. QED
  BY <1>1, <1>7, <1>9, <1>10, LoopStays

\* the rule states a configuration starts with: one for each rule that aggregates, and nothing in them
LEMMA NewStatesAre ==
    ASSUME NEW f \in DOMAIN Config
    PROVE  \E k \in Nat : /\ NewStates(f) = [i \in 1..k |-> NewStates(f)[i]] /\ DOMAIN NewStates(f) = 1..k
                          /\ \A i \in 1..k : /\ DOMAIN NewStates(f)[i] = {"file", "index", "groups"}
                                             /\ NewStates(f)[i].file = f
                                             /\ Content(NewStates(f)[i]) = {}
<1> DEFINE A == {i \in DOMAIN Rules(f) : Rules(f)[i].action = "aggregate"}
           nth(n) == CHOOSE i \in A : Cardinality({j \in A : j <= i}) = n
<1>1. Cardinality(A) \in Nat
  BY RulesAssumption, FS_Subset, FS_CardinalityType
<1>2. NewStates(f) = [n \in 1..Cardinality(A) |-> [file |-> f, index |-> nth(n), groups |-> << >>]]
  BY SMTT(30), ZenonT(30) DEF NewStates
<1> HIDE DEF A, nth
<1>3. \A i \in 1..Cardinality(A) : /\ DOMAIN NewStates(f)[i] = {"file", "index", "groups"}
                                   /\ NewStates(f)[i].file = f /\ NewStates(f)[i].groups = << >>
  BY <1>2
<1>4. \A i \in 1..Cardinality(A) : Content(NewStates(f)[i]) = {}
  <2> SUFFICES ASSUME NEW i \in 1..Cardinality(A) PROVE Content(NewStates(f)[i]) = {}
    OBVIOUS
  <2>1. DOMAIN NewStates(f)[i].groups = {}
    BY <1>3
  <2>2. QED
    BY <2>1 DEF Content
<1>5. DOMAIN NewStates(f) = 1..Cardinality(A) /\ NewStates(f) = [i \in 1..Cardinality(A) |-> NewStates(f)[i]]
  BY <1>2
<1>6. QED
  BY SMTT(30), ZenonT(30), <1>1, <1>3, <1>4, <1>5

\* the new rule states come behind the old ones, which keep what they hold
LEMMA SwapStays ==
    ASSUME IInv, SwapStates
    PROVE  IInv'
<1> DEFINE f == hup.cfg
           new == NewStates(f)
           offs == [i \in DOMAIN new |-> "off"]
           nones == [i \in DOMAIN new |-> {}]
<1>1. /\ hup.at \in {"join", "swap"}
      /\ states' = states \o new
      /\ aggRules' = [i \in DOMAIN new |-> Len(states) + i]
      /\ loop' = loop \o offs
      /\ cargo' = cargo \o nones
      /\ staleness' = Config[f].staleness
      /\ hup' = [hup EXCEPT !.at = "restart"]
      /\ Points' = Points /\ started' = started /\ outputFn' = outputFn /\ worker' = worker
      /\ cancelled' = cancelled /\ main' = main /\ fate' = fate /\ delivered' = delivered
  BY SMTT(30), ZenonT(30) DEF SwapStates
<1>2. DOMAIN hup = {"at", "cfg"} /\ f \in DOMAIN Config
  BY <1>1 DEF IInv, Shape
<1>3. DOMAIN hup' = {"at", "cfg"} /\ hup'.at = "restart" /\ hup'.cfg = f
  BY <1>1, <1>2
<1>4. PICK n \in Nat : /\ states = [s \in 1..n |-> states[s]] /\ DOMAIN states = 1..n
                       /\ loop = [s \in 1..n |-> loop[s]] /\ DOMAIN loop = 1..n
                       /\ cargo = [s \in 1..n |-> cargo[s]] /\ DOMAIN cargo = 1..n
  BY StatesAre
<1> HIDE DEF f
<1>5. PICK k \in Nat : /\ new = [i \in 1..k |-> new[i]] /\ DOMAIN new = 1..k
                       /\ \A i \in 1..k : /\ DOMAIN new[i] = {"file", "index", "groups"}
                                          /\ new[i].file = f
                                          /\ Content(new[i]) = {}
  BY ZenonT(30), <1>2, NewStatesAre
<1>6. /\ offs = [i \in 1..k |-> offs[i]] /\ nones = [i \in 1..k |-> nones[i]]
      /\ \A i \in 1..k : offs[i] = "off" /\ nones[i] = {}
  BY <1>5
<1> HIDE DEF new, offs, nones
<1>7. /\ states' = [s \in 1..(n + k) |-> states'[s]] /\ DOMAIN states' = 1..(n + k) /\ Len(states) = n
      /\ \A s \in 1..n : states'[s] = states[s]
      /\ \A i \in 1..k : states'[n + i] = new[i]
  <2>1. states' = states \o new /\ states = [s \in 1..n |-> states[s]] /\ new = [i \in 1..k |-> new[i]]
    BY ZenonT(30), <1>1, <1>4, <1>5, Zenon
  <2>2. QED
    BY <2>1, JoinIs
<1>8. /\ loop' = [s \in 1..(n + k) |-> loop'[s]] /\ DOMAIN loop' = 1..(n + k)
      /\ \A s \in 1..n : loop'[s] = loop[s]
      /\ \A i \in 1..k : loop'[n + i] = "off"
  <2>1. /\ loop' = [s \in 1..(n + k) |-> loop'[s]] /\ DOMAIN loop' = 1..(n + k)
        /\ \A s \in 1..n : loop'[s] = loop[s]
        /\ \A i \in 1..k : loop'[n + i] = offs[i]
    <3>1. loop' = loop \o offs /\ loop = [s \in 1..n |-> loop[s]] /\ offs = [i \in 1..k |-> offs[i]]
      BY ZenonT(30), <1>1, <1>4, <1>6, Zenon
    <3>2. /\ loop \o offs = [s \in 1..(n + k) |-> (loop \o offs)[s]] /\ DOMAIN (loop \o offs) = 1..(n + k)
          /\ \A s \in 1..n : (loop \o offs)[s] = loop[s]
          /\ \A i \in 1..k : (loop \o offs)[n + i] = offs[i]
      BY SMTT(30), ZenonT(30), <3>1, JoinIs
    <3>3. QED
      BY <3>1, <3>2, Zenon
  <2>2. QED
    BY <1>1, <1>4, <1>6, <2>1
<1>9. /\ cargo' = [s \in 1..(n + k) |-> cargo'[s]] /\ DOMAIN cargo' = 1..(n + k)
      /\ \A s \in 1..n : cargo'[s] = cargo[s]
      /\ \A i \in 1..k : cargo'[n + i] = {}
  <2>1. /\ cargo' = [s \in 1..(n + k) |-> cargo'[s]] /\ DOMAIN cargo' = 1..(n + k)
        /\ \A s \in 1..n : cargo'[s] = cargo[s]
        /\ \A i \in 1..k : cargo'[n + i] = nones[i]
    <3>1. cargo' = cargo \o nones /\ cargo = [s \in 1..n |-> cargo[s]] /\ nones = [i \in 1..k |-> nones[i]]
      BY <1>1, <1>4, <1>6, Zenon
    <3>2. QED
      BY <3>1, JoinIs
  <2>2. QED
    BY <1>6, <2>1
<1>10. \A s \in 1..(n + k) : s \in 1..n \/ \E i \in 1..k : s = n + i
  <2> SUFFICES ASSUME NEW s \in 1..(n + k), s \notin 1..n PROVE s - n \in 1..k /\ s = n + (s - n)
    OBVIOUS
  <2> QED
    OBVIOUS
<1>11. \A s \in 1..(n + k) : \/ s \in 1..n /\ loop'[s] = loop[s] /\ cargo'[s] = cargo[s]
                             \/ s \notin 1..n /\ loop'[s] = "off" /\ cargo'[s] = {}
  <2>1. \A i \in 1..k : n + i \notin 1..n
    OBVIOUS
  <2>2. QED
    BY <1>8, <1>9, <1>10, <2>1, ZenonT(30)
<1>12. /\ \A s \in 1..n : Held(s)' = Held(s)
       /\ \A s \in 1..(n + k) : s \notin 1..n => Held(s)' = {}
  <2>1. \A s \in 1..n : Held(s)' = Held(s)
    BY <1>7, HeldIs, ZenonT(30)
  <2>2. \A i \in 1..k : Held(n + i)' = {}
    <3>1. SUFFICES ASSUME NEW i \in 1..k PROVE Held(n + i)' = {}
      OBVIOUS
    <3>2. Content(new[i]) = {} /\ states'[n + i] = new[i]
      BY <1>5, <1>7, Zenon
    <3>3. Held(n + i)' = Content(states'[n + i])
      BY HeldIs, Zenon
    <3>4. QED
      BY <3>2, <3>3, Zenon
  <2>3. QED
    BY <1>10, <2>1, <2>2, ZenonT(30)
<1>13. /\ DOMAIN aggRules' = 1..k /\ aggRules' \in [1..k -> 1..(n + k)]
       /\ \A i \in 1..k : aggRules'[i] = n + i
  BY <1>1, <1>5, <1>7
<1>14. Shape'
  <2>1. \A s \in DOMAIN states' : DOMAIN states'[s] = {"file", "index", "groups"}
    <3>1. \A s \in 1..n : DOMAIN states'[s] = {"file", "index", "groups"}
      BY <1>4, <1>7 DEF IInv, Shape
    <3>2. \A i \in 1..k : DOMAIN states'[n + i] = {"file", "index", "groups"}
      BY <1>5, <1>7
    <3>3. ASSUME NEW s \in 1..(n + k) PROVE DOMAIN states'[s] = {"file", "index", "groups"}
      <4>1. CASE s \in 1..n
        BY <3>1, <4>1
      <4>2. CASE \E i \in 1..k : s = n + i
        BY <3>2, <4>2, Zenon
      <4>3. QED
        BY <1>10, <4>1, <4>2
    <3>4. QED
      BY <1>7, <3>3
  <2>2. \E j \in Nat : /\ states' = [t \in 1..j |-> states'[t]]
                       /\ loop' = [t \in 1..j |-> loop'[t]]
                       /\ cargo' = [t \in 1..j |-> cargo'[t]]
    <3>1. n + k \in Nat
      OBVIOUS
    <3>2. QED
      BY ZenonT(30), <1>7, <1>8, <1>9, <3>1, Zenon
  <2>3. \A s \in DOMAIN loop' : loop'[s] \in {"off", "wait", "emit", "last"}
    BY ZenonT(30), <1>4, <1>8, <1>11 DEF IInv, Shape
  <2>4. \E j \in Nat : aggRules' \in [1..j -> DOMAIN states']
    BY <1>7, <1>13
  <2>5. hup'.at # "idle" => DOMAIN hup' = {"at", "cfg"} /\ hup'.cfg \in DOMAIN Config
    BY <1>2, <1>3
  <2>6. "at" \in DOMAIN hup' /\ hup'.at \in {"idle", "clear", "stop", "join", "swap", "restart"}
    BY <1>3
  <2>7. /\ Points' \in Streams
        /\ \E j \in Nat : DOMAIN fate' = 1..j
        /\ DOMAIN worker' = Workers
        /\ \A w \in Workers : DOMAIN worker'[w] = DOMAIN Idle /\ worker'[w].at \in Busy \cup {"idle", "next"}
        /\ started' \in BOOLEAN /\ outputFn' \in BOOLEAN
        /\ IsSequence(delivered')
        /\ DOMAIN main' = {"at", "late"} /\ main'.at \in {"run", "stop", "join", "stopped", "end"}
    BY <1>1 DEF IInv, Shape
  <2>8. cancelled' \subseteq DOMAIN states'
    <3>1. cancelled \subseteq 1..n /\ 1..n \subseteq 1..(n + k)
      BY <1>4 DEF IInv, Shape
    <3>2. QED
      BY SMTT(30), ZenonT(30), <1>1, <1>7, <3>1
  <2>9. QED
    BY ZenonT(30), <2>1, <2>2, <2>3, <2>4, <2>5, <2>6, <2>7, <2>8, Zenon DEF Shape
<1>15. Taken'
  <2>1. 1..n \subseteq 1..(n + k)
    BY SMTT(30), ZenonT(30)
  <2>2. QED
    BY <1>1, <1>4, <1>7, <2>1 DEF IInv, Taken
<1>16. Apart'
  <2>1. /\ \A s \in 1..n : \A id \in Held(s) : id \in DOMAIN fate /\ fate[id] # "in"
        /\ \A s \in 1..n : \A id \in cargo[s] : id \in DOMAIN fate /\ fate[id] # "in"
        /\ \A i \in DOMAIN delivered : \A id \in delivered[i] : id \in DOMAIN fate /\ fate[id] # "in"
    BY ZenonT(30), <1>4, Zenon DEF IInv, Apart
  <2>2. /\ \A s, t \in 1..n : s # t => Held(s) \cap Held(t) = {}
        /\ \A s, t \in 1..n : s # t => cargo[s] \cap cargo[t] = {}
        /\ \A i, j \in DOMAIN delivered : i # j => delivered[i] \cap delivered[j] = {}
        /\ \A s \in 1..n, t \in 1..n : Held(s) \cap cargo[t] = {}
        /\ \A s \in 1..n, i \in DOMAIN delivered : Held(s) \cap delivered[i] = {}
        /\ \A s \in 1..n, i \in DOMAIN delivered : cargo[s] \cap delivered[i] = {}
    BY <1>4 DEF IInv, Apart
  <2>3. /\ \A s \in 1..(n + k) : (s \in 1..n /\ Held(s)' = Held(s)) \/ Held(s)' = {}
        /\ \A s \in 1..(n + k) : (s \in 1..n /\ cargo'[s] = cargo[s]) \/ cargo'[s] = {}
    BY ZenonT(30), <1>11, <1>12, Zenon
  <2>4. /\ \A s \in 1..(n + k) : \A id \in Held(s)' : id \in DOMAIN fate /\ fate[id] # "in"
        /\ \A s \in 1..(n + k) : \A id \in cargo'[s] : id \in DOMAIN fate /\ fate[id] # "in"
    BY <2>1, <2>3
  <2>5. /\ \A s \in 1..(n + k), i \in DOMAIN delivered : Held(s)' \cap delivered[i] = {}
        /\ \A s \in 1..(n + k), i \in DOMAIN delivered : cargo'[s] \cap delivered[i] = {}
    BY <2>2, <2>3
  <2>6. \A s, t \in 1..(n + k) : s # t => Held(s)' \cap Held(t)' = {}
    BY <2>2, <2>3
  <2>7. \A s, t \in 1..(n + k) : s # t => cargo'[s] \cap cargo'[t] = {}
    BY <2>2, <2>3
  <2>8. \A s \in 1..(n + k), t \in 1..(n + k) : Held(s)' \cap cargo'[t] = {}
    BY <2>2, <2>3
  <2>9. QED
    <3>1. DOMAIN states' = 1..(n + k) /\ DOMAIN cargo' = 1..(n + k) /\ fate' = fate /\ delivered' = delivered
      BY <1>1, <1>7, <1>9
    <3>2. QED
      BY <2>1, <2>2, <2>4, <2>5, <2>6, <2>7, <2>8, <3>1, ZenonT(30) DEF Apart
<1>17. Current'
  <2> SUFFICES ASSUME NEW i \in 1..k
               PROVE  /\ states'[n + i].file \in DOMAIN Config
                      /\ staleness' = Config[states'[n + i].file].staleness
                      /\ \E st \in ToSet(NewStates(states'[n + i].file)) : st.index = states'[n + i].index
    <3>1. ToSet(aggRules') = {aggRules'[i] : i \in 1..k}
      BY ZenonT(30), <1>13, Zenon DEF ToSet
    <3>2. \A s \in ToSet(aggRules') : \E i \in 1..k : s = n + i
      BY ZenonT(30), <1>13, <3>1
    <3>3. QED
      BY <3>2, Zenon DEF Current
  <2>1. states'[n + i] = new[i] /\ new[i].file = f
    BY <1>5, <1>7
  <2>2. new[i] \in ToSet(new)
    BY <1>5 DEF ToSet
  <2>3. QED
    BY ZenonT(30), <1>1, <1>2, <2>1, <2>2 DEF new
<1>18. Kept'
  <2> SUFFICES ASSUME outputFn', FlushesInTime, NEW id \in DOMAIN fate', fate'[id] = "ingested" PROVE InPlace(id)'
    BY DEF Kept
  <2>1. InPlace(id)
    BY <1>1 DEF IInv, Kept
  <2>2. 1..n \subseteq 1..(n + k)
    OBVIOUS
  <2>3. (\E s \in DOMAIN states : id \in Held(s)) => \E s \in DOMAIN states' : id \in Held(s)'
    BY <1>4, <1>7, <1>12, <2>2
  <2>4. (\E s \in DOMAIN cargo : id \in cargo[s]) => \E s \in DOMAIN cargo' : id \in cargo'[s]
    BY SMTT(30), ZenonT(30), <1>4, <1>9, <2>2
  <2>5. QED
    BY SMTT(30), ZenonT(30), <1>1, <2>1, <2>3, <2>4 DEF InPlace
<1>19. \A s \in ToSet(aggRules') : s \in 1..(n + k) /\ s \notin 1..n /\ loop'[s] = "off"
  <2>1. \A s \in ToSet(aggRules') : \E i \in 1..k : s = n + i
    BY ZenonT(30), <1>13 DEF ToSet
  <2>2. \A i \in 1..k : n + i \in 1..(n + k) /\ n + i \notin 1..n
    OBVIOUS
  <2>3. QED
    BY ZenonT(30), <1>8, <2>1, <2>2, Zenon
<1>20. Loops'
  <2>1. \A s \in DOMAIN loop' : loop'[s] \in {"wait", "off"} => cargo'[s] = {}
    BY ZenonT(30), <1>4, <1>8, <1>11 DEF IInv, Loops
  <2>2. ~started
    BY <1>1 DEF IInv, Loops
  <2>3. \A s \in ToSet(aggRules') : s \notin cancelled
    BY <1>4, <1>19 DEF IInv, Shape
  <2>4. QED
    BY ZenonT(30), <1>1, <1>3, <1>19, <2>1, <2>2, <2>3 DEF Loops
<1>21. Ending'
  BY <1>1, <1>3 DEF IInv, Ending
<1>22. QED
  BY <1>14, <1>15, <1>16, <1>17, <1>18, <1>20, <1>21 DEF IInv

\* the initial states
LEMMA InitHolds == Init => IInv
<1> SUFFICES ASSUME Init PROVE IInv
  OBVIOUS
<1>1. /\ Points \in Streams /\ hup = [at |-> "idle"] /\ main = [at |-> "run", late |-> FALSE] /\ worker = [w \in Workers |-> Idle] /\ fate = << >> /\ delivered = << >>
  BY DEF Init
<1>2. PICK f \in DOMAIN Config : Start(f)
  BY DEF Init
<1> DEFINE new == NewStates(f)
<1>3. /\ staleness = Config[f].staleness /\ states = new
      /\ aggRules = [i \in DOMAIN new |-> i]
      /\ started = (new # <<>>) /\ outputFn = (new # <<>>)
      /\ loop = [i \in DOMAIN new |-> "wait"]
      /\ cargo = [i \in DOMAIN new |-> {}] /\ cancelled = {}
  BY <1>2 DEF Start
<1>4. PICK k \in Nat : /\ new = [i \in 1..k |-> new[i]] /\ DOMAIN new = 1..k
                       /\ \A i \in 1..k : /\ DOMAIN new[i] = {"file", "index", "groups"}
                                          /\ new[i].file = f
                                          /\ Content(new[i]) = {}
  BY SMTT(30), ZenonT(30), NewStatesAre
<1> HIDE DEF new
<1>5. \A s \in 1..k : Held(s) = {}
  BY ZenonT(30), <1>3, <1>4, HeldIs
<1>6. /\ DOMAIN fate = {} /\ DOMAIN delivered = {} /\ IsSequence(delivered)
      /\ DOMAIN hup = {"at"} /\ hup.at = "idle" /\ DOMAIN main = {"at", "late"} /\ main.at = "run"
  <2>1. IsSequence(<<>>)
    <3>1. << >> = [i \in 1..0 |-> << >>[i]]
      BY SMTT(30), ZenonT(30)
    <3>2. QED
      BY <3>1 DEF IsSequence
  <2>2. QED
    BY <1>1, <2>1
<1>7. \A w \in Workers : worker[w] = Idle /\ Idle.at = "idle" /\ "idle" \notin Busy
  BY <1>1 DEF Idle, Busy
<1>8. ToSet(aggRules) = 1..k /\ DOMAIN aggRules = 1..k
  BY <1>3, <1>4 DEF ToSet
<1>9. Shape
  <2>1. \E n \in Nat : DOMAIN fate = 1..n
    <3>1. 1..0 = {}
      OBVIOUS
    <3>2. QED
      BY <1>6, <3>1
  <2>2. \E n \in Nat : /\ states = [s \in 1..n |-> states[s]]
                       /\ loop = [s \in 1..n |-> loop[s]]
                       /\ cargo = [s \in 1..n |-> cargo[s]]
    BY <1>3, <1>4
  <2>3. \E n \in Nat : aggRules \in [1..n -> DOMAIN states]
    BY <1>3, <1>4
  <2>4. /\ \A s \in DOMAIN states : DOMAIN states[s] = {"file", "index", "groups"}
        /\ \A s \in DOMAIN loop : loop[s] \in {"off", "wait", "emit", "last"}
        /\ started \in BOOLEAN /\ outputFn \in BOOLEAN /\ cancelled \subseteq DOMAIN states
    BY <1>3, <1>4
  <2>5. DOMAIN worker = Workers
    BY <1>1
  <2>6. QED
    BY <1>1, <1>6, <1>7, <2>1, <2>2, <2>3, <2>4, <2>5 DEF Shape
<1>10. Taken
  <2>1. \A w \in Workers : worker[w].at \notin Busy /\ worker[w].at # "ingest"
    BY <1>7
  <2>2. QED
    BY <2>1 DEF Taken
<1>11. Apart
  BY SMTT(30), ZenonT(30), <1>3, <1>4, <1>5, <1>6 DEF Apart
<1>12. Current
  <2>1. \A s \in 1..k : states[s].file = f /\ states[s] \in ToSet(new)
    BY <1>3, <1>4 DEF ToSet
  <2>2. QED
    BY <1>3, <1>8, <2>1 DEF Current, new
<1>13. Kept
  BY <1>6 DEF Kept
<1>14. Loops
  <2>1. aggRules = <<>> \/ started
    <3>1. CASE new = <<>>
      BY <1>3, <3>1
    <3>2. CASE new # <<>>
      BY ZenonT(30), <1>3, <3>2
    <3>3. QED
      BY <3>1, <3>2
  <2>2. \A s \in DOMAIN loop : loop[s] = "wait" /\ cargo[s] = {}
    BY <1>3
  <2>3. DOMAIN loop = 1..k
    BY <1>3, <1>4
  <2>4. QED
    BY ZenonT(30), <1>3, <1>6, <1>8, <2>1, <2>2, <2>3 DEF Loops
<1>15. Ending
  BY <1>6 DEF Ending
<1>16. QED
  BY <1>9, <1>10, <1>11, <1>12, <1>13, <1>14, <1>15 DEF IInv

-----------------------------------------------------------------------------
(* The theorems *)

\* every step keeps the invariant
LEMMA NextHolds == IInv /\ [Next]_vars => IInv'
<1> SUFFICES ASSUME IInv, [Next]_vars PROVE IInv'
  OBVIOUS
<1>1. ASSUME NEW w \in Workers, Process(w) PROVE IInv'
  BY <1>1, TakeStays DEF Process
<1>2. ASSUME NEW w \in Workers, NextPoint(w) PROVE IInv'
  <2>1. worker[w].at = "next" /\ Take(w, worker[w].rules)
    BY <1>2 DEF NextPoint
  <2>2. QED
    BY <1>2, <2>1, TakeStays
<1>3. ASSUME NEW w \in Workers, Step(w) PROVE IInv'
  BY <1>3, WorkerStays
<1>4. ASSUME NEW s \in DOMAIN loop, Tick(s) PROVE IInv'
  BY <1>4, FlushStays DEF Tick
<1>5. ASSUME NEW s \in DOMAIN loop, FinalFlush(s) PROVE IInv'
  BY <1>5, FlushStays DEF FinalFlush
<1>6. ASSUME NEW s \in DOMAIN loop, Emit(s) PROVE IInv'
  BY <1>6, EmitStays
<1>7. ASSUME NEW s \in DOMAIN states, NEW key \in DOMAIN states[s].groups, CleanupStale(s, key) PROVE IInv'
  BY <1>7, CleanupStays
<1>8. ASSUME NEW f \in DOMAIN Files, Reload(f) PROVE IInv'
  BY <1>8, ReloadStays
<1>9. CASE UNCHANGED vars
  <2>1. UNCHANGED others /\ loop' = loop /\ started' = started /\ cancelled' = cancelled /\ hup' = hup /\ main' = main
    BY <1>9 DEF vars, others, placeVars
  <2>2. /\ started \in BOOLEAN /\ cancelled \subseteq DOMAIN loop
        /\ DOMAIN main = {"at", "late"} /\ main.at \in {"run", "stop", "join", "stopped", "end"}
    BY StatesAre DEF IInv, Shape
  <2>3. Shape' /\ worker' = worker /\ aggRules' = aggRules /\ cargo' = cargo /\ \A s : Held(s)' = Held(s)
    BY SMTT(30), ZenonT(30), <2>1, <2>2, MainShape
  <2>4. Loops'
    BY <2>1, <2>3 DEF IInv, Loops
  <2>5. Ending'
    BY <2>1, <2>3 DEF IInv, Ending
  <2>6. QED
    BY <2>1, <2>3, <2>4, <2>5, LoopStays
<1>10. QED
  BY ZenonT(30), <1>1, <1>2, <1>3, <1>4, <1>5, <1>6, <1>7, <1>8, <1>9, ClearCacheStays, ReloadStopStays, SwapStays, RestartStays,
     StopReceiversStays, StopAggregationStays, StoppedStays, CancelStays, Zenon DEF Next

\* a set with no two elements
LEMMA FewIs ==
    ASSUME NEW S, \A x, y \in S : x = y
    PROVE  /\ Cardinality(S) \in {0, 1}
           /\ S = {} <=> Cardinality(S) = 0
<1>1. CASE S = {}
  BY <1>1, FS_EmptySet
<1>2. CASE S # {}
  <2>1. PICK x \in S : TRUE
    BY <1>2
  <2>2. S = {x}
    BY <2>1
  <2>3. Cardinality(S) = 1
    BY <2>2, FS_Singleton
  <2>4. QED
    BY <1>2, <2>3
<1>3. QED
  BY <1>1, <1>2

\* Through any interleaving of the workers (Ingest), the flush loops
\* (flushRule, the callback behind it), the cleanup of stale groups, any number
\* of reloads and the shutdown, for every stream, every set of configurations,
\* workers and cache size: a datapoint that an aggregate rule took is in one
\* group, one batch on its way or one batch of the output, never in two, and is
\* never lost when no rule flushes less often than its groups go stale.
THEOREM AggregateOnceAlways == Spec => []AggregateOnce
<1>1. IInv => AggregateOnce
  <2> SUFFICES ASSUME IInv, NEW id \in DOMAIN fate, fate[id] = "ingested"
               PROVE  Places(id) <= 1 /\ (outputFn /\ FlushesInTime => Places(id) = 1)
    BY ZenonT(30), Zenon DEF AggregateOnce
  <2> DEFINE H == {s \in DOMAIN states : id \in Held(s)}
             C == {s \in DOMAIN cargo : id \in cargo[s]}
             D == {i \in DOMAIN delivered : id \in delivered[i]}
  <2>1. /\ \A x, y \in H : x = y
        /\ \A x, y \in C : x = y
        /\ \A x, y \in D : x = y
        /\ H = {} \/ C = {}
        /\ H = {} \/ D = {}
        /\ C = {} \/ D = {}
    BY DEF IInv, Apart
  <2>2. outputFn /\ FlushesInTime => H # {} \/ C # {} \/ D # {}
    BY DEF IInv, Kept, InPlace
  <2>3. Places(id) = Cardinality(H) + Cardinality(C) + Cardinality(D)
    BY Zenon DEF Places
  <2> HIDE DEF H, C, D
  <2>4. /\ Cardinality(H) \in {0, 1} /\ (H = {} <=> Cardinality(H) = 0)
        /\ Cardinality(C) \in {0, 1} /\ (C = {} <=> Cardinality(C) = 0)
        /\ Cardinality(D) \in {0, 1} /\ (D = {} <=> Cardinality(D) = 0)
    BY <2>1, FewIs
  <2>5. QED
    BY <2>1, <2>2, <2>3, <2>4
<1>2. QED
  BY <1>1, InitHolds, NextHolds, PTL DEF Spec

\* If the receivers stopped in time then, once StopAggregation has returned,
\* every datapoint that an aggregate rule took has been given to the callback,
\* except what a worker added to a rule state that a reload has replaced or is
\* about to replace, and what the loops of an overlapping reload, running or
\* about to be started, have still to flush.
THEOREM ShutdownDeliversAlways == Spec => []ShutdownDelivers
<1>1. IInv => ShutdownDelivers
  <2> SUFFICES ASSUME IInv, main.at \in {"stopped", "end"}, ~main.late, outputFn, FlushesInTime,
                      NEW id \in DOMAIN fate, fate[id] = "ingested", hup.at \notin {"join", "swap", "restart"}
               PROVE  \/ \E i \in DOMAIN delivered : id \in delivered[i]
                      \/ \E s \in DOMAIN states \ ToSet(aggRules) : id \in Held(s)
                      \/ \E s \in DOMAIN states : id \in Held(s) \cup cargo[s] /\ loop[s] # "off"
    BY Zenon DEF ShutdownDelivers
  <2>1. InPlace(id)
    BY DEF IInv, Kept
  <2>2. hup.at \in {"idle", "clear", "stop"}
    BY DEF IInv, Shape
  <2>3. \A s \in ToSet(aggRules) : loop[s] = "off" => Held(s) = {}
    BY <2>2 DEF IInv, Ending
  <2>4. \A s \in DOMAIN cargo : s \in DOMAIN states /\ (loop[s] = "off" => cargo[s] = {})
    BY StatesAre DEF IInv, Loops
  <2>5. QED
    BY <2>1, <2>3, <2>4 DEF InPlace
<1>2. QED
  BY <1>1, InitHolds, NextHolds, PTL DEF Spec

=============================================================================
