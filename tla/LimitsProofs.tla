----------------------------- MODULE LimitsProofs -----------------------------
(***************************************************************************)
(* Proofs about the limits enforcer.  One invariant says what a search for *)
(* a rule has seen and what the rule cache may hold, one follows the       *)
(* counters, and one the windows, where the point is that the series which *)
(* a check foresees are no fewer than the ones the addition counts.        *)
(***************************************************************************)
EXTENDS LimitsEnforcer, SumProofs, FiniteSetTheorems

-----------------------------------------------------------------------------
(* The calls and the cache *)

Positions == {p \in Nat \X Nat : p[1] \in DOMAIN Files /\ p[2] \in DOMAIN Files[p[1]]}

\* an entry of the rule cache is for a name that its rule covers
Entry == {e \in [name : STRING, rule : {None} \union Positions, clean : BOOLEAN] :
            e.rule # None => e.name \in Rule(e.rule).metrics}

\* Strings; a label that was taken off is named because a string literal is not
\* known to be one of STRING.
Label == STRING \union {""}

Metric == [name : STRING, env : STRING, points : Seq(Label)]

Fields == {"pc", "m", "rule", "i", "n", "why", "act", "counter", "nil", "steady", "clean"}

CallShape(c) ==
    /\ DOMAIN c = Fields
    /\ c.steady \in BOOLEAN
    /\ c.pc # "idle" => c.m \in Metric
    /\ c.pc = "record" => c.counter \in {"passed", "dropped"}
    /\ c.pc \in {"record", "return"} => c.nil = (c.counter = "dropped")
    /\ c.pc = "scan" => c.i \in Nat \ {0} /\ c.n \in Nat
    /\ c.pc \in {"put", "gate"} => /\ c.rule \in {None} \union Positions
                                   /\ c.rule # None => Matches(Rule(c.rule), c.m)
    /\ c.pc \in {"labels", "track", "violation", "act"} => c.rule \in Positions

LimitsShape ==
    /\ config \in DOMAIN Files
    /\ cache \in Seq(Entry)
    /\ DOMAIN call = Workers
    /\ \A w \in Workers : CallShape(call[w])

\* the call of w becomes c, and no other call changes
Became(w, c) == DOMAIN call' = Workers /\ call'[w] = c /\ \A x \in Workers \ {w} : call'[x] = call[x]

\* the call after a decision
Decided(c, what) ==
    [c EXCEPT !.pc = IF what.counter = "none" THEN "return" ELSE "record", !.counter = what.counter, !.nil = what.nil]

\* a decision changes the one call
LEMMA DecideIs ==
    ASSUME NEW w \in Workers, NEW what, LimitsShape, Decide(w, what)
    PROVE  Became(w, Decided(call[w], what))
<1> DEFINE d == Decided(call[w], what)
<1>1. call' = [call EXCEPT ![w] = d] /\ DOMAIN call = Workers
  BY DEF Decide, Decided, LimitsShape
<1> HIDE DEF d
<1>2. QED
  BY <1>1 DEF Became, d

\* so does going on
LEMMA GoIs ==
    ASSUME NEW w \in Workers, NEW pc, LimitsShape, Go(w, pc)
    PROVE  Became(w, [call[w] EXCEPT !.pc = pc])
  BY DEF LimitsShape, Go, Became

Decisions == {Passes, Drops, Through}

\* a call that has its metric is decided, and has counted nothing yet
LEMMA DecidedShape ==
    ASSUME NEW c, CallShape(c), c.pc # "idle", NEW what \in Decisions
    PROVE  CallShape(Decided(c, what)) /\ Decided(c, what).pc \in {"record", "return"} /\ ~Owes(Decided(c, what))
<1> DEFINE d == Decided(c, what)
<1>1. \/ what.counter = "passed" /\ what.nil = FALSE
      \/ what.counter = "dropped" /\ what.nil = TRUE
      \/ what.counter = "none" /\ what.nil = FALSE
  BY DEF Decisions, Passes, Drops, Through
<1>2. DOMAIN c = Fields /\ c.m \in Metric /\ c.steady \in BOOLEAN
  BY DEF CallShape
<1>3. /\ DOMAIN d = Fields /\ d.m = c.m /\ d.steady = c.steady /\ d.counter = what.counter /\ d.nil = what.nil
      /\ d.pc = IF what.counter = "none" THEN "return" ELSE "record"
  BY <1>2 DEF Decided, Fields
<1> HIDE DEF d
<1>4. CallShape(d) /\ d.pc \in {"record", "return"} /\ ~Owes(d)
  BY ZenonT(30), <1>1, <1>2, <1>3 DEF CallShape, Owes
<1>5. QED
  BY <1>4 DEF d

\* where the cache has a name
LEMMA CacheIndexIs ==
    ASSUME NEW S, NEW c \in Seq(S), NEW name
    PROVE  CacheIndex(c, name) \in 0..Len(c) /\ (CacheIndex(c, name) # 0 => c[CacheIndex(c, name)].name = name)
<1> DEFINE found == {i \in DOMAIN c : c[i].name = name}
<1>1. DOMAIN c = 1..Len(c) /\ Len(c) \in Nat /\ found \subseteq Nat
  OBVIOUS
<1>2. CacheIndex(c, name) = IF found = {} THEN 0 ELSE Min(found)
  BY DEF CacheIndex
<1>3. found # {} => Min(found) \in found
  <2> HIDE DEF found
  <2> QED BY <1>1, LeastOf, Zenon DEF Min
<1>4. QED
  BY <1>1, <1>2, <1>3

\* an entry that moves to the front keeps the cache one of such entries
LEMMA CachePutIs ==
    ASSUME NEW S, NEW c \in Seq(S), NEW e \in S
    PROVE  CachePut(c, e) \in Seq(S)
<1> DEFINE i == CacheIndex(c, e.name)
           rest == IF i = 0 THEN c ELSE SubSeq(c, 1, i - 1) \o SubSeq(c, i + 1, Len(c))
           most == Min({Len(rest), CacheSize - 1})
<1>1. i \in 0..Len(c) /\ Len(c) \in Nat
  BY CacheIndexIs
<1>2. rest \in Seq(S)
  <2>1. i = 0 => rest = c
    OBVIOUS
  <2>2. ASSUME i # 0 PROVE SubSeq(c, 1, i - 1) \in Seq(S) /\ SubSeq(c, i + 1, Len(c)) \in Seq(S)
    <3> HIDE DEF i
    <3> QED BY <1>1, <2>2, SubSeqProperties
  <2> HIDE DEF i
  <2>3. QED
    BY <2>1, <2>2, ConcatProperties
<1> HIDE DEF rest
<1>3. Len(rest) \in Nat /\ CacheSize - 1 \in Nat
  BY <1>2, LimitsAssumption
<1>4. most \in {Len(rest), CacheSize - 1} /\ most <= Len(rest)
  <2>1. {Len(rest), CacheSize - 1} \subseteq Nat /\ {Len(rest), CacheSize - 1} # {}
    BY <1>3
  <2>2. /\ Min({Len(rest), CacheSize - 1}) \in {Len(rest), CacheSize - 1}
        /\ \A y \in {Len(rest), CacheSize - 1} : Min({Len(rest), CacheSize - 1}) <= y
    BY <2>1, LeastOf, Zenon DEF Min
  <2>3. QED
    BY <2>2
<1>5. SubSeq(rest, 1, most) \in Seq(S)
  <2> HIDE DEF most
  <2> QED BY <1>2, <1>3, <1>4, SubSeqProperties
<1>6. <<e>> \in Seq(S)
  OBVIOUS
<1>7. CachePut(c, e) = <<e>> \o SubSeq(rest, 1, most)
  BY DEF CachePut, rest
<1>8. QED
  <2> HIDE DEF most
  <2> QED BY <1>5, <1>6, <1>7, ConcatProperties

\* sequences over a larger set
LEMMA SeqGrows ==
    ASSUME NEW S, NEW T, S \subseteq T
    PROVE  Seq(S) \subseteq Seq(T)
<1> SUFFICES ASSUME NEW s \in Seq(S) PROVE s \in Seq(T)
  OBVIOUS
<1>1. Len(s) \in Nat /\ s \in [1..Len(s) -> T]
  OBVIOUS
<1>2. QED
  BY <1>1

\* the metrics that callers hand in are metrics
LEMMA MetricsTyped == \A m \in Metrics : m \in Metric
<1> SUFFICES ASSUME NEW m \in Metrics PROVE m \in Metric
  OBVIOUS
<1>1. m \in [name : STRING, env : STRING, points : Seq(STRING)]
  BY LimitsAssumption
<1>2. STRING \subseteq Label
  BY Zenon DEF Label
<1>3. Seq(STRING) \subseteq Seq(Label)
  BY <1>2, SeqGrows, Zenon
<1>4. QED
  BY <1>1, <1>3 DEF Metric
-----------------------------------------------------------------------------
(* What the steps of a call do to it *)

\* the shape of one call
LEMMA ShapeOf ==
    ASSUME NEW w \in Workers, LimitsShape
    PROVE  CallShape(call[w]) /\ DOMAIN call[w] = Fields /\ DOMAIN call = Workers
  BY DEF LimitsShape, CallShape, Fields

\* a step that only tracks or decides
Past(w) == \E c : Became(w, c) /\ CallShape(c) /\ c.pc \notin {"scan", "put", "gate"} /\ ~Owes(c)

\* a decision ends the search
LEMMA PastDecided ==
    ASSUME NEW w \in Workers, NEW what \in Decisions, LimitsShape, call[w].pc # "idle", Decide(w, what)
    PROVE  Past(w)
<1> DEFINE d == Decided(call[w], what)
<1>1. Became(w, d)
  BY ZenonT(30), DecideIs
<1>2. CallShape(d) /\ d.pc \in {"record", "return"} /\ ~Owes(d)
  BY ZenonT(30), ShapeOf, DecidedShape
<1> HIDE DEF d
<1>3. QED
  BY <1>1, <1>2 DEF Past

\* so do the three decisions there are
LEMMA PastDecisions ==
    ASSUME NEW w \in Workers, LimitsShape, call[w].pc # "idle", Decide(w, Passes) \/ Decide(w, Drops) \/ Decide(w, Through)
    PROVE  Past(w)
<1>1. Passes \in Decisions /\ Drops \in Decisions /\ Through \in Decisions
  BY ZenonT(30) DEF Decisions
<1>2. QED
  BY ZenonT(30), <1>1, PastDecided

\* the gate decides or goes on to track (processMetric)
LEMMA GatePasses ==
    ASSUME NEW w \in Workers, LimitsShape, Gate(w)
    PROVE  Past(w)
<1> DEFINE r == Rule(call[w].rule)
<1>1. call[w].pc = "gate" /\ CallShape(call[w]) /\ DOMAIN call[w] = Fields
  BY ShapeOf DEF Gate, At
<1>2. CASE call[w].rule = None
  <2>1. Decide(w, Passes)
    BY <1>2 DEF Gate
  <2>2. QED
    BY <1>1, <2>1, PastDecisions
<1>3. CASE call[w].rule # None
  <2>1. \/ Decide(w, Drops)
        \/ Go(w, IF r.labelLimit < 0 THEN "track" ELSE "labels")
    BY <1>3 DEF Gate
  <2>2. CASE Decide(w, Drops)
    BY <1>1, <2>2, PastDecisions
  <2>3. ASSUME NEW pc \in {"track", "labels"}, Go(w, pc) PROVE Past(w)
    <3> DEFINE d == [call[w] EXCEPT !.pc = pc]
    <3>1. Became(w, d)
      BY <2>3, GoIs
    <3>2. /\ call[w].m \in Metric /\ call[w].rule \in Positions /\ call[w].steady \in BOOLEAN
      <4>1. call[w].rule \in {None} \union Positions /\ call[w].steady \in BOOLEAN /\ call[w].m \in Metric
        BY ZenonT(30), <1>1 DEF CallShape
      <4>2. QED
        BY <1>3, <4>1
    <3>3. DOMAIN d = Fields /\ d.pc = pc /\ d.m = call[w].m /\ d.rule = call[w].rule /\ d.steady = call[w].steady
      BY <1>1 DEF Fields
    <3> HIDE DEF d
    <3>4. d.pc \in {"track", "labels"}
      BY <3>3
    <3>5. CallShape(d) /\ ~Owes(d)
      BY <3>2, <3>3, <3>4 DEF CallShape, Owes
    <3>6. QED
      BY <3>1, <3>4, <3>5 DEF Past
  <2>4. QED
    BY <2>1, <2>2, <2>3
<1>4. QED
  BY <1>2, <1>3

\* a list of the same length without values
LEMMA Stripped ==
    ASSUME NEW s \in Seq(Label)
    PROVE  [i \in DOMAIN s |-> ""] \in Seq(Label) /\ Len([i \in DOMAIN s |-> ""]) = Len(s)
<1>1. DOMAIN s = 1..Len(s) /\ Len(s) \in Nat
  OBVIOUS
<1> DEFINE t == [i \in 1..Len(s) |-> ""]
<1>2. t \in [1..Len(s) -> Label]
  BY ZenonT(30) DEF Label
<1>3. t \in Seq(Label) /\ Len(t) = Len(s)
  <2> HIDE DEF t
  <2> QED BY <1>1, <1>2
<1>4. QED
  BY ZenonT(30), <1>1, <1>3

\* so does the check of the labels (checkLabelLimits)
LEMMA LabelsPass ==
    ASSUME NEW w \in Workers, LimitsShape, checkLabelLimits(w)
    PROVE  Past(w)
<1> DEFINE c == call[w]
           r == Rule(c.rule)
           seen == IF r.name \in DOMAIN seenLabels THEN seenLabels[r.name] ELSE {}
           after == Values(seen, c.m.points, r.labelLimit)
           points == IF after.over THEN [i \in DOMAIN c.m.points |-> ""] ELSE c.m.points
           d == [c EXCEPT !.pc = "track", !.m.points = IF after.over THEN [i \in DOMAIN @ |-> ""] ELSE @]
<1>1. c.pc = "labels" /\ CallShape(c) /\ DOMAIN c = Fields /\ DOMAIN call = Workers
  BY ShapeOf DEF checkLabelLimits, At
<1>2. c.m \in Metric /\ c.rule \in Positions
  BY <1>1 DEF CallShape
<1>3. points \in Seq(Label)
  <2>1. c.m.points \in Seq(Label)
    BY <1>2 DEF Metric
  <2> HIDE DEF after
  <2>2. QED
    BY ZenonT(30), <2>1, Stripped
<1>4. Decide(w, Drops) \/ call' = [call EXCEPT ![w] = d]
  BY DEF checkLabelLimits
<1>5. CASE Decide(w, Drops)
  BY <1>1, <1>5, PastDecisions
<1>6. CASE call' = [call EXCEPT ![w] = d]
  <2>1. d = [c EXCEPT !.pc = "track", !.m = [c.m EXCEPT !.points = points]]
    <3> HIDE DEF after
    <3> QED BY <1>1, <1>2 DEF Fields, Metric
  <2>2. [c.m EXCEPT !.points = points] \in Metric
    <3> HIDE DEF points
    <3> QED BY <1>2, <1>3 DEF Metric
  <2>3. CallShape([c EXCEPT !.pc = "track", !.m = [c.m EXCEPT !.points = points]])
    <3> HIDE DEF points, c
    <3> QED BY <1>1, <1>2, <2>2 DEF CallShape, Fields
  <2>4. Became(w, d) /\ d.pc = "track"
    <3>1. d.pc = "track"
      <4> HIDE DEF points
      <4> QED BY <1>1, <2>1 DEF Fields
    <3> HIDE DEF d
    <3> QED BY <1>1, <1>6, <3>1 DEF Became
  <2>5. CallShape(d)
    BY <2>1, <2>3
  <2> HIDE DEF d
  <2>6. QED
    BY <2>4, <2>5 DEF Past, Owes
<1>7. QED
  BY <1>4, <1>5, <1>6

\* without a switch of trackers, tracking ends in a decision or a violation
LEMMA TrackPasses ==
    ASSUME NEW w \in Workers, LimitsShape, updateAndCheckLimits(w)
    PROVE  Past(w)
<1>1. call[w].pc = "track" /\ CallShape(call[w]) /\ DOMAIN call[w] = Fields /\ DOMAIN call = Workers
  BY ZenonT(30), ShapeOf DEF updateAndCheckLimits, At
<1>2. \/ Go(w, "switch")
      \/ Decide(w, Passes)
      \/ \E y : call' = [call EXCEPT ![w] = [call[w] EXCEPT !.pc = "violation", !.why = y]]
  BY Zenon DEF updateAndCheckLimits
<1>3. CASE Go(w, "switch")
  <2>1. Became(w, [call[w] EXCEPT !.pc = "switch"])
    BY <1>3, GoIs
  <2>2. /\ CallShape([call[w] EXCEPT !.pc = "switch"]) /\ ~Owes([call[w] EXCEPT !.pc = "switch"])
        /\ [call[w] EXCEPT !.pc = "switch"].pc \notin {"scan", "put", "gate"}
    BY <1>1 DEF CallShape, Fields, Owes
  <2>3. QED
    BY ZenonT(30), <2>1, <2>2 DEF Past
<1>4. CASE Decide(w, Passes)
  BY <1>1, <1>4, PastDecisions
<1>5. ASSUME NEW y, call' = [call EXCEPT ![w] = [call[w] EXCEPT !.pc = "violation", !.why = y]]
      PROVE  Past(w)
  <2> DEFINE d == [call[w] EXCEPT !.pc = "violation", !.why = y]
  <2>1. CallShape(d) /\ d.pc = "violation"
    BY <1>1 DEF CallShape, Fields
  <2> HIDE DEF d
  <2>2. Became(w, d)
    BY <1>1, <1>5 DEF Became, d
  <2>3. QED
    BY <2>1, <2>2 DEF Past, Owes
<1>6. QED
  BY ZenonT(30), <1>2, <1>3, <1>4, <1>5

\* a violation leads to an action (handleViolation)
LEMMA ViolationPasses ==
    ASSUME NEW w \in Workers, LimitsShape, handleViolation(w)
    PROVE  Past(w)
<1>1. call[w].pc = "violation" /\ CallShape(call[w]) /\ DOMAIN call[w] = Fields /\ DOMAIN call = Workers
  BY ShapeOf DEF handleViolation, At
<1>2. PICK a : call' = [call EXCEPT ![w].pc = "act", ![w].act = a]
  BY Zenon DEF handleViolation
<1> DEFINE one == [call EXCEPT ![w].pc = "act"]
           d == [call[w] EXCEPT !.pc = "act", !.act = a]
<1>3. one[w] = [call[w] EXCEPT !.pc = "act"] /\ DOMAIN one = Workers /\ \A x \in Workers \ {w} : one[x] = call[x]
  BY <1>1
<1>4. call'[w] = [one[w] EXCEPT !.act = a] /\ DOMAIN call' = Workers /\ \A x \in Workers \ {w} : call'[x] = one[x]
  <2>1. call' = [one EXCEPT ![w].act = a]
    BY <1>2
  <2> HIDE DEF one
  <2>2. QED
    BY <1>3, <2>1
<1>5. Became(w, d)
  BY <1>3, <1>4 DEF Became
<1>6. CallShape(d) /\ d.pc = "act"
  BY <1>1 DEF CallShape, Fields
<1> HIDE DEF d
<1>7. QED
  BY <1>5, <1>6 DEF Past, Owes

\* an action decides (handleViolation)
LEMMA ActPasses ==
    ASSUME NEW w \in Workers, LimitsShape, Act(w)
    PROVE  Past(w)
<1>1. call[w].pc = "act"
  BY DEF Act, At
<1>2. \E what \in Decisions : Decide(w, what)
  <2> DEFINE a == call[w].act
             kept == call[w].m.points # <<>> /\ call[w].m.points[1] \in Kept
             x == CASE a \in {"log", "strip_labels"} \/ (a = "sample" /\ kept) -> Passes
                    [] a = "drop" \/ (a = "sample" /\ ~kept) -> Drops
                    [] OTHER -> Through
  <2>1. Decide(w, x)
    BY DEF Act
  <2>2. x \in Decisions
    <3> HIDE DEF a, kept
    <3> QED BY DEF Decisions
  <2> HIDE DEF x
  <2>3. QED
    BY <2>1, <2>2
<1>3. QED
  BY <1>1, <1>2, PastDecided

\* so does the adaptive one (handleAdaptive)
LEMMA AdaptivePasses ==
    ASSUME NEW w \in Workers, LimitsShape, handleAdaptive(w)
    PROVE  Past(w)
<1>1. call[w].pc = "act"
  BY DEF handleAdaptive, At
<1>2. Decide(w, Through) \/ Decide(w, Drops) \/ Decide(w, Passes)
  BY Zenon DEF handleAdaptive
<1>3. QED
  BY SMTT(30), ZenonT(30), <1>1, <1>2, PastDecisions

\* a worker between two calls
LEMMA IdleShape == CallShape(Idle) /\ Idle.pc = "idle" /\ Idle.steady = TRUE
  BY DEF Idle, CallShape, Fields

\* a call that returns is over
LEMMA ReturnPasses ==
    ASSUME NEW w \in Workers, LimitsShape, Return(w)
    PROVE  Became(w, Idle) /\ Past(w)
<1>1. call' = [call EXCEPT ![w] = Idle]
  BY DEF Return
<1>2. Became(w, Idle)
  BY <1>1 DEF Became, LimitsShape
<1>3. QED
  BY <1>2, IdleShape DEF Past, Owes

\* a call that has counted is about to return
LEMMA RecordIs ==
    ASSUME NEW w \in Workers, LimitsShape, Record(w)
    PROVE  LET d == [call[w] EXCEPT !.pc = "return"]
           IN  Became(w, d) /\ CallShape(d) /\ d.pc = "return" /\ d.m = call[w].m /\ d.counter = call[w].counter
<1>1. call[w].pc = "record" /\ CallShape(call[w]) /\ DOMAIN call[w] = Fields
  BY ShapeOf DEF Record, At
<1>2. Became(w, [call[w] EXCEPT !.pc = "return"])
  BY GoIs DEF Record
<1>3. QED
  BY <1>1, <1>2 DEF CallShape, Fields

-----------------------------------------------------------------------------
(* The first rule that matches *)

IsFirst(f, m, rule) ==
    \/ rule = None /\ \A i \in DOMAIN Files[f] : ~Matches(Files[f][i], m)
    \/ \E i \in DOMAIN Files[f] :
         rule = <<f, i>> /\ Matches(Files[f][i], m) /\ \A j \in 1..i - 1 : ~Matches(Files[f][j], m)

\* what the name of a metric decides without its labels
ByName(f, name, rule) ==
    \/ rule = None /\ \A i \in DOMAIN Files[f] : ~HasLabelMatchers(Files[f][i]) /\ name \notin Files[f][i].metrics
    \/ \E i \in DOMAIN Files[f] :
         /\ rule = <<f, i>> /\ ~HasLabelMatchers(Files[f][i]) /\ name \in Files[f][i].metrics
         /\ \A j \in 1..i - 1 : name \in Files[f][j].metrics => HasLabelMatchers(Files[f][j])

Remembered == {e \in Entry : e.clean => ByName(config, e.name, e.rule)}

CallFinds(c) ==
    /\ (c.pc = "scan" /\ c.steady) => /\ c.n = Len(Files[config]) /\ c.i \in 1..c.n + 1
                                      /\ \A j \in 1..c.i - 1 : ~Matches(Files[config][j], c.m)
    /\ (c.pc = "put" /\ c.steady) => IsFirst(config, c.m, c.rule)
    /\ (c.pc = "gate" /\ c.steady /\ c.clean /\ Orderly(config, c.m)) => IsFirst(config, c.m, c.rule)

\* The clean entries of the cache are what names alone decide in the file in force,
\* and a search that no reload has overtaken has skipped no rule.
MatchInv == cache \in Seq(Remembered) /\ \A w \in Workers : CallFinds(call[w])

\* a file is a list of rules
LEMMA FileIs ==
    ASSUME NEW f \in DOMAIN Files
    PROVE  f \in Nat \ {0} /\ Len(Files[f]) \in Nat /\ DOMAIN Files[f] = 1..Len(Files[f])
  BY LimitsAssumption DEF IsList

\* there is one first rule
LEMMA FirstRuleIs ==
    ASSUME NEW f \in DOMAIN Files, NEW m, NEW rule, IsFirst(f, m, rule)
    PROVE  rule = FirstRule(f, m)
<1> DEFINE S == {i \in DOMAIN Files[f] : Matches(Files[f][i], m)}
<1>1. FirstRule(f, m) = IF S = {} THEN None ELSE <<f, Min(S)>>
  BY DEF FirstRule
<1>2. S \subseteq Nat /\ DOMAIN Files[f] = 1..Len(Files[f]) /\ Len(Files[f]) \in Nat
  BY FileIs
<1>3. CASE rule = None /\ \A i \in DOMAIN Files[f] : ~Matches(Files[f][i], m)
  BY <1>1, <1>3
<1>4. ASSUME NEW i \in DOMAIN Files[f], rule = <<f, i>>, Matches(Files[f][i], m),
             \A j \in 1..i - 1 : ~Matches(Files[f][j], m)
      PROVE  rule = FirstRule(f, m)
  <2>1. i \in S /\ \A j \in S : i <= j
    BY <1>2, <1>4
  <2> HIDE DEF S
  <2>2. Min(S) \in S /\ \A y \in S : Min(S) <= y
    BY <1>2, <2>1, LeastOf, Zenon DEF Min
  <2>3. Min(S) = i
    <3>1. Min(S) \in Nat /\ i \in Nat /\ Min(S) <= i /\ i <= Min(S)
      BY <1>2, <2>1, <2>2, Zenon
    <3>2. QED
      BY <3>1
  <2>4. QED
    BY <1>1, <1>4, <2>1, <2>3
<1>5. QED
  BY <1>3, <1>4 DEF IsFirst

\* in an orderly file the name decides for every metric of that name
LEMMA NameIsFirst ==
    ASSUME NEW f \in DOMAIN Files, NEW m, NEW rule, ByName(f, m.name, rule), Orderly(f, m)
    PROVE  IsFirst(f, m, rule)
<1>1. DOMAIN Files[f] = 1..Len(Files[f]) /\ Len(Files[f]) \in Nat
  BY FileIs
<1>2. CASE rule = None /\ \A i \in DOMAIN Files[f] : ~HasLabelMatchers(Files[f][i]) /\ m.name \notin Files[f][i].metrics
  BY <1>2 DEF IsFirst, Matches
<1>3. ASSUME NEW i \in DOMAIN Files[f], rule = <<f, i>>, ~HasLabelMatchers(Files[f][i]), m.name \in Files[f][i].metrics,
             \A j \in 1..i - 1 : m.name \in Files[f][j].metrics => HasLabelMatchers(Files[f][j])
      PROVE  IsFirst(f, m, rule)
  <2>1. Matches(Files[f][i], m)
    BY ZenonT(30), <1>3 DEF Matches, MatchesLabels, HasLabelMatchers
  <2>2. ASSUME NEW j \in 1..i - 1 PROVE m.name \notin Files[f][j].metrics
    <3>1. j \in DOMAIN Files[f] /\ j < i
      BY <1>1, <1>3
    <3>2. QED
      BY <1>3, <2>2, <3>1 DEF Orderly
  <2>3. QED
    BY <1>3, <2>1, <2>2 DEF IsFirst, Matches
<1>4. QED
  BY <1>2, <1>3 DEF ByName

\* what Remember puts in the cache depends on the name alone
LEMMA FirstIsName ==
    ASSUME NEW f \in DOMAIN Files, NEW m, NEW rule, IsFirst(f, m, rule),
           IF rule = None THEN ~HasAnyLabelMatchers(f) ELSE ~HasLabelMatchers(Rule(rule))
    PROVE  ByName(f, m.name, rule)
<1>1. DOMAIN Files[f] = 1..Len(Files[f]) /\ Len(Files[f]) \in Nat /\ f # 0 /\ f \in Nat
  BY FileIs
<1>2. CASE rule = None /\ \A i \in DOMAIN Files[f] : ~Matches(Files[f][i], m)
  BY ZenonT(30), <1>2 DEF ByName, HasAnyLabelMatchers, HasLabelMatchers, Matches, MatchesLabels
<1>3. ASSUME NEW i \in DOMAIN Files[f], rule = <<f, i>>, Matches(Files[f][i], m),
             \A j \in 1..i - 1 : ~Matches(Files[f][j], m)
      PROVE  ByName(f, m.name, rule)
  <2>1. rule # None /\ Rule(rule) = Files[f][i]
    BY <1>1, <1>3 DEF None, Rule
  <2>2. ~HasLabelMatchers(Files[f][i]) /\ m.name \in Files[f][i].metrics
    BY <1>3, <2>1 DEF Matches
  <2>3. \A j \in 1..i - 1 : m.name \in Files[f][j].metrics => HasLabelMatchers(Files[f][j])
    BY ZenonT(30), <1>3 DEF Matches, MatchesLabels, HasLabelMatchers
  <2>4. QED
    BY <1>3, <2>2, <2>3 DEF ByName
<1>4. QED
  BY <1>2, <1>3 DEF IsFirst

\* the position that a search reports is one of the file
LEMMA FirstInFile ==
    ASSUME NEW f \in DOMAIN Files, NEW i \in DOMAIN Files[f]
    PROVE  <<f, i>> \in Positions /\ <<f, i>> # None
  BY FileIs DEF Positions, None

-----------------------------------------------------------------------------
(* The steps of the search *)

\* one call changes and the others see the same file
LEMMA OneFinds ==
    ASSUME NEW w \in Workers, NEW c, LimitsShape, MatchInv, Became(w, c), CallShape(c), UNCHANGED config,
           cache' \in Seq(Entry), cache' \in Seq(Remembered), CallFinds(c)
    PROVE  LimitsShape' /\ MatchInv'
<1>1. LimitsShape'
  BY DEF LimitsShape, Became
<1>2. Remembered' = Remembered
  BY DEF Remembered
<1>3. ASSUME NEW x \in Workers, CallFinds(call'[x]) PROVE CallFinds(call[x])'
  BY <1>3 DEF CallFinds
<1>4. MatchInv'
  <2> SUFFICES \A x \in Workers : CallFinds(call[x])'
    BY <1>2 DEF MatchInv
  <2>1. \A x \in Workers : CallFinds(call'[x])
    BY DEF MatchInv, Became
  <2>2. QED
    BY <1>3, <2>1
<1>5. QED
  BY <1>1, <1>4

\* a step after the search leaves the cache and the other searches alone
LEMMA PastFinds ==
    ASSUME NEW w \in Workers, LimitsShape, MatchInv, Past(w), UNCHANGED <<config, cache>>
    PROVE  LimitsShape' /\ MatchInv'
<1>1. PICK c : Became(w, c) /\ CallShape(c) /\ c.pc \notin {"scan", "put", "gate"}
  BY DEF Past
<1>2. CallFinds(c)
  BY <1>1 DEF CallFinds
<1>3. cache' \in Seq(Entry) /\ cache' \in Seq(Remembered)
  BY DEF LimitsShape, MatchInv
<1>4. QED
  BY <1>1, <1>2, <1>3, OneFinds

\* a call starts from a valid entry of the cache or at the head of the list
LEMMA ProcessFinds ==
    ASSUME NEW w \in Workers, LimitsShape, MatchInv, Process(w)
    PROVE  LimitsShape' /\ MatchInv'
<1>1. PICK m \in Metrics :
        LET i == CacheIndex(cache, m.name)
            hit == i # 0 /\ (cache[i].rule = None \/ MatchesLabels(Rule(cache[i].rule), m))
            c == [Idle EXCEPT !.m = m]
        IN /\ cache' = IF i = 0 THEN cache ELSE CachePut(cache, cache[i])
           /\ call' = [call EXCEPT ![w] = IF hit THEN [c EXCEPT !.pc = "gate", !.rule = cache[i].rule, !.clean = cache[i].clean]
                                          ELSE [c EXCEPT !.pc = "scan", !.i = 1, !.n = Len(Files[config])]]
  BY Zenon DEF Process
<1> DEFINE i == CacheIndex(cache, m.name)
           hit == i # 0 /\ (cache[i].rule = None \/ MatchesLabels(Rule(cache[i].rule), m))
           found == [[Idle EXCEPT !.m = m] EXCEPT !.pc = "gate", !.rule = cache[i].rule, !.clean = cache[i].clean]
           begun == [[Idle EXCEPT !.m = m] EXCEPT !.pc = "scan", !.i = 1, !.n = Len(Files[config])]
           c == IF hit THEN found ELSE begun
<1>2. /\ cache' = IF i = 0 THEN cache ELSE CachePut(cache, cache[i])
      /\ call' = [call EXCEPT ![w] = c]
  BY <1>1
<1>3. UNCHANGED config
  BY DEF Process, limitsCommon
<1>4. m \in Metric /\ config \in DOMAIN Files /\ Len(Files[config]) \in Nat /\ cache \in Seq(Entry)
  <2>1. config \in DOMAIN Files /\ cache \in Seq(Entry)
    BY DEF LimitsShape
  <2>2. Len(Files[config]) \in Nat
    BY <2>1, FileIs
  <2>3. QED
    BY <2>1, <2>2, MetricsTyped
<1>5. i \in 0..Len(cache) /\ (i # 0 => cache[i].name = m.name)
  BY <1>4, CacheIndexIs
<1> HIDE DEF i
<1>6. i # 0 => i \in 1..Len(cache) /\ cache[i] \in Entry /\ cache[i].name = m.name
  BY <1>4, <1>5
<1>7. cache' \in Seq(Entry)
  <2>1. CASE i = 0
    BY <1>2, <1>4, <2>1
  <2>2. CASE i # 0
    BY ZenonT(30), <1>2, <1>4, <1>6, <2>2, CachePutIs
  <2>3. QED
    BY <2>1, <2>2
<1>8. Became(w, c)
  <2> HIDE DEF c
  <2> QED BY <1>2 DEF Became, LimitsShape
<1>9. CASE hit
  <2>1. c = found /\ i # 0
    BY <1>9
  <2> HIDE DEF hit
  <2>2. /\ DOMAIN found = Fields /\ found.steady = TRUE
        /\ found.pc = "gate" /\ found.m = m /\ found.rule = cache[i].rule /\ found.clean = cache[i].clean
    BY DEF Idle, Fields
  <2>0. cache[i].rule = None \/ MatchesLabels(Rule(cache[i].rule), m)
    BY <1>9 DEF hit
  <2>3. CallShape(found)
    <3>1. cache[i].rule \in {None} \union Positions /\ (cache[i].rule # None => Matches(Rule(cache[i].rule), m))
      BY <1>6, <2>0, <2>1 DEF Entry, Matches
    <3> HIDE DEF found
    <3> QED BY ZenonT(30), <1>4, <2>2, <3>1 DEF CallShape
  <2>4. cache' \in Seq(Remembered) /\ CallFinds(found)
    <3>1. cache \in Seq(Remembered) /\ cache[i] \in Remembered
      <4>1. cache \in Seq(Remembered)
        BY DEF MatchInv
      <4>2. QED
        BY <1>6, <2>1, <4>1
    <3>2. cache[i].clean => ByName(config, m.name, cache[i].rule)
      BY <1>6, <2>1, <3>1 DEF Remembered
    <3>3. cache' \in Seq(Remembered)
      BY <1>2, <2>1, <3>1, CachePutIs
    <3>4. (cache[i].clean /\ Orderly(config, m)) => IsFirst(config, m, cache[i].rule)
      BY <1>4, <3>2, NameIsFirst
    <3>5. CallFinds(found)
      <4> HIDE DEF found
      <4> QED BY <2>2, <3>4 DEF CallFinds
    <3>6. QED
      BY <3>3, <3>5
  <2> HIDE DEF found, begun, c
  <2>5. QED
    BY <1>3, <1>7, <1>8, <2>1, <2>3, <2>4, OneFinds
<1>10. CASE ~hit
  <2>1. c = begun
    BY <1>10
  <2> HIDE DEF hit
  <2>2. /\ DOMAIN begun = Fields /\ begun.steady = TRUE
        /\ begun.pc = "scan" /\ begun.m = m /\ begun.i = 1 /\ begun.n = Len(Files[config])
    BY DEF Idle, Fields
  <2>3. CallShape(begun) /\ CallFinds(begun)
    <3> HIDE DEF begun
    <3>1. begun.i \in Nat \ {0} /\ begun.n \in Nat
      BY <1>4, <2>2
    <3>2. CallShape(begun)
      BY ZenonT(30), <1>4, <2>2, <3>1 DEF CallShape
    <3>3. CallFinds(begun)
      BY <1>4, <2>2 DEF CallFinds
    <3>4. QED
      BY <3>2, <3>3
  <2>4. cache' \in Seq(Remembered)
    <3>1. cache \in Seq(Remembered)
      BY DEF MatchInv
    <3>2. CASE i = 0
      BY <1>2, <3>1, <3>2
    <3>3. CASE i # 0
      <4>1. cache[i] \in Remembered
        BY <1>6, <3>1, <3>3
      <4>2. QED
        BY ZenonT(30), <1>2, <1>6, <3>1, <3>3, <4>1, CachePutIs
    <3>4. QED
      BY <3>2, <3>3
  <2> HIDE DEF found, begun, c
  <2>5. QED
    BY <1>3, <1>7, <1>8, <2>1, <2>3, <2>4, OneFinds
<1>11. QED
  BY <1>9, <1>10

\* a round of the loop skips no rule that matches
LEMMA ScanFinds ==
    ASSUME NEW w \in Workers, LimitsShape, MatchInv, Scan(w)
    PROVE  LimitsShape' /\ MatchInv'
<1> DEFINE c == call[w]
           rules == Files[config]
           next == CASE c.i > c.n -> [c EXCEPT !.pc = "put", !.rule = None]
                     [] c.i <= c.n /\ c.i > Len(rules) -> [c EXCEPT !.pc = "panic"]
                     [] c.i <= c.n /\ c.i <= Len(rules) ->
                           IF Matches(rules[c.i], c.m) THEN [c EXCEPT !.pc = "put", !.rule = <<config, c.i>>]
                           ELSE [c EXCEPT !.i = @ + 1]
<1>0. call' = [call EXCEPT ![w] = next]
  BY Zenon DEF Scan
<1>1. c.pc = "scan" /\ CallShape(c) /\ DOMAIN c = Fields /\ DOMAIN call = Workers
  BY ShapeOf DEF Scan, At
<1>2. c.m \in Metric /\ c.i \in Nat \ {0} /\ c.n \in Nat /\ c.steady \in BOOLEAN
  BY <1>1 DEF CallShape
<1>3. UNCHANGED <<config, cache>>
  BY DEF Scan, limitsCommon
<1>4. cache' \in Seq(Entry) /\ cache' \in Seq(Remembered)
  BY <1>3 DEF LimitsShape, MatchInv
<1>5. config \in DOMAIN Files /\ config \in Nat /\ Len(rules) \in Nat /\ DOMAIN rules = 1..Len(rules)
  BY FileIs DEF LimitsShape
<1>6. c.steady => /\ c.n = Len(rules) /\ c.i \in 1..c.n + 1
                  /\ \A j \in 1..c.i - 1 : ~Matches(rules[j], c.m)
  BY <1>1 DEF MatchInv, CallFinds
<1>7. ASSUME NEW d, call' = [call EXCEPT ![w] = d], CallShape(d), CallFinds(d)
      PROVE  LimitsShape' /\ MatchInv'
  <2>1. Became(w, d)
    BY <1>1, <1>7 DEF Became
  <2>2. QED
    BY <1>3, <1>4, <1>7, <2>1, OneFinds
<1>8. CASE c.i > c.n
  <2> DEFINE d == [c EXCEPT !.pc = "put", !.rule = None]
  <2>1. call' = [call EXCEPT ![w] = d]
    <3>1. next = d
      BY <1>2, <1>8
    <3>2. QED
      BY <1>0, <3>1, Zenon
  <2>2. d.pc = "put" /\ d.rule = None /\ d.m = c.m /\ d.steady = c.steady /\ DOMAIN d = Fields
    BY <1>1 DEF Fields
  <2> HIDE DEF d
  <2>3. CallShape(d)
    BY <1>2, <2>2 DEF CallShape, Fields
  <2>4. CallFinds(d)
    <3>1. c.steady => \A j \in DOMAIN rules : ~Matches(rules[j], c.m)
      BY <1>2, <1>5, <1>6, <1>8
    <3>2. c.steady => IsFirst(config, d.m, d.rule)
      BY <2>2, <3>1 DEF IsFirst
    <3>3. QED
      BY <2>2, <3>2 DEF CallFinds
  <2>5. QED
    BY ZenonT(30), <1>7, <2>1, <2>3, <2>4
<1>9. CASE c.i <= c.n /\ c.i > Len(rules)
  <2> DEFINE d == [c EXCEPT !.pc = "panic"]
  <2>1. call' = [call EXCEPT ![w] = d]
    <3>1. next = d
      BY <1>2, <1>5, <1>9
    <3>2. QED
      BY <1>0, <3>1, Zenon
  <2>2. d.pc = "panic" /\ d.m = c.m /\ d.steady = c.steady /\ DOMAIN d = Fields
    BY <1>1 DEF Fields
  <2> HIDE DEF d
  <2>3. CallShape(d) /\ CallFinds(d)
    BY <1>2, <2>2 DEF CallShape, Fields, CallFinds
  <2>4. QED
    BY ZenonT(30), <1>7, <2>1, <2>3
<1>10. CASE c.i <= c.n /\ c.i <= Len(rules) /\ Matches(rules[c.i], c.m)
  <2> DEFINE d == [c EXCEPT !.pc = "put", !.rule = <<config, c.i>>]
  <2>1. call' = [call EXCEPT ![w] = d]
    <3>1. next = d
      BY <1>2, <1>5, <1>10
    <3>2. QED
      BY <1>0, <3>1, Zenon
  <2>2. d.pc = "put" /\ d.rule = <<config, c.i>> /\ d.m = c.m /\ d.steady = c.steady /\ DOMAIN d = Fields
    BY <1>1 DEF Fields
  <2> HIDE DEF d
  <2>3. c.i \in DOMAIN rules /\ <<config, c.i>> \in Positions
    BY <1>2, <1>5, <1>10, FirstInFile
  <2>4. CallShape(d)
    <3>1. Rule(<<config, c.i>>) = rules[c.i]
      BY DEF Rule
    <3>2. QED
      BY <1>2, <1>10, <2>2, <2>3, <3>1 DEF CallShape
  <2>5. CallFinds(d)
    <3>1. c.steady => IsFirst(config, d.m, d.rule)
      BY <1>6, <1>10, <2>2, <2>3 DEF IsFirst
    <3>2. QED
      BY <2>2, <3>1 DEF CallFinds
  <2>6. QED
    BY ZenonT(30), <1>7, <2>1, <2>4, <2>5
<1>11. CASE c.i <= c.n /\ c.i <= Len(rules) /\ ~Matches(rules[c.i], c.m)
  <2> DEFINE d == [c EXCEPT !.i = c.i + 1]
  <2>1. call' = [call EXCEPT ![w] = d]
    <3>1. next = d
      BY <1>2, <1>5, <1>11
    <3>2. QED
      BY <1>0, <3>1, Zenon
  <2>2. d.pc = "scan" /\ d.i = c.i + 1 /\ d.n = c.n /\ d.m = c.m /\ d.steady = c.steady /\ DOMAIN d = Fields
    BY <1>1 DEF Fields
  <2> HIDE DEF d
  <2>3. CallShape(d)
    BY <1>2, <2>2 DEF CallShape, Fields
  <2>4. CallFinds(d)
    <3>1. d.i \in 1..d.n + 1
      BY <1>2, <1>11, <2>2
    <3>2. ASSUME c.steady, NEW j \in 1..d.i - 1 PROVE ~Matches(rules[j], d.m)
      <4>1. j \in 1..c.i - 1 \/ j = c.i
        BY <1>2, <2>2
      <4>2. QED
        BY <1>6, <1>11, <2>2, <3>2, <4>1
    <3>3. QED
      BY <1>6, <2>2, <3>1, <3>2 DEF CallFinds
  <2>5. QED
    BY ZenonT(30), <1>7, <2>1, <2>3, <2>4
<1>12. QED
  BY <1>2, <1>5, <1>8, <1>9, <1>10, <1>11

\* what is put in the cache is valid for the file
LEMMA RememberFinds ==
    ASSUME NEW w \in Workers, LimitsShape, MatchInv, Remember(w)
    PROVE  LimitsShape' /\ MatchInv'
<1> DEFINE c == call[w]
           d == [c EXCEPT !.pc = "gate"]
           entry == Found(c)
           byName == IF c.rule = None THEN ~HasAnyLabelMatchers(config) ELSE ~HasLabelMatchers(Rule(c.rule))
<1>1. c.pc = "put" /\ CallShape(c) /\ DOMAIN c = Fields /\ DOMAIN call = Workers
  BY ShapeOf DEF Remember, At
<1>2. /\ c.m \in Metric /\ c.rule \in {None} \union Positions /\ c.steady \in BOOLEAN
      /\ c.rule # None => Matches(Rule(c.rule), c.m)
  BY ZenonT(30), <1>1 DEF CallShape
<1>3. UNCHANGED config /\ config \in DOMAIN Files
  BY DEF Remember, limitsCommon, LimitsShape
<1>4. cache' = IF byName THEN CachePut(cache, entry) ELSE cache
  BY DEF Remember
<1>5. Became(w, d)
  BY GoIs DEF Remember
<1>6. d.pc = "gate" /\ d.m = c.m /\ d.rule = c.rule /\ d.steady = c.steady /\ DOMAIN d = Fields
  BY <1>1 DEF Fields
<1> HIDE DEF d
<1>7. CallShape(d)
  BY <1>2, <1>6 DEF CallShape, Fields
<1>8. entry \in Entry /\ entry.name = c.m.name /\ entry.rule = c.rule /\ entry.clean = c.steady
  BY <1>2 DEF Entry, Metric, Found, Matches
<1>9. cache' \in Seq(Entry)
  <2> HIDE DEF byName, entry
  <2>1. cache \in Seq(Entry)
    BY DEF LimitsShape
  <2>2. QED
    BY <1>4, <1>8, <2>1, CachePutIs
<1>10. cache' \in Seq(Remembered) /\ CallFinds(d)
  <2>1. (c.steady => IsFirst(config, c.m, c.rule)) /\ cache \in Seq(Remembered)
    BY <1>1 DEF MatchInv, CallFinds
  <2>2. byName => entry \in Remembered
    <3>1. (byName /\ c.steady) => ByName(config, c.m.name, c.rule)
      BY <1>3, <2>1, FirstIsName
    <3> HIDE DEF byName, entry
    <3>2. QED
      BY <1>8, <3>1 DEF Remembered
  <2>3. cache' \in Seq(Remembered)
    <3> HIDE DEF byName, entry
    <3> QED BY <1>4, <2>1, <2>2, CachePutIs
  <2>4. CallFinds(d)
    BY <1>6, <2>1 DEF CallFinds
  <2>5. QED
    BY <2>3, <2>4
<1>11. QED
  BY <1>3, <1>5, <1>7, <1>9, <1>10, OneFinds

\* a reload empties the cache, and no call that it overtakes is steady
LEMMA ReloadFinds ==
    ASSUME NEW f \in DOMAIN Files, LimitsShape, MatchInv, ReloadConfig(f)
    PROVE  LimitsShape' /\ MatchInv'
<1>1. /\ config' = f /\ cache' = <<>>
      /\ call' = [w \in Workers |-> [call[w] EXCEPT !.steady = FALSE]]
  BY DEF ReloadConfig
<1>2. cache' \in Seq(Entry) /\ cache' \in Seq(Remembered')
  BY <1>1
<1>3. ASSUME NEW w \in Workers
      PROVE  /\ CallShape(call'[w])
             /\ call'[w].pc = call[w].pc /\ call'[w].steady = FALSE
  <2>1. DOMAIN call[w] = Fields /\ CallShape(call[w]) /\ call'[w] = [call[w] EXCEPT !.steady = FALSE]
    BY <1>1, ShapeOf
  <2>2. QED
    BY <2>1 DEF CallShape, Fields
<1>4. LimitsShape'
  <2>1. \A w \in Workers : CallShape(call[w])'
    BY ZenonT(30), <1>3 DEF CallShape
  <2>2. QED
    BY <1>1, <1>2, <2>1 DEF LimitsShape
<1>5. \A w \in Workers : CallFinds(call[w])'
  BY ZenonT(30), <1>1, <1>3 DEF CallFinds
<1>6. QED
  BY <1>2, <1>4, <1>5 DEF MatchInv

\* nothing is remembered at the start
LEMMA MatchInit == LimitsInit => LimitsShape /\ MatchInv
<1> SUFFICES ASSUME LimitsInit PROVE LimitsShape /\ MatchInv
  OBVIOUS
<1>1. config = 1 /\ cache = <<>> /\ call = [w \in Workers |-> Idle]
  BY DEF LimitsInit
<1>2. CallFinds(Idle)
  BY IdleShape DEF CallFinds
<1>3. LimitsShape
  BY <1>1, IdleShape, LimitsAssumption DEF LimitsShape
<1>4. QED
  BY <1>1, <1>2, <1>3 DEF MatchInv

\* The invariant behind FirstMatch is inductive.
LEMMA MatchNext == LimitsShape /\ MatchInv /\ [LimitsNext]_limitVars => LimitsShape' /\ MatchInv'
<1> SUFFICES ASSUME LimitsShape, MatchInv, [LimitsNext]_limitVars PROVE LimitsShape' /\ MatchInv'
  OBVIOUS
<1>1. ASSUME UNCHANGED <<config, cache, call>> PROVE LimitsShape' /\ MatchInv'
  <2>1. Remembered' = Remembered /\ \A w \in Workers : CallFinds(call[w])' <=> CallFinds(call[w])
    BY <1>1 DEF Remembered, CallFinds
  <2>2. LimitsShape'
    BY <1>1 DEF LimitsShape
  <2>3. QED
    BY <1>1, <2>1, <2>2 DEF MatchInv
<1>2. ASSUME NEW w \in Workers, Process(w) PROVE LimitsShape' /\ MatchInv'
  BY <1>2, ProcessFinds
<1>3. ASSUME NEW w \in Workers, Step(w) PROVE LimitsShape' /\ MatchInv'
  <2>1. CASE Scan(w)
    BY <2>1, ScanFinds
  <2>2. CASE Remember(w)
    BY <2>2, RememberFinds
  <2>3. CASE Gate(w)
    <3>1. UNCHANGED <<config, cache>>
      BY <2>3 DEF Gate, limitsCommon
    <3>2. QED
      BY <2>3, <3>1, GatePasses, PastFinds
  <2>4. CASE checkLabelLimits(w)
    <3>1. UNCHANGED <<config, cache>>
      BY <2>4 DEF checkLabelLimits, limitsCommon
    <3>2. QED
      BY <2>4, <3>1, LabelsPass, PastFinds
  <2>5. CASE updateAndCheckLimits(w)
    <3>1. UNCHANGED <<config, cache>>
      BY ZenonT(30), <2>5 DEF updateAndCheckLimits, limitsCommon
    <3>2. QED
      BY <2>5, <3>1, TrackPasses, PastFinds
  <2>6. CASE handleViolation(w)
    <3>1. UNCHANGED <<config, cache>>
      BY <2>6 DEF handleViolation, limitsCommon
    <3>2. QED
      BY <2>6, <3>1, ViolationPasses, PastFinds
  <2>7. CASE Act(w)
    <3>1. UNCHANGED <<config, cache>>
      BY <2>7 DEF Act, limitsCommon
    <3>2. QED
      BY <2>7, <3>1, ActPasses, PastFinds
  <2>8. CASE handleAdaptive(w)
    <3>1. UNCHANGED <<config, cache>>
      BY ZenonT(30), <2>8 DEF handleAdaptive, limitsCommon
    <3>2. QED
      BY <2>8, <3>1, AdaptivePasses, PastFinds
  <2>9. CASE Record(w)
    <3> DEFINE d == [call[w] EXCEPT !.pc = "return"]
    <3>1. UNCHANGED <<config, cache>>
      BY <2>9 DEF Record, limitsCommon
    <3>2. Became(w, d) /\ CallShape(d) /\ d.pc = "return"
      BY <2>9, RecordIs
    <3>3. cache' \in Seq(Entry) /\ cache' \in Seq(Remembered)
      BY <3>1 DEF LimitsShape, MatchInv
    <3> HIDE DEF d
    <3>4. CallFinds(d)
      BY <3>2 DEF CallFinds
    <3>5. QED
      BY <3>1, <3>2, <3>3, <3>4, OneFinds
  <2>10. CASE Return(w)
    <3>1. UNCHANGED <<config, cache>>
      BY <2>10 DEF Return, limitsCommon
    <3>2. QED
      BY <2>10, <3>1, ReturnPasses, PastFinds
  <2>11. QED
    BY <1>3, <2>1, <2>2, <2>3, <2>4, <2>5, <2>6, <2>7, <2>8, <2>9, <2>10 DEF Step
<1>4. ASSUME NEW f \in DOMAIN Files, ReloadConfig(f) PROVE LimitsShape' /\ MatchInv'
  BY <1>4, ReloadFinds
<1>5. CASE SetDryRun
  BY <1>1, <1>5 DEF SetDryRun, ruleVars
<1>6. CASE ScrapeCounters
  BY <1>1, <1>6 DEF ScrapeCounters, ruleVars
<1>7. CASE ScrapeStats
  BY <1>1, <1>7 DEF ScrapeStats, ruleVars
<1>8. CASE Tick
  BY <1>1, <1>8 DEF Tick, ruleVars
<1>9. CASE UNCHANGED limitVars
  BY <1>1, <1>9 DEF limitVars
<1>10. QED
  BY <1>2, <1>3, <1>4, <1>5, <1>6, <1>7, <1>8, <1>9 DEF LimitsNext

\* A call that no reload interrupts goes on with the first rule of the file in
\* force that matches its metric, whether it came from the cache or from the list,
\* for any files, metrics, callers and size of the cache (findMatchingRule,
\* ruleCache), but for two cases: a rule with labels stands before one without
\* them for the same name, and an entry that was put in the cache after a reload
\* had overtaken its search.  In every case the rule matches the metric.
THEOREM FirstMatchAlways == LimitsSpec => []FirstMatch
<1>1. LimitsShape /\ MatchInv => FirstMatch
  <2> SUFFICES ASSUME LimitsShape, MatchInv, NEW w \in Workers, At(w, "gate")
               PROVE  /\ (call[w].steady /\ call[w].clean /\ Orderly(config, call[w].m)) =>
                            call[w].rule = FirstRule(config, call[w].m)
                      /\ call[w].rule # None => Matches(Rule(call[w].rule), call[w].m)
    BY ZenonT(30) DEF FirstMatch
  <2>1. /\ config \in DOMAIN Files
        /\ (call[w].steady /\ call[w].clean /\ Orderly(config, call[w].m)) => IsFirst(config, call[w].m, call[w].rule)
    BY DEF LimitsShape, MatchInv, CallFinds, At
  <2>2. call[w].rule # None => Matches(Rule(call[w].rule), call[w].m)
    BY ZenonT(30), ShapeOf DEF CallShape, At
  <2>3. QED
    BY <2>1, <2>2, FirstRuleIs
<1>2. QED
  BY <1>1, MatchInit, MatchNext, PTL DEF LimitsSpec

-----------------------------------------------------------------------------
(* What was withheld is counted *)

DropsInv ==
    /\ counters \in [passed : Nat, dropped : Nat] /\ withheld \in Nat /\ IsFiniteSet(Pending)
    /\ ~everDry => ~dryRun
    /\ DropsCounted

\* the datapoints that the call of w owes when f is what the calls are
Owed(f, w) == {w} \X (1..countDatapoints(f[w].m))

\* what all calls owe, and the calls other than that of w
Debt(f) == UNION {Owed(f, x) : x \in {y \in Workers : Owes(f[y])}}
OthersOwe(f, w) == UNION {Owed(f, x) : x \in {y \in Workers \ {w} : Owes(f[y])}}

\* pending is the debt, before a step and after it
LEMMA DebtIs == Pending = Debt(call) /\ Pending' = Debt(call')
<1>1. Pending = Debt(call)
  BY DEF Pending, Debt, Owed
<1>2. Pending' = Debt(call')
  BY DEF Pending, Debt, Owed, Owes, countDatapoints
<1>3. QED
  BY <1>1, <1>2

\* the call of w owes its datapoints or nothing
LEMMA DebtSplit ==
    ASSUME NEW f, NEW w \in Workers
    PROVE  /\ Owes(f[w]) => Debt(f) = OthersOwe(f, w) \union Owed(f, w)
           /\ ~Owes(f[w]) => Debt(f) = OthersOwe(f, w)
           /\ OthersOwe(f, w) \intersect Owed(f, w) = {}
<1>1. OthersOwe(f, w) \intersect Owed(f, w) = {}
  <2> SUFFICES ASSUME NEW p \in OthersOwe(f, w), p \in Owed(f, w) PROVE FALSE
    OBVIOUS
  <2>1. PICK x \in Workers \ {w} : p \in Owed(f, x)
    BY ZenonT(30) DEF OthersOwe
  <2>2. p[1] = x /\ p[1] = w
    BY <2>1 DEF Owed
  <2>3. QED
    BY <2>1, <2>2
<1>2. QED
  BY ZenonT(30), <1>1 DEF OthersOwe, Debt

\* a step of w changes nothing of what the others owe
LEMMA OthersStay ==
    ASSUME NEW w \in Workers, NEW c, Became(w, c)
    PROVE  OthersOwe(call', w) = OthersOwe(call, w)
<1>1. \A x \in Workers \ {w} : call'[x] = call[x]
  BY DEF Became
<1>2. \A x \in Workers \ {w} : (Owes(call'[x]) <=> Owes(call[x])) /\ Owed(call', x) = Owed(call, x)
  BY <1>1 DEF Owes, Owed, countDatapoints
<1>3. QED
  BY ZenonT(30), <1>2 DEF OthersOwe

\* a call owes as many datapoints as its metric has
LEMMA OwedIs ==
    ASSUME NEW f, NEW w \in Workers, f[w].m \in Metric
    PROVE  /\ countDatapoints(f[w].m) \in Nat
           /\ IsFiniteSet(Owed(f, w)) /\ Cardinality(Owed(f, w)) = countDatapoints(f[w].m)
<1> DEFINE n == countDatapoints(f[w].m)
<1>1. n \in Nat
  BY DEF Metric, countDatapoints
<1>2. Owed(f, w) = {w} \X (1..n)
  BY DEF Owed
<1> HIDE DEF n
<1>3. IsFiniteSet(1..n) /\ Cardinality(1..n) = n
  <2>1. /\ IsFiniteSet(1..n)
        /\ Cardinality(1..n) = IF 1 > n THEN 0 ELSE n - 1 + 1
    BY <1>1, FS_Interval
  <2>2. QED
    BY <1>1, <2>1
<1>4. IsFiniteSet({w}) /\ Cardinality({w}) = 1
  BY ZenonT(30), FS_Singleton
<1>5. IsFiniteSet(Owed(f, w)) /\ Cardinality(Owed(f, w)) = 1 * Cardinality(1..n)
  BY ZenonT(30), <1>2, <1>3, <1>4, FS_Product
<1>6. QED
  BY <1>1, <1>3, <1>5 DEF n

\* a call that owes adds its datapoints to those of the others
LEMMA OwingAdds ==
    ASSUME NEW f, NEW w \in Workers, f[w].m \in Metric, Owes(f[w])
    PROVE  /\ IsFiniteSet(Debt(f)) => IsFiniteSet(OthersOwe(f, w))
           /\ IsFiniteSet(OthersOwe(f, w)) =>
                /\ IsFiniteSet(Debt(f))
                /\ Cardinality(Debt(f)) = Cardinality(OthersOwe(f, w)) + countDatapoints(f[w].m)
<1> DEFINE rest == OthersOwe(f, w)
           mine == Owed(f, w)
           all == Debt(f)
           n == countDatapoints(f[w].m)
<1>1. all = rest \union mine /\ rest \intersect mine = {}
  BY DebtSplit
<1>2. IsFiniteSet(mine) /\ Cardinality(mine) = n /\ n \in Nat
  BY OwedIs
<1> HIDE DEF rest, mine, all, n
<1>3. IsFiniteSet(all) => IsFiniteSet(rest)
  BY <1>1, FS_Subset
<1>4. ASSUME IsFiniteSet(rest)
      PROVE  IsFiniteSet(all) /\ Cardinality(all) = Cardinality(rest) + n
  <2>1. /\ IsFiniteSet(rest \union mine)
        /\ Cardinality(rest \union mine) = Cardinality(rest) + Cardinality(mine) - Cardinality(rest \intersect mine)
    BY ZenonT(30), <1>2, <1>4, FS_Union
  <2>2. Cardinality(rest \intersect mine) = 0
    BY ZenonT(30), <1>1, FS_EmptySet
  <2>3. Cardinality(rest) \in Nat
    BY <1>4, FS_CardinalityType
  <2>4. QED
    BY <1>1, <1>2, <2>1, <2>2, <2>3
<1>5. QED
  BY <1>3, <1>4 DEF rest, all, n

\* a step of a call that owes nothing before it and after it
Quiet(w) == \E c : Became(w, c) /\ ~Owes(call[w]) /\ ~Owes(c)

\* leaves what is owed alone
LEMMA QuietPending ==
    ASSUME NEW w \in Workers, Quiet(w)
    PROVE  Pending' = Pending
<1>1. PICK c : Became(w, c) /\ ~Owes(call[w]) /\ ~Owes(c)
  BY DEF Quiet
<1>2. ~Owes(call'[w])
  BY <1>1 DEF Became
<1>3. OthersOwe(call', w) = OthersOwe(call, w)
  BY <1>1, OthersStay
<1>4. QED
  BY ZenonT(30), <1>1, <1>2, <1>3, DebtSplit, DebtIs

\* so do the search, the tracking and the decisions
LEMMA SearchQuiet ==
    ASSUME NEW w \in Workers, LimitsShape, Process(w) \/ Scan(w) \/ Remember(w)
    PROVE  Quiet(w)
<1>1. DOMAIN call = Workers /\ DOMAIN call[w] = Fields
  BY ShapeOf
<1>2. ASSUME NEW c, call' = [call EXCEPT ![w] = c], c.pc # "return", call[w].pc # "return"
      PROVE  Quiet(w)
  <2>1. Became(w, c)
    BY <1>1, <1>2 DEF Became
  <2>2. QED
    BY <1>2, <2>1 DEF Quiet, Owes
<1>3. CASE Process(w)
  <2>1. PICK m \in Metrics :
          LET i == CacheIndex(cache, m.name)
              hit == i # 0 /\ (cache[i].rule = None \/ MatchesLabels(Rule(cache[i].rule), m))
              c == [Idle EXCEPT !.m = m]
          IN call' = [call EXCEPT ![w] = IF hit THEN [c EXCEPT !.pc = "gate", !.rule = cache[i].rule, !.clean = cache[i].clean]
                                         ELSE [c EXCEPT !.pc = "scan", !.i = 1, !.n = Len(Files[config])]]
    BY ZenonT(30), <1>3 DEF Process
  <2> DEFINE i == CacheIndex(cache, m.name)
             hit == i # 0 /\ (cache[i].rule = None \/ MatchesLabels(Rule(cache[i].rule), m))
             found == [[Idle EXCEPT !.m = m] EXCEPT !.pc = "gate", !.rule = cache[i].rule, !.clean = cache[i].clean]
             begun == [[Idle EXCEPT !.m = m] EXCEPT !.pc = "scan", !.i = 1, !.n = Len(Files[config])]
             c == IF hit THEN found ELSE begun
  <2>2. call' = [call EXCEPT ![w] = c]
    BY <2>1
  <2>3. found.pc = "gate" /\ begun.pc = "scan"
    BY DEF Idle
  <2>4. c.pc # "return"
    <3> HIDE DEF found, begun, hit
    <3> QED BY <2>3
  <2>5. call[w].pc # "return"
    BY ZenonT(30), <1>3 DEF Process, At
  <2> HIDE DEF c
  <2>6. QED
    BY ZenonT(30), <1>2, <2>2, <2>4, <2>5
<1>4. CASE Scan(w)
  <2> DEFINE c == call[w]
             rules == Files[config]
             next == CASE c.i > c.n -> [c EXCEPT !.pc = "put", !.rule = None]
                       [] c.i <= c.n /\ c.i > Len(rules) -> [c EXCEPT !.pc = "panic"]
                       [] c.i <= c.n /\ c.i <= Len(rules) ->
                             IF Matches(rules[c.i], c.m) THEN [c EXCEPT !.pc = "put", !.rule = <<config, c.i>>]
                             ELSE [c EXCEPT !.i = @ + 1]
  <2>1. call' = [call EXCEPT ![w] = next]
    BY ZenonT(30), <1>4 DEF Scan
  <2>2. c.pc = "scan" /\ c.i \in Nat /\ c.n \in Nat
    BY <1>4, ShapeOf DEF Scan, At, CallShape
  <2>3. Len(rules) \in Nat
    BY FileIs DEF LimitsShape
  <2>4. next.pc \in {"put", "panic", "scan"}
    <3>1. CASE c.i > c.n
      BY <1>1, <2>2, <3>1 DEF Fields
    <3>2. CASE c.i <= c.n /\ c.i > Len(rules)
      BY <1>1, <2>2, <2>3, <3>2 DEF Fields
    <3>3. CASE c.i <= c.n /\ c.i <= Len(rules)
      BY <1>1, <2>2, <2>3, <3>3 DEF Fields
    <3>4. QED
      BY <2>2, <2>3, <3>1, <3>2, <3>3
  <2> HIDE DEF next
  <2>5. next.pc # "return" /\ call[w].pc # "return"
    BY <2>2, <2>4
  <2>6. QED
    BY ZenonT(30), <1>2, <2>1, <2>5
<1>5. CASE Remember(w)
  <2> DEFINE d == [call[w] EXCEPT !.pc = "gate"]
  <2>1. Became(w, d) /\ call[w].pc = "put"
    BY <1>5, GoIs DEF Remember, At
  <2>2. d.pc = "gate"
    BY <1>1 DEF Fields
  <2> HIDE DEF d
  <2>3. QED
    BY <2>1, <2>2 DEF Quiet, Owes
<1>6. QED
  BY <1>3, <1>4, <1>5

\* the counters, the flags and what is owed decide
LEMMA SameDrops ==
    ASSUME DropsInv, UNCHANGED <<counters, withheld, everDry, dryRun>>, Pending' = Pending
    PROVE  DropsInv'
  BY DEF DropsInv, DropsCounted

\* the counter goes up before the call returns
LEMMA RecordCounts ==
    ASSUME NEW w \in Workers, LimitsShape, DropsInv, Record(w)
    PROVE  DropsInv'
<1> DEFINE n == countDatapoints(call[w].m)
           d == [call[w] EXCEPT !.pc = "return"]
           others == OthersOwe(call, w)
<1>1. call[w].pc = "record" /\ call[w].m \in Metric /\ call[w].counter \in {"passed", "dropped"}
  BY ZenonT(30), ShapeOf DEF Record, At, CallShape
<1>2. Became(w, d) /\ d.pc = "return" /\ d.m = call[w].m /\ d.counter = call[w].counter
  BY RecordIs
<1> HIDE DEF d
<1>3. /\ call'[w].m = call[w].m
      /\ Owes(call'[w]) <=> call[w].counter = "dropped"
  BY <1>2 DEF Became, Owes
<1>4. n \in Nat
  BY <1>1 DEF Metric, countDatapoints
<1>5. /\ counters' = [counters EXCEPT ![call[w].counter] = @ + n]
      /\ UNCHANGED <<withheld, dryRun, everDry>>
  BY DEF Record, limitsCommon
<1>6. OthersOwe(call', w) = others
  BY <1>2, OthersStay
<1>7. Pending = others
  <2>1. ~Owes(call[w])
    BY <1>1 DEF Owes
  <2>2. QED
    BY ZenonT(30), <2>1, DebtSplit, DebtIs
<1>8. CASE call[w].counter = "passed"
  <2>1. Pending' = Pending
    BY ZenonT(30), <1>3, <1>6, <1>7, <1>8, DebtSplit, DebtIs
  <2>2. counters' \in [passed : Nat, dropped : Nat] /\ counters'.dropped = counters.dropped
    <3> HIDE DEF n
    <3> QED BY <1>4, <1>5, <1>8 DEF DropsInv
  <2>3. QED
    BY <1>5, <2>1, <2>2 DEF DropsInv, DropsCounted
<1>9. CASE call[w].counter = "dropped"
  <2>1. counters' \in [passed : Nat, dropped : Nat] /\ counters'.dropped = counters.dropped + n
    <3> HIDE DEF n
    <3> QED BY <1>4, <1>5, <1>9 DEF DropsInv
  <2>2. IsFiniteSet(others) /\ Cardinality(others) \in Nat
    BY <1>7, FS_CardinalityType DEF DropsInv
  <2>3. IsFiniteSet(Pending') /\ Cardinality(Pending') = Cardinality(others) + n
    <3>1. Owes(call'[w]) /\ call'[w].m \in Metric
      BY <1>1, <1>3, <1>9
    <3>2. IsFiniteSet(Debt(call')) /\ Cardinality(Debt(call')) = Cardinality(others) + countDatapoints(call'[w].m)
      BY ZenonT(30), <1>6, <2>2, <3>1, OwingAdds
    <3>3. QED
      BY <1>3, <3>2, DebtIs
  <2> HIDE DEF n, others
  <2>4. QED
    BY <1>4, <1>5, <1>7, <2>1, <2>2, <2>3 DEF DropsInv, DropsCounted
<1>10. QED
  BY <1>1, <1>8, <1>9

\* a call that returns withholds no more than it owes
LEMMA ReturnCounts ==
    ASSUME NEW w \in Workers, LimitsShape, DropsInv, Return(w)
    PROVE  DropsInv'
<1> DEFINE n == countDatapoints(call[w].m)
           others == OthersOwe(call, w)
<1>1. call[w].pc = "return" /\ call[w].m \in Metric /\ call[w].nil = (call[w].counter = "dropped")
  BY ZenonT(30), ShapeOf, IdleShape DEF Return, At, CallShape
<1>2. Became(w, Idle) /\ ~Owes(call'[w])
  BY ReturnPasses, IdleShape DEF Became, Owes
<1>3. Pending' = others
  <2>1. OthersOwe(call', w) = others
    BY <1>2, OthersStay
  <2>2. QED
    BY ZenonT(30), <1>2, <2>1, DebtSplit, DebtIs
<1>4. n \in Nat
  BY <1>1 DEF Metric, countDatapoints
<1>5. /\ withheld' = IF call[w].nil /\ ~dryRun THEN withheld + n ELSE withheld
      /\ UNCHANGED <<counters, dryRun, everDry>>
  BY DEF Return, limitsCommon
<1>6. CASE call[w].counter = "dropped"
  <2>1. Owes(call[w])
    BY <1>1, <1>6 DEF Owes
  <2>2. IsFiniteSet(others) /\ Cardinality(Pending) = Cardinality(others) + n
    BY ZenonT(30), <1>1, <2>1, OwingAdds, DebtIs DEF DropsInv
  <2>3. Cardinality(others) \in Nat
    BY <2>2, FS_CardinalityType
  <2>4. withheld' = IF dryRun THEN withheld ELSE withheld + n
    <3>1. call[w].nil = TRUE
      BY ZenonT(30), <1>1, <1>6
    <3> HIDE DEF n
    <3>2. QED
      BY <1>5, <3>1
  <2> HIDE DEF n, others
  <2>5. QED
    BY <1>3, <1>4, <1>5, <2>2, <2>3, <2>4 DEF DropsInv, DropsCounted
<1>7. CASE call[w].counter # "dropped"
  <2>1. ~Owes(call[w])
    BY <1>7 DEF Owes
  <2>2. Pending' = Pending
    BY ZenonT(30), <1>3, <2>1, DebtSplit, DebtIs
  <2>3. withheld' = withheld
    <3>1. call[w].nil = FALSE
      BY ZenonT(30), <1>1, <1>7
    <3> HIDE DEF n
    <3>2. QED
      BY <1>5, <3>1
  <2>4. QED
    BY <1>5, <2>2, <2>3, SameDrops
<1>8. QED
  BY <1>6, <1>7

\* The invariant behind DropsCounted is inductive.
LEMMA DropsNext == LimitsShape /\ DropsInv /\ [LimitsNext]_limitVars => DropsInv'
<1> SUFFICES ASSUME LimitsShape, DropsInv, [LimitsNext]_limitVars PROVE DropsInv'
  OBVIOUS
<1>1. ASSUME NEW w \in Workers, Quiet(w), UNCHANGED <<counters, withheld, everDry, dryRun>> PROVE DropsInv'
  BY <1>1, QuietPending, SameDrops
<1>2. ASSUME NEW w \in Workers, Past(w), call[w].pc # "return", UNCHANGED <<counters, withheld, everDry, dryRun>>
      PROVE  DropsInv'
  <2>1. Quiet(w)
    BY ZenonT(30), <1>2 DEF Past, Quiet, Owes
  <2>2. QED
    BY <1>1, <1>2, <2>1
<1>3. ASSUME NEW w \in Workers, Process(w) \/ Scan(w) \/ Remember(w) PROVE DropsInv'
  <2>1. UNCHANGED <<counters, withheld, everDry, dryRun>>
    BY ZenonT(30), <1>3 DEF Process, Scan, Remember, limitsCommon
  <2>2. QED
    BY <1>1, <1>3, <2>1, SearchQuiet
<1>4. ASSUME NEW w \in Workers, Step(w) PROVE DropsInv'
  <2>1. CASE Gate(w)
    <3>1. call[w].pc # "return" /\ UNCHANGED <<counters, withheld, everDry, dryRun>>
      BY <2>1 DEF Gate, At, limitsCommon
    <3>2. QED
      BY <1>2, <2>1, <3>1, GatePasses
  <2>2. CASE checkLabelLimits(w)
    <3>1. call[w].pc # "return" /\ UNCHANGED <<counters, withheld, everDry, dryRun>>
      BY <2>2 DEF checkLabelLimits, At, limitsCommon
    <3>2. QED
      BY <1>2, <2>2, <3>1, LabelsPass
  <2>3. CASE updateAndCheckLimits(w)
    <3>1. call[w].pc # "return" /\ UNCHANGED <<counters, withheld, everDry, dryRun>>
      BY ZenonT(30), <2>3 DEF updateAndCheckLimits, At, limitsCommon
    <3>2. QED
      BY <1>2, <2>3, <3>1, TrackPasses
  <2>4. CASE handleViolation(w)
    <3>1. call[w].pc # "return" /\ UNCHANGED <<counters, withheld, everDry, dryRun>>
      BY <2>4 DEF handleViolation, At, limitsCommon
    <3>2. QED
      BY <1>2, <2>4, <3>1, ViolationPasses
  <2>5. CASE Act(w)
    <3>1. call[w].pc # "return" /\ UNCHANGED <<counters, withheld, everDry, dryRun>>
      BY <2>5 DEF Act, At, limitsCommon
    <3>2. QED
      BY <1>2, <2>5, <3>1, ActPasses
  <2>6. CASE handleAdaptive(w)
    <3>1. call[w].pc # "return" /\ UNCHANGED <<counters, withheld, everDry, dryRun>>
      BY ZenonT(30), <2>6 DEF handleAdaptive, At, limitsCommon
    <3>2. QED
      BY <1>2, <2>6, <3>1, AdaptivePasses
  <2>7. CASE Record(w)
    BY <2>7, RecordCounts
  <2>8. CASE Return(w)
    BY <2>8, ReturnCounts
  <2>9. QED
    BY <1>3, <1>4, <2>1, <2>2, <2>3, <2>4, <2>5, <2>6, <2>7, <2>8 DEF Step
<1>5. ASSUME UNCHANGED call PROVE Pending' = Pending
  BY <1>5, DebtIs
<1>6. ASSUME NEW f \in DOMAIN Files, ReloadConfig(f) PROVE DropsInv'
  <2>1. UNCHANGED <<counters, withheld, everDry, dryRun>>
    BY <1>6 DEF ReloadConfig, workerVars
  <2>2. ASSUME NEW w \in Workers
        PROVE  call'[w].pc = call[w].pc /\ call'[w].counter = call[w].counter /\ call'[w].m = call[w].m
    <3>1. call'[w] = [call[w] EXCEPT !.steady = FALSE] /\ DOMAIN call[w] = Fields
      BY <1>6, ShapeOf DEF ReloadConfig
    <3>2. QED
      BY <3>1 DEF Fields
  <2>3. \A w \in Workers : (Owes(call'[w]) <=> Owes(call[w])) /\ Owed(call', w) = Owed(call, w)
    BY <2>2 DEF Owes, Owed, countDatapoints
  <2>4. Pending' = Pending
    BY ZenonT(30), <2>3, DebtIs DEF Debt
  <2>5. QED
    BY <2>1, <2>4, SameDrops
<1>7. CASE SetDryRun
  <2>1. UNCHANGED <<counters, withheld, call>> /\ everDry' = TRUE
    BY <1>7 DEF SetDryRun, workerVars, ruleVars
  <2>2. QED
    BY <1>5, <2>1 DEF DropsInv, DropsCounted
<1>8. CASE ScrapeCounters \/ ScrapeStats \/ Tick \/ UNCHANGED limitVars
  <2>1. UNCHANGED <<counters, withheld, everDry, dryRun, call>>
    BY <1>8 DEF ScrapeCounters, ScrapeStats, Tick, limitVars, workerVars, ruleVars
  <2>2. QED
    BY <1>5, <2>1, SameDrops
<1>9. QED
  BY <1>3, <1>4, <1>6, <1>7, <1>8 DEF LimitsNext

\* What Process withholds is in the counter of dropped datapoints from before the
\* call returns, whatever steps of other calls, toggles of the dry run, scrapes and
\* reloads come between the counting and the return, and without dry run the
\* counter is ahead of it by exactly the calls under way, for any number of
\* callers (processMetric, recordDrop, handleAdaptive).
THEOREM DropsCountedAlways == LimitsSpec => []DropsCounted
<1>1. LimitsInit => DropsInv
  <2> SUFFICES ASSUME LimitsInit PROVE DropsInv
    OBVIOUS
  <2>1. \A w \in Workers : ~Owes(call[w])
    BY IdleShape DEF LimitsInit, Owes
  <2>2. Pending = {}
    BY ZenonT(30), <2>1 DEF Pending
  <2>3. IsFiniteSet(Pending) /\ Cardinality(Pending) = 0
    BY <2>2, FS_EmptySet
  <2>4. QED
    BY <2>3 DEF LimitsInit, DropsInv, DropsCounted
<1>2. DropsInv => DropsCounted
  BY SMTT(30), ZenonT(30) DEF DropsInv
<1>3. QED
  BY <1>1, <1>2, DropsNext, MatchInit, MatchNext, PTL DEF LimitsSpec

-----------------------------------------------------------------------------
(* Adding series *)

GroupShape(g) == DOMAIN g = {"dps", "seen", "count", "hll"} /\ g.dps \in Nat

\* one series is added, and counted when the test did not know it
LEMMA AddSeriesIs ==
    ASSUME NEW acc, NEW s, DOMAIN acc = {"g", "added"}, GroupShape(acc.g), acc.added \in Nat
    PROVE  /\ DOMAIN AddSeries(acc, s) = {"g", "added"} /\ GroupShape(AddSeries(acc, s).g)
           /\ AddSeries(acc, s).g.dps = acc.g.dps /\ AddSeries(acc, s).g.hll = acc.g.hll
           /\ acc.g.seen \subseteq AddSeries(acc, s).g.seen
           /\ AddSeries(acc, s).added = IF TestOnly(acc.g, s) THEN acc.added ELSE acc.added + 1
<1> DEFINE R(r) == /\ DOMAIN r = {"g", "added"} /\ GroupShape(r.g) /\ r.g.dps = acc.g.dps /\ r.g.hll = acc.g.hll
                   /\ acc.g.seen \subseteq r.g.seen
<1>1. ASSUME NEW n,
             NEW r, r = [acc EXCEPT !.added = @ + 1, !.g.seen = @ \union {s}, !.g.count = n]
      PROVE  R(r) /\ r.added = acc.added + 1
  <2> DEFINE a == [acc EXCEPT !.added = @ + 1]
             b == [a EXCEPT !.g.seen = @ \union {s}]
  <2>1. DOMAIN a = {"g", "added"} /\ a.added = acc.added + 1 /\ a.g = acc.g
    OBVIOUS
  <2>2. r = [b EXCEPT !.g.count = n]
    BY <1>1
  <2> HIDE DEF a
  <2>3. DOMAIN b = {"g", "added"} /\ b.added = a.added /\ b.g = [a.g EXCEPT !.seen = @ \union {s}]
    BY <2>1
  <2>4. GroupShape(b.g) /\ b.g.dps = acc.g.dps /\ b.g.hll = acc.g.hll /\ acc.g.seen \subseteq b.g.seen
    BY <2>1, <2>3 DEF GroupShape
  <2> HIDE DEF b
  <2>5. DOMAIN r = {"g", "added"} /\ r.added = b.added /\ r.g = [b.g EXCEPT !.count = n]
    BY <2>2, <2>3
  <2>6. GroupShape(r.g) /\ r.g.dps = b.g.dps /\ r.g.hll = b.g.hll /\ r.g.seen = b.g.seen
    BY <2>4, <2>5 DEF GroupShape
  <2>7. QED
    BY <2>1, <2>3, <2>4, <2>5, <2>6
<1>2. CASE acc.g.hll
  <2>1. /\ AddSeries(acc, s) = [acc EXCEPT !.added = @ + 1, !.g.seen = @ \union {s}, !.g.count = Cardinality(acc.g.seen \union {s})]
        /\ ~TestOnly(acc.g, s)
    BY <1>2 DEF AddSeries, TestOnly
  <2>2. QED
    BY ZenonT(30), <1>1, <2>1
<1>3. CASE ~acc.g.hll /\ TestOnly(acc.g, s)
  BY <1>3 DEF AddSeries
<1>4. CASE ~acc.g.hll /\ ~TestOnly(acc.g, s)
  <2>1. AddSeries(acc, s) = [acc EXCEPT !.added = @ + 1, !.g.seen = @ \union {s}, !.g.count = @ + 1]
    BY <1>4 DEF AddSeries
  <2>2. AddSeries(acc, s) = [acc EXCEPT !.added = @ + 1, !.g.seen = @ \union {s}, !.g.count = acc.g.count + 1]
    <3> DEFINE a == [acc EXCEPT !.added = @ + 1]
               b == [a EXCEPT !.g.seen = @ \union {s}]
    <3>1. DOMAIN a = {"g", "added"} /\ a.g = acc.g
      OBVIOUS
    <3> HIDE DEF a
    <3>2. b.g = [a.g EXCEPT !.seen = @ \union {s}]
      BY <3>1
    <3>3. b.g.count = acc.g.count
      BY <3>1, <3>2 DEF GroupShape
    <3>4. [b EXCEPT !.g.count = @ + 1] = [b EXCEPT !.g.count = acc.g.count + 1]
      <4> HIDE DEF b
      <4> QED BY <3>3
    <3>5. QED
      BY <2>1, <3>4 DEF a
  <2>3. QED
    BY ZenonT(30), <1>1, <1>4, <2>2
<1>5. QED
  BY <1>2, <1>3, <1>4

\* f is the recursive function inside AddAll(g, s), for the first n of s
Adds(f, g, s, n) == f = [i \in 0..n |-> IF i = 0 THEN [g |-> g, added |-> 0] ELSE AddSeries(f[i - 1], s[i])]

\* there is such a function
LEMMA AddsExist ==
    ASSUME NEW g, NEW s, NEW n \in Nat
    PROVE  \E f : Adds(f, g, s, n)
<1> DEFINE none == [g |-> g, added |-> 0]
           S == {k \in Nat : \E f : Adds(f, g, s, k)}
<1>1. 0 \in S
  <2>1. Adds([i \in 0..0 |-> none], g, s, 0)
    BY DEF Adds
  <2>2. QED
    BY <2>1
<1>2. ASSUME NEW k \in Nat, k \in S PROVE k + 1 \in S
  <2>1. PICK f : Adds(f, g, s, k)
    BY <1>2
  <2> DEFINE h == [i \in 0..(k + 1) |-> IF i = k + 1 THEN AddSeries(f[k], s[k + 1]) ELSE f[i]]
  <2>2. \A i \in 0..k : f[i] = IF i = 0 THEN none ELSE AddSeries(f[i - 1], s[i])
    BY <2>1 DEF Adds
  <2> HIDE DEF none
  <2>3. ASSUME NEW i \in 0..(k + 1) PROVE h[i] = IF i = 0 THEN none ELSE AddSeries(h[i - 1], s[i])
    BY <2>2, <2>3
  <2>4. h = [i \in 0..(k + 1) |-> IF i = 0 THEN none ELSE AddSeries(h[i - 1], s[i])]
    BY <2>3
  <2> HIDE DEF h
  <2>5. Adds(h, g, s, k + 1)
    BY <2>4 DEF Adds, none
  <2>6. QED
    BY <2>5
<1>3. Nat \subseteq S
  <2> HIDE DEF S
  <2> QED
    BY <1>1, <1>2, Induction
<1>4. QED
  BY <1>3

\* The check before the addition foresees it: no more series are added than are
\* new to the group as it was, and the datapoints of the group stay.
LEMMA AddAllIs ==
    ASSUME NEW g, GroupShape(g), NEW s, Len(s) \in Nat
    PROVE  /\ GroupShape(AddAll(g, s).g) /\ AddAll(g, s).g.dps = g.dps
           /\ AddAll(g, s).added \in Nat
           /\ AddAll(g, s).added <= Cardinality({i \in 1..Len(s) : ~TestOnly(g, s[i])})
<1> DEFINE n == Len(s)
           N(k) == {i \in 1..k : ~TestOnly(g, s[i])}
           P(a, k) == /\ DOMAIN a = {"g", "added"} /\ GroupShape(a.g) /\ a.g.dps = g.dps /\ a.g.hll = g.hll
                      /\ g.seen \subseteq a.g.seen /\ a.added \in Nat /\ a.added <= Cardinality(N(k))
           f == CHOOSE h : h = [i \in 0..n |-> IF i = 0 THEN [g |-> g, added |-> 0] ELSE AddSeries(h[i - 1], s[i])]
<1>1. AddAll(g, s) = f[n]
  BY DEF AddAll
<1>2. Adds(f, g, s, n)
  <2>1. \E h : Adds(h, g, s, n)
    BY AddsExist
  <2> HIDE DEF n
  <2>2. QED
    BY <2>1, Zenon DEF Adds
<1> HIDE DEF f
<1>3. f[0] = [g |-> g, added |-> 0] /\ \A i \in 1..n : f[i] = AddSeries(f[i - 1], s[i])
  BY <1>2 DEF Adds
<1>4. \A k \in Nat : IsFiniteSet(N(k)) /\ Cardinality(N(k)) \in Nat
  <2> SUFFICES ASSUME NEW k \in Nat PROVE IsFiniteSet(N(k)) /\ Cardinality(N(k)) \in Nat
    OBVIOUS
  <2>1. IsFiniteSet(1..k) /\ N(k) \subseteq 1..k
    BY SMTT(30), ZenonT(30), FS_Interval
  <2> HIDE DEF N
  <2>2. QED
    BY <2>1, FS_Subset, FS_CardinalityType
<1> DEFINE S == {k \in Nat : k <= n => P(f[k], k)}
<1>5. 0 \in S
  <2>1. Cardinality(N(0)) \in Nat
    BY ZenonT(30), <1>4
  <2> HIDE DEF N
  <2>2. P(f[0], 0)
    BY SMTT(30), ZenonT(30), <1>3, <2>1
  <2>3. QED
    BY <2>2
<1>6. ASSUME NEW k \in Nat, k \in S PROVE k + 1 \in S
  <2> SUFFICES ASSUME k + 1 <= n PROVE P(f[k + 1], k + 1)
    OBVIOUS
  <2>1. P(f[k], k) /\ k + 1 \in 1..n /\ (k + 1) - 1 = k
    BY <1>6
  <2> DEFINE a == f[k]
             t == s[k + 1]
  <2>2. f[k + 1] = AddSeries(a, t)
    BY <1>3, <2>1
  <2>3. TestOnly(g, t) => TestOnly(a.g, t)
    BY <2>1 DEF TestOnly
  <2>4. Cardinality(N(k + 1)) = IF TestOnly(g, t) THEN Cardinality(N(k)) ELSE Cardinality(N(k)) + 1
    <3>1. CASE TestOnly(g, t)
      <4>1. N(k + 1) = N(k)
        BY <3>1
      <4>2. QED
        BY ZenonT(30), <3>1, <4>1
    <3>2. CASE ~TestOnly(g, t)
      <4>1. N(k + 1) = N(k) \union {k + 1} /\ k + 1 \notin N(k)
        BY <3>2
      <4>2. IsFiniteSet(N(k))
        BY <1>4
      <4> HIDE DEF N
      <4>3. Cardinality(N(k) \union {k + 1}) = Cardinality(N(k)) + 1
        BY ZenonT(30), <4>1, <4>2, FS_AddElement
      <4>4. QED
        BY ZenonT(30), <3>2, <4>1, <4>3
    <3>3. QED
      BY <3>1, <3>2
  <2>5. Cardinality(N(k)) \in Nat
    BY ZenonT(30), <1>4
  <2> HIDE DEF N, a, t
  <2>6. /\ DOMAIN a = {"g", "added"} /\ GroupShape(a.g) /\ a.g.dps = g.dps /\ a.g.hll = g.hll
        /\ g.seen \subseteq a.g.seen /\ a.added \in Nat /\ a.added <= Cardinality(N(k))
    BY <2>1 DEF a
  <2>7. QED
    BY SMTT(30), <2>2, <2>3, <2>4, <2>5, <2>6, AddSeriesIs
<1>7. n \in S
  <2> HIDE DEF S
  <2> QED BY SMTT(30), ZenonT(30), <1>5, <1>6, Induction
<1>8. P(f[n], n)
  BY <1>7
<1>9. QED
  BY <1>1, <1>8

-----------------------------------------------------------------------------
(* The windows of the rules *)

\* the datapoints of the group that a metric goes to, before it
Earlier(groups, g) == IF g \in DOMAIN groups THEN groups[g].dps ELSE 0

\* The datapoints of a window grow by what one group gets.
LEMMA DatapointsGrow ==
    ASSUME NEW groups, \A x \in DOMAIN groups : GroupShape(groups[x]), IsFiniteSet(Datapoints(groups)),
           NEW g, NEW new, GroupShape(new), NEW k \in Nat, new.dps = Earlier(groups, g) + k
    PROVE  /\ IsFiniteSet(Datapoints(With(groups, g, new)))
           /\ Cardinality(Datapoints(With(groups, g, new))) = Cardinality(Datapoints(groups)) + k
<1> DEFINE d == Earlier(groups, g)
           old == Datapoints(groups)
           more == {g} \X (d + 1..d + k)
           after == With(groups, g, new)
<1>1. d \in Nat
  BY DEF Earlier, GroupShape
<1>2. DOMAIN after = {g} \union DOMAIN groups /\ after[g] = new /\ \A x \in DOMAIN groups \ {g} : after[x] = groups[x]
  BY DEF With, Over
<1> HIDE DEF after
<1>3. \A x \in DOMAIN groups : groups[x].dps \in Nat
  BY DEF GroupShape
<1>4. g \in DOMAIN groups => d = groups[g].dps
  BY DEF Earlier
<1>5. g \notin DOMAIN groups => d = 0
  BY DEF Earlier
<1>6. new.dps = d + k
  OBVIOUS
<1> HIDE DEF d
<1>7. Datapoints(after) = old \union more
  <2>1. ASSUME NEW p \in Datapoints(after) PROVE p \in old \union more
    <3>1. PICK x \in DOMAIN after : p \in {x} \X (1..after[x].dps)
      BY DEF Datapoints
    <3>2. CASE x # g
      <4>1. x \in DOMAIN groups /\ p \in {x} \X (1..groups[x].dps)
        BY <1>2, <3>1, <3>2
      <4>2. QED
        BY <4>1 DEF Datapoints
    <3>3. CASE x = g
      <4>1. PICK i \in 1..(d + k) : p = <<g, i>>
        BY <1>2, <1>6, <3>1, <3>3
      <4>2. CASE i <= d
        <5>1. g \in DOMAIN groups /\ p \in {g} \X (1..groups[g].dps)
          BY <1>1, <1>4, <1>5, <4>1, <4>2
        <5>2. QED
          BY <5>1 DEF Datapoints
      <4>3. CASE i > d
        <5>1. i \in d + 1..d + k
          BY <1>1, <4>1, <4>3
        <5>2. QED
          BY <4>1, <5>1
      <4>4. QED
        BY <1>1, <4>1, <4>2, <4>3
    <3>4. QED
      BY <3>2, <3>3
  <2>2. ASSUME NEW p \in old PROVE p \in Datapoints(after)
    <3>1. PICK x \in DOMAIN groups : p \in {x} \X (1..groups[x].dps)
      BY <2>2 DEF Datapoints
    <3>2. groups[x].dps \in Nat /\ after[x].dps \in Nat /\ groups[x].dps <= after[x].dps /\ x \in DOMAIN after
      BY <1>1, <1>2, <1>3, <1>4, <1>6
    <3>3. p \in {x} \X (1..after[x].dps)
      BY <3>1, <3>2
    <3>4. QED
      BY <3>2, <3>3 DEF Datapoints
  <2>3. ASSUME NEW p \in more PROVE p \in Datapoints(after)
    <3>1. g \in DOMAIN after /\ p \in {g} \X (1..after[g].dps)
      BY <1>1, <1>2, <1>6, <2>3
    <3>2. QED
      BY <3>1 DEF Datapoints
  <2> HIDE DEF old, more
  <2>4. QED
    BY <2>1, <2>2, <2>3
<1>8. old \intersect more = {}
  <2> SUFFICES ASSUME NEW p \in old, p \in more PROVE FALSE
    OBVIOUS
  <2>1. PICK x \in DOMAIN groups : p \in {x} \X (1..groups[x].dps)
    BY DEF Datapoints
  <2>2. PICK i \in d + 1..d + k : p = <<g, i>>
    OBVIOUS
  <2>3. x = g /\ i \in 1..groups[x].dps
    BY <2>1, <2>2
  <2>4. QED
    BY <1>1, <1>4, <2>2, <2>3
<1>9. IsFiniteSet(more) /\ Cardinality(more) = k
  <2>1. IsFiniteSet(d + 1..d + k) /\ Cardinality(d + 1..d + k) = k
    <3>1. d + 1 \in Int /\ d + k \in Int
      BY <1>1
    <3>2. /\ IsFiniteSet(d + 1..d + k)
          /\ Cardinality(d + 1..d + k) = IF d + 1 > d + k THEN 0 ELSE (d + k) - (d + 1) + 1
      BY <3>1, FS_Interval
    <3>3. QED
      BY <1>1, <3>2
  <2>2. IsFiniteSet({g}) /\ Cardinality({g}) = 1
    BY ZenonT(30), FS_Singleton
  <2>3. IsFiniteSet(more) /\ Cardinality(more) = 1 * Cardinality(d + 1..d + k)
    BY ZenonT(30), <2>1, <2>2, FS_Product
  <2>4. QED
    BY <2>1, <2>3
<1> HIDE DEF old, more
<1>10. IsFiniteSet(old) /\ Cardinality(old) \in Nat
  BY SMTT(30), ZenonT(30), FS_CardinalityType DEF old
<1>11. /\ IsFiniteSet(old \union more)
       /\ Cardinality(old \union more) = Cardinality(old) + Cardinality(more) - Cardinality(old \intersect more)
  BY SMTT(30), ZenonT(30), <1>9, <1>10, FS_Union
<1>12. Cardinality(old \intersect more) = 0
  BY <1>8, FS_EmptySet
<1>13. QED
  BY <1>7, <1>9, <1>10, <1>11, <1>12 DEF old, after

WindowShape(rs) ==
    /\ DOMAIN rs = {"groups", "totalDPs", "totalCard", "end"}
    /\ rs.totalDPs \in Nat /\ rs.totalCard \in Nat
    /\ \A g \in DOMAIN rs.groups : GroupShape(rs.groups[g])
    /\ IsFiniteSet(Datapoints(rs.groups)) /\ Cardinality(Datapoints(rs.groups)) = rs.totalDPs

Bounded(n, rs) ==
    /\ \E f \in DOMAIN Files : \E i \in DOMAIN Files[f] :
         Files[f][i].name = n /\ Allows(Files[f][i].maxDatapointsRate, rs.totalDPs)
    /\ \E f \in DOMAIN Files : \E i \in DOMAIN Files[f] :
         Files[f][i].name = n /\ Allows(Files[f][i].maxCardinality, rs.totalCard)

WindowsInv == \A n \in DOMAIN stats : WindowShape(stats[n]) /\ Bounded(n, stats[n])

\* a position is one of a rule of some file
LEMMA RuleAt ==
    ASSUME NEW p \in Positions
    PROVE  /\ \E f \in DOMAIN Files : \E i \in DOMAIN Files[f] : Files[f][i] = Rule(p)
           /\ Rule(p).maxDatapointsRate \in Int /\ Rule(p).maxCardinality \in Int
  BY LimitsAssumption DEF Positions, Rule

\* a rule allows what its own limits allow
LEMMA BoundedBy ==
    ASSUME NEW p \in Positions, NEW rs, Allows(Rule(p).maxDatapointsRate, rs.totalDPs),
           Allows(Rule(p).maxCardinality, rs.totalCard)
    PROVE  Bounded(Rule(p).name, rs)
  BY SMTT(30), ZenonT(30), RuleAt DEF Bounded

\* the window that a call works on is within the limits
LEMMA WindowNowIs ==
    ASSUME NEW p \in Positions, WindowsInv
    PROVE  WindowShape(WindowNow(Rule(p))) /\ Bounded(Rule(p).name, WindowNow(Rule(p)))
<1> DEFINE r == Rule(p)
           new == [groups |-> << >>, totalDPs |-> 0, totalCard |-> 0, end |-> clock + 1]
<1>1. CASE WindowNow(r) = new
  <2>1. /\ DOMAIN new = {"groups", "totalDPs", "totalCard", "end"}
        /\ new.totalDPs = 0 /\ new.totalCard = 0 /\ new.groups = << >>
    OBVIOUS
  <2>2. DOMAIN << >> = {}
    OBVIOUS
  <2>3. Datapoints(<< >>) = {}
    BY <2>2 DEF Datapoints
  <2>4. IsFiniteSet({}) /\ Cardinality({}) = 0
    BY FS_EmptySet
  <2> HIDE DEF new
  <2>5. WindowShape(new)
    BY SMTT(30), ZenonT(30), <2>1, <2>2, <2>3, <2>4 DEF WindowShape
  <2>6. Allows(r.maxDatapointsRate, new.totalDPs) /\ Allows(r.maxCardinality, new.totalCard)
    BY <2>1, RuleAt DEF Allows
  <2>7. QED
    BY ZenonT(30), <1>1, <2>5, <2>6, BoundedBy
<1>2. CASE r.name \in DOMAIN stats /\ WindowNow(r) = stats[r.name]
  BY <1>2 DEF WindowsInv
<1>3. QED
  BY ZenonT(30), <1>1, <1>2 DEF WindowNow

\* Only a metric within the limits is added, with no more than was checked.
LEMMA TrackStays ==
    ASSUME NEW w \in Workers, LimitsShape, WindowsInv, updateAndCheckLimits(w)
    PROVE  WindowsInv'
<1> DEFINE c == call[w]
           r == Rule(c.rule)
           g == buildGroupKey(r, c.m)
           rs == WindowNow(r)
           full == g \notin DOMAIN rs.groups /\ Cardinality(DOMAIN rs.groups) >= MaxGroups
           gs == IF g \in DOMAIN rs.groups THEN rs.groups[g] ELSE NewGroup
           series == [i \in DOMAIN c.m.points |-> buildSeriesKey(c.m, i)]
           newSeries == Cardinality({i \in DOMAIN series : ~TestOnly(gs, series[i])})
           dps == countDatapoints(c.m)
           overCard == Exceeds(rs.totalCard + newSeries, r.maxCardinality)
           overRate == Exceeds(rs.totalDPs + dps, r.maxDatapointsRate)
           add == AddAll(gs, series)
           within == ~full /\ ~overCard /\ ~overRate
           group == [add.g EXCEPT !.dps = @ + dps]
           added == [rs EXCEPT !.groups = With(@, g, group), !.totalDPs = @ + dps, !.totalCard = @ + add.added]
           begun == [rs EXCEPT !.groups = With(@, g, gs)]
           after == IF within THEN added ELSE IF full THEN rs ELSE begun
<1>1. stats' = With(stats, r.name, after)
  BY Zenon DEF updateAndCheckLimits
<1>2. c.pc = "track" /\ CallShape(c)
  BY ZenonT(30), ShapeOf DEF updateAndCheckLimits, At
<1>3. c.rule \in Positions /\ c.m \in Metric
  BY <1>2 DEF CallShape
<1>4. WindowShape(rs) /\ Bounded(r.name, rs)
  BY <1>3, WindowNowIs
<1>5. r.maxDatapointsRate \in Int /\ r.maxCardinality \in Int
  BY <1>3, RuleAt
<1>6. dps \in Nat /\ Len(series) = dps /\ DOMAIN series = 1..dps
  <2> DEFINE T == {buildSeriesKey(c.m, i) : i \in 1..Len(c.m.points)}
  <2>1. DOMAIN c.m.points = 1..Len(c.m.points) /\ Len(c.m.points) \in Nat
    BY <1>3 DEF Metric
  <2>2. series \in [1..Len(c.m.points) -> T]
    BY <2>1
  <2>3. dps = Len(c.m.points)
    BY SMTT(30), ZenonT(30) DEF countDatapoints
  <2> HIDE DEF series, T, dps
  <2>4. QED
    BY <2>1, <2>2, <2>3
<1>7. GroupShape(gs) /\ gs.dps = Earlier(rs.groups, g)
  <2>1. GroupShape(NewGroup) /\ NewGroup.dps = 0
    BY DEF NewGroup, GroupShape
  <2> HIDE DEF rs, g
  <2>2. QED
    BY <1>4, <2>1 DEF WindowShape, Earlier
<1> HIDE DEF r, g, rs, gs, series, dps
<1>8. /\ GroupShape(add.g) /\ add.g.dps = gs.dps /\ add.added \in Nat /\ add.added <= newSeries /\ newSeries \in Nat
  <2>1. /\ GroupShape(add.g) /\ add.g.dps = gs.dps /\ add.added \in Nat
        /\ add.added <= Cardinality({i \in 1..Len(series) : ~TestOnly(gs, series[i])})
    BY <1>6, <1>7, AddAllIs
  <2> DEFINE N == {i \in DOMAIN series : ~TestOnly(gs, series[i])}
  <2>2. {i \in 1..Len(series) : ~TestOnly(gs, series[i])} = N /\ N \subseteq 1..dps
    BY <1>6
  <2>3. IsFiniteSet(1..dps)
    BY <1>6, FS_Interval
  <2> HIDE DEF N
  <2>4. Cardinality(N) \in Nat
    BY ZenonT(30), <2>2, <2>3, FS_Subset, FS_CardinalityType
  <2>5. QED
    BY ZenonT(30), <2>1, <2>2, <2>4 DEF N
<1> HIDE DEF add, newSeries
<1>9. WindowShape(after) /\ Bounded(r.name, after)
  <2>1. CASE within
    <3>1. GroupShape(group) /\ group.dps = Earlier(rs.groups, g) + dps
      BY <1>6, <1>7, <1>8 DEF GroupShape
    <3> HIDE DEF group
    <3>2. /\ DOMAIN added = {"groups", "totalDPs", "totalCard", "end"}
          /\ added.groups = With(rs.groups, g, group)
          /\ added.totalDPs = rs.totalDPs + dps /\ added.totalCard = rs.totalCard + add.added
      BY <1>4 DEF WindowShape
    <3>3. /\ IsFiniteSet(Datapoints(added.groups))
          /\ Cardinality(Datapoints(added.groups)) = Cardinality(Datapoints(rs.groups)) + dps
      <4>1. (\A x \in DOMAIN rs.groups : GroupShape(rs.groups[x])) /\ IsFiniteSet(Datapoints(rs.groups))
        BY <1>4 DEF WindowShape
      <4>2. /\ IsFiniteSet(Datapoints(With(rs.groups, g, group)))
            /\ Cardinality(Datapoints(With(rs.groups, g, group))) = Cardinality(Datapoints(rs.groups)) + dps
        BY SMTT(30), ZenonT(30), <1>6, <3>1, <4>1, DatapointsGrow
      <4>3. QED
        BY <3>2, <4>2
    <3>4. \A x \in DOMAIN added.groups : GroupShape(added.groups[x])
      <4>1. \A x \in DOMAIN With(rs.groups, g, group) : GroupShape(With(rs.groups, g, group)[x])
        BY <1>4, <3>1 DEF WindowShape, With, Over
      <4>2. QED
        BY SMTT(30), ZenonT(30), <3>2, <4>1
    <3>5. rs.totalDPs \in Nat /\ rs.totalCard \in Nat /\ Cardinality(Datapoints(rs.groups)) = rs.totalDPs
      BY SMTT(30), ZenonT(30), <1>4 DEF WindowShape
    <3> HIDE DEF added
    <3>6. WindowShape(added)
      BY <1>6, <1>8, <3>2, <3>3, <3>4, <3>5 DEF WindowShape
    <3>7. Allows(r.maxDatapointsRate, added.totalDPs)
      BY SMTT(30), ZenonT(30), <1>5, <1>6, <2>1, <3>2, <3>5 DEF Allows, Exceeds
    <3>8. Allows(r.maxCardinality, added.totalCard)
      BY <1>5, <1>8, <2>1, <3>2, <3>5 DEF Allows, Exceeds
    <3>9. after = added
      BY <2>1
    <3>10. QED
      BY <1>3, <3>6, <3>7, <3>8, <3>9, BoundedBy DEF r
  <2>2. CASE ~within /\ full
    <3>1. after = rs
      BY <2>2
    <3>2. QED
      BY <1>4, <3>1
  <2>3. CASE ~within /\ ~full
    <3>1. after = begun
      BY <2>3
    <3>2. /\ DOMAIN begun = {"groups", "totalDPs", "totalCard", "end"}
          /\ begun.groups = With(rs.groups, g, gs)
          /\ begun.totalDPs = rs.totalDPs /\ begun.totalCard = rs.totalCard
      BY <1>4 DEF WindowShape
    <3> HIDE DEF begun
    <3>3. gs.dps = Earlier(rs.groups, g) + 0
      BY <1>7 DEF GroupShape
    <3>4. /\ IsFiniteSet(Datapoints(begun.groups))
          /\ Cardinality(Datapoints(begun.groups)) = Cardinality(Datapoints(rs.groups)) + 0
      <4>1. (\A x \in DOMAIN rs.groups : GroupShape(rs.groups[x])) /\ IsFiniteSet(Datapoints(rs.groups))
        BY <1>4 DEF WindowShape
      <4>2. /\ IsFiniteSet(Datapoints(With(rs.groups, g, gs)))
            /\ Cardinality(Datapoints(With(rs.groups, g, gs))) = Cardinality(Datapoints(rs.groups)) + 0
        BY SMTT(30), ZenonT(30), <1>7, <3>3, <4>1, DatapointsGrow
      <4>3. QED
        BY SMTT(30), ZenonT(30), <3>2, <4>2
    <3>5. \A x \in DOMAIN begun.groups : GroupShape(begun.groups[x])
      <4>1. \A x \in DOMAIN With(rs.groups, g, gs) : GroupShape(With(rs.groups, g, gs)[x])
        BY SMTT(30), ZenonT(30), <1>4, <1>7 DEF WindowShape, With, Over
      <4>2. QED
        BY SMTT(30), ZenonT(30), <3>2, <4>1
    <3>6. WindowShape(begun)
      <4>1. rs.totalDPs \in Nat /\ rs.totalCard \in Nat /\ Cardinality(Datapoints(rs.groups)) = rs.totalDPs
        BY <1>4 DEF WindowShape
      <4>2. QED
        BY SMTT(30), ZenonT(30), <3>2, <3>4, <3>5, <4>1 DEF WindowShape
    <3>7. Bounded(r.name, begun)
      BY SMTT(30), ZenonT(30), <1>4, <3>2 DEF Bounded
    <3>8. QED
      BY <3>1, <3>6, <3>7
  <2>4. QED
    BY <2>1, <2>2, <2>3
<1> HIDE DEF after
<1>10. SUFFICES ASSUME NEW n \in DOMAIN stats' PROVE WindowShape(stats'[n]) /\ Bounded(n, stats'[n])
  BY ZenonT(30) DEF WindowsInv, WindowShape, Bounded
<1>11. (n = r.name /\ stats'[n] = after) \/ (n \in DOMAIN stats /\ stats'[n] = stats[n])
  BY <1>1 DEF With, Over
<1>12. QED
  BY <1>9, <1>11 DEF WindowsInv

\* The invariant behind WithinLimits is inductive.
LEMMA WindowsNext == LimitsShape /\ WindowsInv /\ [LimitsNext]_limitVars => WindowsInv'
<1> SUFFICES ASSUME LimitsShape, WindowsInv, [LimitsNext]_limitVars PROVE WindowsInv'
  OBVIOUS
<1>1. ASSUME UNCHANGED stats PROVE WindowsInv'
  BY ZenonT(30), <1>1 DEF WindowsInv, WindowShape, Bounded
<1>2. ASSUME NEW w \in Workers, Process(w) PROVE WindowsInv'
  BY <1>1, <1>2 DEF Process
<1>3. ASSUME NEW w \in Workers, Step(w) PROVE WindowsInv'
  <2>1. CASE updateAndCheckLimits(w)
    BY <2>1, TrackStays
  <2>2. CASE Scan(w) \/ Remember(w)
    BY <1>1, <2>2 DEF Scan, Remember
  <2>3. CASE Gate(w) \/ checkLabelLimits(w)
    BY <1>1, <2>3 DEF Gate, checkLabelLimits
  <2>4. CASE handleViolation(w) \/ Act(w)
    BY ZenonT(30), <1>1, <2>4 DEF handleViolation, Act
  <2>5. CASE handleAdaptive(w) \/ Record(w) \/ Return(w)
    BY ZenonT(30), <1>1, <2>5 DEF handleAdaptive, Record, Return
  <2>6. QED
    BY <1>3, <2>1, <2>2, <2>3, <2>4, <2>5 DEF Step
<1>4. ASSUME NEW f \in DOMAIN Files, ReloadConfig(f) PROVE WindowsInv'
  <2>1. stats' = [n \in DOMAIN stats \intersect Names(f) |-> stats[n]]
    BY <1>4 DEF ReloadConfig
  <2>2. \A n \in DOMAIN stats' : n \in DOMAIN stats /\ stats'[n] = stats[n]
    BY <2>1
  <2>3. QED
    BY ZenonT(30), <2>2 DEF WindowsInv, WindowShape, Bounded
<1>5. CASE SetDryRun \/ ScrapeCounters \/ ScrapeStats \/ Tick
  BY <1>1, <1>5 DEF SetDryRun, ScrapeCounters, ScrapeStats, Tick, ruleVars
<1>6. CASE UNCHANGED limitVars
  BY <1>1, <1>6 DEF limitVars
<1>7. QED
  BY SMTT(30), ZenonT(30), <1>2, <1>3, <1>4, <1>5, <1>6 DEF LimitsNext

\* The totals of a window, of what was let pass as within the limits, are within
\* the limits that some file gives its rule, in datapoints and in series, and the
\* datapoints are those of its groups, for
\* any rules, callers, reloads and trackers that only err towards known series
\* (updateAndCheckLimits).
THEOREM WithinLimitsAlways == LimitsSpec => []WithinLimits
<1>1. LimitsInit => WindowsInv
  <2>1. DOMAIN << >> = {}
    BY SMTT(30), ZenonT(30)
  <2>2. QED
    BY <2>1 DEF LimitsInit, WindowsInv
<1>2. WindowsInv => WithinLimits
  BY ZenonT(30) DEF WindowsInv, WithinLimits, WithinBounds, SomeRule, WindowShape, Bounded
<1>3. QED
  BY <1>1, <1>2, WindowsNext, MatchInit, MatchNext, PTL DEF LimitsSpec
===============================================================================
