--------------------------- MODULE ShardingProofs ---------------------------
(***************************************************************************)
(* Proofs about Sharding, for any endpoints, placements of virtual nodes,  *)
(* calls and points: an update of the ring moves as few keys as it can     *)
(* (MinimalMovesAlways), an open exporter is the one in the map            *)
(* (OpenIsInMapAlways), and nil means that everything was sent             *)
(* (NilMeansSentAlways).                                                   *)
(*                                                                         *)
(* The first is a fact about two rings (MovesAre): if the endpoint that each *)
(* ring gives a hash is in the other ring as well, the place that each finds *)
(* is on both rings, so it is the same place, and the same endpoint is the *)
(* first one there.  RingOk says that the rings in use are such rings.  The *)
(* second needs that numbers of instances are not 0, the number of none    *)
(* (MapOk), which is where Fresh finds one that nobody refers to.  The third *)
(* needs that what a call has routed so far is in its shards, and that its *)
(* goroutines run only while it waits for them (CallOk).                   *)
(***************************************************************************)
EXTENDS Sharding, SumProofs, FiniteSetTheorems

-----------------------------------------------------------------------------
(* The hash ring *)

\* the least of a set of numbers
LEMMA MinIs ==
    ASSUME NEW I, I \subseteq Nat, I # {}
    PROVE  Min(I) \in I /\ \A y \in I : Min(I) <= y
<1>1. \E x \in I : \A y \in I : x <= y
  BY LeastOf, Zenon
<1>2. QED
  BY ZenonT(30), <1>1 DEF Min

\* the endpoints of a ring, and where their virtual nodes may be
Ring(placed, eps) == eps \subseteq Nat \ {0} /\ \A e \in eps : placed[e] \subseteq Nat

\* the place that a hash has on the ring: the first at or behind it, or else the first of all
First(p, places, hash) ==
    /\ p \in places
    /\ \A q \in places : /\ q >= hash => p >= hash /\ p <= q
                         /\ ~(q >= hash) /\ ~(p >= hash) => p <= q

\* at a place of the ring is the first in the order of those that have a virtual node there
LEMMA NodeAtIs ==
    ASSUME NEW placed, NEW eps, Ring(placed, eps), NEW p \in Positions(placed, eps)
    PROVE  /\ NodeAt(placed, eps, p) \in eps
           /\ p \in placed[NodeAt(placed, eps, p)]
           /\ \A e \in eps : p \in placed[e] => NodeAt(placed, eps, p) <= e
<1> DEFINE at == {e \in eps : p \in placed[e]}
<1>1. at \subseteq Nat /\ at # {}
  BY ZenonT(30) DEF Ring, Positions, NodesOf
<1>2. NodeAt(placed, eps, p) = Min(at)
  BY Zenon DEF NodeAt, NodesOf
<1> HIDE DEF at
<1>3. Min(at) \in at /\ \A y \in at : Min(at) <= y
  BY ZenonT(30), <1>1, MinIs
<1>4. QED
  BY <1>2, <1>3 DEF at

\* GetEndpoint finds the first place and who is there
LEMMA GetIs ==
    ASSUME NEW placed, NEW eps, Ring(placed, eps), NEW hash
    PROVE  IF Positions(placed, eps) = {} THEN GetEndpoint(placed, eps, hash) = NoEndpoint
           ELSE \E p : First(p, Positions(placed, eps), hash) /\ GetEndpoint(placed, eps, hash) = NodeAt(placed, eps, p)
<1> DEFINE places == Positions(placed, eps)
           from == {p \in places : p >= hash}
<1>1. places \subseteq Nat
  BY DEF Positions, NodesOf, Ring
<1>2. GetEndpoint(placed, eps, hash) =
        IF places = {} THEN NoEndpoint ELSE NodeAt(placed, eps, IF from # {} THEN Min(from) ELSE Min(places))
  BY Zenon DEF GetEndpoint
<1> HIDE DEF places
<1>3. CASE from # {}
  <2> DEFINE p == Min(from)
  <2>1. from \subseteq Nat /\ places # {}
    BY ZenonT(30), <1>1, <1>3
  <2> HIDE DEF from
  <2>2. p \in from /\ \A y \in from : p <= y
    BY ZenonT(30), <1>3, <2>1, MinIs
  <2> HIDE DEF p
  <2>3. First(p, places, hash)
    BY <2>2 DEF from, First
  <2>4. GetEndpoint(placed, eps, hash) = NodeAt(placed, eps, p)
    BY <1>2, <1>3, <2>1, Zenon DEF p
  <2>5. QED
    BY <2>1, <2>3, <2>4 DEF places
<1>4. CASE from = {} /\ places # {}
  <2> DEFINE p == Min(places)
  <2>1. p \in places /\ \A y \in places : p <= y
    BY ZenonT(30), <1>1, <1>4, MinIs
  <2> HIDE DEF p
  <2>2. First(p, places, hash)
    BY <1>4, <2>1 DEF First
  <2>3. GetEndpoint(placed, eps, hash) = NodeAt(placed, eps, p)
    BY <1>2, <1>4 DEF p
  <2>4. QED
    BY <1>4, <2>2, <2>3 DEF places
<1>5. CASE places = {}
  BY <1>2, <1>5 DEF places
<1>6. QED
  BY <1>3, <1>4, <1>5

\* a key belongs to an endpoint of the ring, or to none
LEMMA GetIsIn ==
    ASSUME NEW placed, NEW eps, Ring(placed, eps), NEW hash
    PROVE  GetEndpoint(placed, eps, hash) \in eps \cup {NoEndpoint}
<1>1. CASE Positions(placed, eps) = {}
  BY <1>1, GetIs
<1>2. CASE Positions(placed, eps) # {}
  <2>1. PICK p : First(p, Positions(placed, eps), hash) /\ GetEndpoint(placed, eps, hash) = NodeAt(placed, eps, p)
    BY <1>2, GetIs
  <2>2. QED
    BY <2>1, NodeAtIs DEF First
<1>3. QED
  BY <1>1, <1>2

\* Two rings with the same placements: a hash that has an endpoint of the other
\* ring in both of them has the same one.
LEMMA MovesAre ==
    ASSUME NEW placed, NEW eps, NEW fps, Ring(placed, eps), Ring(placed, fps), NEW hash \in Nat,
           GetEndpoint(placed, eps, hash) \in fps, GetEndpoint(placed, fps, hash) \in eps
    PROVE  GetEndpoint(placed, eps, hash) = GetEndpoint(placed, fps, hash)
<1> DEFINE P == Positions(placed, eps)
           Q == Positions(placed, fps)
           before == GetEndpoint(placed, eps, hash)
           after == GetEndpoint(placed, fps, hash)
<1>1. NoEndpoint \notin eps /\ NoEndpoint \notin fps
  BY DEF Ring, NoEndpoint
<1>2. PICK p : First(p, P, hash) /\ before = NodeAt(placed, eps, p)
  BY <1>1, GetIs
<1>3. PICK q : First(q, Q, hash) /\ after = NodeAt(placed, fps, q)
  BY <1>1, GetIs
<1>4. /\ before \in eps /\ p \in placed[before]
      /\ \A e \in eps : p \in placed[e] => before <= e
  BY <1>2, NodeAtIs DEF First
<1>5. /\ after \in fps /\ q \in placed[after]
      /\ \A e \in fps : q \in placed[e] => after <= e
  BY <1>3, NodeAtIs DEF First
<1> HIDE DEF before, after
<1>6. before \in fps /\ after \in eps
  BY DEF before, after
<1>7. p \in Q /\ q \in P
  BY <1>4, <1>5, <1>6 DEF Positions, NodesOf
<1>8. p \in Nat /\ q \in Nat /\ before \in Nat /\ after \in Nat
  BY <1>4, <1>5 DEF Ring
<1>9. p = q
  <2> HIDE DEF P, Q
  <2>1. /\ q >= hash => p >= hash /\ p <= q
        /\ ~(q >= hash) /\ ~(p >= hash) => p <= q
    BY <1>2, <1>7 DEF First
  <2>2. /\ p >= hash => q >= hash /\ q <= p
        /\ ~(p >= hash) /\ ~(q >= hash) => q <= p
    BY <1>3, <1>7 DEF First
  <2>3. QED
    BY <1>8, <2>1, <2>2
<1>10. before <= after /\ after <= before
  BY <1>4, <1>5, <1>6, <1>9
<1>11. QED
  BY <1>8, <1>10 DEF before, after

-----------------------------------------------------------------------------
(* The ring in use *)

\* what a ring may consist of
Nodes == (Endpoints \cup {Fallback}) \ {NoEndpoint}

\* endpoints, hashes and the places of virtual nodes are numbers
Numbers ==
    /\ Endpoints \subseteq Nat \ {0} /\ Fallback \in Nat
    /\ Hashes \subseteq Nat
    /\ \A placed \in Placements : \A e \in Nodes : placed[e] \subseteq Nat

\* as the constants are assumed to be
LEMMA AreNumbers == Numbers
  BY NumbersAssumption DEF Numbers, Nodes, NoEndpoint

\* the ring, and every notice on its way to it, is a set of endpoints
RingOk ==
    /\ nodes \in Placements
    /\ dns \subseteq Endpoints /\ ring \subseteq Nodes
    /\ \A n \in notices : DOMAIN n = {"given", "number", "stage"} /\ n.given \subseteq Nodes

LEMMA RingInit == ShardInit => RingOk
BY DEF ShardInit, RingOk

LEMMA RingNext ==
    ASSUME Numbers, RingOk, [ShardNext]_shardVars
    PROVE  RingOk'
<1>1. CASE UNCHANGED shardVars
  BY <1>1 DEF shardVars, fixed, discovery, RingOk
<1> SUFFICES ASSUME ShardNext PROVE RingOk'
  BY <1>1
<1>2. nodes' = nodes
  BY DEF ShardNext, fixed
<1>3. CASE DNSChanges
  BY <1>2, <1>3 DEF DNSChanges, RingOk
<1>4. CASE Refresh
  <2>1. Found \subseteq Nodes
    BY DEF Found, Nodes, Numbers, NoEndpoint, RingOk
  <2> DEFINE new == [given |-> Found, number |-> changes, stage |-> "ring"]
  <2>2. DOMAIN new = {"given", "number", "stage"} /\ new.given \subseteq Nodes
    BY <2>1
  <2>3. notices' = notices \cup {new} /\ dns' = dns /\ ring' = ring
    BY <1>4 DEF Refresh
  <2> HIDE DEF new
  <2>4. QED
    BY <1>2, <2>2, <2>3 DEF RingOk
<1>5. ASSUME NEW n \in notices, NoticeRing(n) PROVE RingOk'
  <2> DEFINE new == [n EXCEPT !.stage = "cleanup"]
  <2>1. DOMAIN n = {"given", "number", "stage"} /\ n.given \subseteq Nodes
    BY DEF RingOk
  <2>2. DOMAIN new = {"given", "number", "stage"} /\ new.given = n.given
    BY <2>1
  <2>3. notices' = (notices \ {n}) \cup {new} /\ dns' = dns /\ ring' = n.given
    BY <1>5 DEF NoticeRing
  <2> HIDE DEF new
  <2>4. QED
    BY <1>2, <2>1, <2>2, <2>3 DEF RingOk
<1>6. ASSUME NEW n \in notices, NoticeCleanup(n) PROVE RingOk'
  BY <1>2, <1>6 DEF NoticeCleanup, RingOk
<1>7. ASSUME NEW n \in notices, NoticePRW(n) PROVE RingOk'
  <2>1. notices' = notices \ {n} /\ dns' = dns /\ ring' \in {ring, n.given}
    BY <1>7 DEF NoticePRW
  <2>2. QED
    BY <1>2, <2>1 DEF RingOk
<1>8. ASSUME dns' = dns, ring' = ring, notices' = notices PROVE RingOk'
  BY <1>2, <1>8 DEF RingOk
<1>9. ASSUME NEW c \in Calls, Export(c) PROVE RingOk'
  <2>1. UNCHANGED <<discovery, ring>>
    BY <1>9 DEF Export, Serve, SplitNothing, Split, BuildKey, Route, Launch, Join, Acquire, Get, Create, CreateFails,
                GetQueue, SendOk, SendFails
  <2>2. QED
    BY SMTT(30), ZenonT(30), <1>8, <2>1 DEF discovery
<1>10. CASE StopDiscovery \/ CloseExporters \/ ClosePRW
  BY <1>8, <1>10 DEF StopDiscovery, CloseExporters, ClosePRW, discovery
<1>11. QED
  BY <1>3, <1>4, <1>5, <1>6, <1>7, <1>9, <1>10 DEF ShardNext, ShardStep

\* Whatever the endpoints, their virtual nodes (also where they collide) and the
\* hash of a key: an update of the ring (HashRing.UpdateEndpoints, from a notice
\* however late) moves the key only away from an endpoint that is gone or to one
\* that is new.
THEOREM MinimalMovesAlways == ShardSpec => MinimalMoves
<1> DEFINE Moves(hash) ==
              LET before == GetEndpoint(nodes, ring, hash)
                  after == GetEndpoint(nodes, ring', hash)
              IN  before # after => before \notin ring' \/ after \notin ring
<1>1. RingOk /\ [ShardNext]_shardVars => [ring' # ring => \A hash \in Hashes : Moves(hash)]_shardVars
  <2> SUFFICES ASSUME RingOk, ShardNext, NEW hash \in Hashes PROVE Moves(hash)
    BY Zenon
  <2>1. RingOk'
    BY RingNext, AreNumbers
  <2>2. Ring(nodes, ring) /\ Ring(nodes, ring')
    BY ZenonT(30), <2>1, AreNumbers DEF RingOk, Ring, Numbers, Nodes, NoEndpoint, ShardNext, fixed
  <2>3. hash \in Nat
    BY AreNumbers DEF Numbers
  <2>4. QED
    BY <2>2, <2>3, MovesAre
<1>2. RingOk /\ [ShardNext]_shardVars => RingOk'
  BY RingNext, AreNumbers
<1>3. QED
  BY <1>1, RingInit, <1>2, PTL DEF ShardSpec, MinimalMoves

-----------------------------------------------------------------------------
(* The exporters *)

\* an open exporter is in the map, under a number that is not that of none
MapOk ==
    /\ IsFiniteSet(open) /\ DOMAIN exporters = Slots
    /\ \A x \in open : x[1] \in Slots /\ x[2] # 0 /\ exporters[x[1]] = x[2]

\* the numbers that a function takes on a finite set
LEMMA ImageFinite ==
    ASSUME NEW S, IsFiniteSet(S), NEW f
    PROVE  IsFiniteSet({f[x] : x \in S})
<1> DEFINE T == {f[x] : x \in S}
           g == [x \in S |-> f[x]]
<1>1. g \in Surjection(S, T)
  BY DEF Surjection
<1>2. QED
  BY <1>1, FS_Surjection, Zenon

\* among one more number than there are elements one is not among these
LEMMA FreshIs ==
    ASSUME NEW used, IsFiniteSet(used)
    PROVE  Min(1..(1 + Cardinality(used)) \ used) \in Nat \ {0}
<1> DEFINE k == 1 + Cardinality(used)
           free == (1..k) \ used
<1>1. Cardinality(used) \in Nat
  BY FS_CardinalityType
<1>2. IsFiniteSet(1..k) /\ Cardinality(1..k) = k
  BY <1>1, FS_Interval
<1>3. free # {}
  <2> SUFFICES ASSUME 1..k \subseteq used PROVE FALSE
    OBVIOUS
  <2>1. Cardinality(1..k) <= Cardinality(used)
    BY ZenonT(30), FS_Subset
  <2>2. QED
    BY <1>1, <1>2, <2>1
<1>4. free \subseteq Nat /\ 0 \notin free
  BY <1>1
<1> HIDE DEF free
<1>5. Min(free) \in free
  BY ZenonT(30), <1>3, <1>4, MinIs
<1>6. QED
  BY <1>4, <1>5 DEF free

LEMMA MapNew ==
    ASSUME IsFiniteSet(Calls), MapOk, NEW c \in Calls, NEW e \in Slots, exporters[e] = 0, New(c, e)
    PROVE  MapOk'
<1> DEFINE some == {uses[d][e] : d \in Calls}
           seconds == {x[2] : x \in open}
           used == {exporters[e], queues[e]} \cup some \cup seconds
           i == Fresh(e)
<1>1. IsFiniteSet(some)
  <2> DEFINE f == [d \in Calls |-> uses[d][e]]
  <2>1. some = {f[d] : d \in Calls}
    OBVIOUS
  <2> HIDE DEF f
  <2>2. QED
    BY ZenonT(30), <2>1, ImageFinite
<1>2. IsFiniteSet(seconds)
  <2> DEFINE f == [x \in open |-> x[2]]
  <2>1. seconds = {f[x] : x \in open}
    OBVIOUS
  <2> HIDE DEF f
  <2>2. IsFiniteSet(open)
    BY DEF MapOk
  <2>3. IsFiniteSet({f[x] : x \in open})
    BY <2>2, ImageFinite, Zenon
  <2>4. QED
    BY <2>1, <2>3, Zenon
<1>3. i = Min(1..(1 + Cardinality(used)) \ used)
  BY Zenon DEF Fresh
<1> HIDE DEF some, seconds
<1>4. IsFiniteSet(used)
  <2>1. used = ((some \cup seconds) \cup {exporters[e]}) \cup {queues[e]}
    OBVIOUS
  <2>2. IsFiniteSet(some \cup seconds)
    BY ZenonT(30), <1>1, <1>2, FS_Union
  <2>3. QED
    BY ZenonT(30), <2>1, <2>2, FS_AddElement
<1> HIDE DEF used
<1>5. i # 0
  BY <1>3, <1>4, FreshIs
<1>6. exporters' = [exporters EXCEPT ![e] = i] /\ open' = open \cup {<<e, i>>}
  BY DEF New
<1> HIDE DEF i
<1>7. IsFiniteSet(open')
  BY ZenonT(30), <1>6, FS_AddElement DEF MapOk
<1>8. \A x \in open : x[1] # e
  BY DEF MapOk
<1>9. QED
  BY <1>5, <1>6, <1>7, <1>8 DEF MapOk

LEMMA MapNext ==
    ASSUME IsFiniteSet(Calls), MapOk, [ShardNext]_shardVars
    PROVE  MapOk'
<1>1. ASSUME UNCHANGED <<exporters, open>> PROVE MapOk'
  BY <1>1 DEF MapOk
<1>2. ASSUME NEW eps, CloseStale(eps) PROVE MapOk'
  <2>1. /\ open' = {x \in open : x[1] \notin Stale(eps)}
        /\ exporters' = [e \in Slots |-> IF e \in Stale(eps) THEN 0 ELSE exporters[e]]
    BY <1>2 DEF CloseStale
  <2>2. IsFiniteSet(open')
    BY <2>1, FS_Subset DEF MapOk
  <2>3. QED
    BY <2>1, <2>2 DEF MapOk
<1>3. ASSUME open' = {}, exporters' = [e \in Slots |-> 0] \/ exporters' = exporters PROVE MapOk'
  BY <1>3, FS_EmptySet DEF MapOk
<1>4. ASSUME NEW c \in Calls, NEW e \in Slots, Create(c, e) PROVE MapOk'
  BY <1>1, <1>4, MapNew DEF Create
<1>5. ASSUME NEW c \in Calls, NEW e \in Slots, Serve(c, e) PROVE MapOk'
  <2>1. CASE Create(c, e)
    BY <1>4, <2>1
  <2>2. CASE ~Create(c, e)
    <3>1. UNCHANGED <<exporters, open>>
      BY <1>5, <2>2 DEF Serve, Acquire, Get, CreateFails, GetQueue, SendOk, SendFails, maps
    <3>2. QED
      BY <1>1, <3>1
  <2>3. QED
    BY <2>1, <2>2
<1>6. ASSUME NEW c \in Calls, Export(c) PROVE MapOk'
  <2>1. CASE \E e \in Slots : Serve(c, e)
    BY <1>5, <2>1
  <2>2. CASE ~\E e \in Slots : Serve(c, e)
    <3>1. UNCHANGED maps
      BY <1>6, <2>2 DEF Export, SplitNothing, Split, BuildKey, Route, Launch, Join
    <3>2. QED
      BY <1>1, <3>1 DEF maps
  <2>3. QED
    BY <2>1, <2>2
<1>7. ASSUME NEW n \in notices, NoticeRing(n) \/ NoticeCleanup(n) \/ NoticePRW(n) PROVE MapOk'
  <2>1. CASE NoticeRing(n)
    BY <1>1, <2>1 DEF NoticeRing, maps
  <2>2. CASE NoticeCleanup(n)
    BY <1>2, <2>2 DEF NoticeCleanup
  <2>3. CASE NoticePRW(n)
    BY <1>1, <1>2, <2>3 DEF NoticePRW, maps
  <2>4. QED
    BY <1>7, <2>1, <2>2, <2>3
<1>8. CASE DNSChanges \/ Refresh \/ StopDiscovery
  BY <1>1, <1>8 DEF DNSChanges, Refresh, StopDiscovery, maps
<1>9. CASE CloseExporters \/ ClosePRW
  BY <1>3, <1>9 DEF CloseExporters, ClosePRW
<1>10. CASE UNCHANGED shardVars
  BY <1>1, <1>10 DEF shardVars, maps
<1>11. QED
  BY <1>6, <1>7, <1>8, <1>9, <1>10 DEF ShardNext, ShardStep

\* However many calls create exporters for an endpoint at once, and whatever
\* cleanups of late notices and the close come between (getOrCreateExporter,
\* onEndpointsChanged, Close): an exporter that is open is the one in the map,
\* so that no endpoint has two and Close finds every one made before it.
THEOREM OpenIsInMapAlways == ShardSpec => []OpenIsInMap
<1>1. ShardInit => MapOk
  BY FS_EmptySet DEF ShardInit, MapOk
<1>2. MapOk => OpenIsInMap
  BY DEF MapOk, OpenIsInMap
<1>3. MapOk /\ [ShardNext]_shardVars => MapOk'
  BY MapNext, CallsAssumption
<1>4. QED
  BY <1>1, <1>2, <1>3, PTL DEF ShardSpec

-----------------------------------------------------------------------------
(* The calls *)

Ended == {"none", "ok", "err"}

\* what a call has routed is in a shard, and it has goroutines only while it waits for them
One(k, me, jobs, len) ==
    /\ DOMAIN me = {"at", "i", "shards"} /\ DOMAIN me.shards = Slots /\ DOMAIN jobs = Slots
    /\ me.i \in Nat \ {0}
    /\ k = "otlp" => \A j \in 1..(me.i - 1) : \E e \in Slots : j \in me.shards[e]
    /\ me.at \in {"launch", "join"} \/ (me.at = "nil" /\ k = "otlp") => me.i > len
    /\ me.at # "join" => \A e \in Slots : jobs[e] \in Ended
    /\ me.at = "idle" => \A e \in Slots : jobs[e] = "none"
    /\ me.at = "nil" => \A e \in Slots : jobs[e] \in {"none", "ok"}

CallOk ==
    /\ kind \in {"otlp", "prw"}
    /\ call = [c \in Calls |-> call[c]] /\ job = [c \in Calls |-> job[c]]
    /\ \A c \in Calls : One(kind, call[c], job[c], Len(Points[c]))

\* a step of call c only
LEMMA CallStep ==
    ASSUME CallOk, kind' = kind, NEW c \in Calls, NEW me, NEW jobs,
           call' = [call EXCEPT ![c] = me], job' = [job EXCEPT ![c] = jobs], One(kind, me, jobs, Len(Points[c]))
    PROVE  CallOk'
<1>1. /\ call' = [d \in Calls |-> call'[d]] /\ call'[c] = me /\ \A d \in Calls : d # c => call'[d] = call[d]
      /\ job' = [d \in Calls |-> job'[d]] /\ job'[c] = jobs /\ \A d \in Calls : d # c => job'[d] = job[d]
  BY ZenonT(30) DEF CallOk
<1>2. \A d \in Calls : One(kind, call'[d], job'[d], Len(Points[d]))
  BY <1>1, Zenon DEF CallOk
<1>3. QED
  BY <1>1, <1>2 DEF CallOk

\* the goroutine of a shard only changes where it is
LEMMA ServeStep ==
    ASSUME CallOk, kind' = kind, NEW c \in Calls, NEW e \in Slots, NEW where, job[c][e] \notin Ended,
           Goes(c, e, where), call' = call
    PROVE  CallOk'
<1> DEFINE jobs == [job[c] EXCEPT ![e] = where]
<1>1. One(kind, call[c], job[c], Len(Points[c])) /\ DOMAIN call = Calls
  BY DEF CallOk
<1>2. call[c].at = "join"
  BY <1>1 DEF One
<1>3. DOMAIN jobs = Slots
  BY <1>1 DEF One
<1>4. job' = [job EXCEPT ![c] = jobs]
  BY DEF Goes, CallOk
<1> HIDE DEF jobs
<1>5. One(kind, call[c], jobs, Len(Points[c]))
  BY <1>1, <1>2, <1>3 DEF One
<1>6. call' = [call EXCEPT ![c] = call[c]]
  BY DEF CallOk
<1>7. QED
  BY ZenonT(30), <1>4, <1>5, <1>6, CallStep

\* routing a point puts it into one shard more
LEMMA RouteStep ==
    ASSUME Numbers, CallOk, RingOk, kind' = kind, NEW c \in Calls, Route(c), Len(Points[c]) \in Nat
    PROVE  CallOk'
<1>1. PICK key \in Keys(c) :
         call' = [call EXCEPT
            ![c].at = IF call[c].i < Len(Points[c]) THEN NextPoint ELSE "launch",
            ![c].i = @ + 1,
            ![c].shards[Shard(key)] =
                IF kind = "prw" /\ Shard(key) = NoEndpoint THEN @ ELSE @ \cup {call[c].i}]
  BY ZenonT(30) DEF Route
<1>2. job' = job /\ call[c].at = "route"
  BY DEF Route
<1>3. One(kind, call[c], job[c], Len(Points[c])) /\ DOMAIN call = Calls
  BY DEF CallOk
<1> DEFINE e == Shard(key)
           old == call[c].shards
           new == [old EXCEPT ![e] = IF kind = "prw" /\ e = NoEndpoint THEN @ ELSE @ \cup {call[c].i}]
           next == IF call[c].i < Len(Points[c]) THEN NextPoint ELSE "launch"
           me == [at |-> next, i |-> call[c].i + 1, shards |-> new]
<1>4. e \in Slots
  <2>1. Ring(nodes, ring)
    BY DEF RingOk, Ring, Numbers, Nodes, NoEndpoint
  <2>2. GetEndpoint(nodes, ring, KeyHash(key)) \in ring \cup {NoEndpoint}
    BY <2>1, GetIsIn
  <2>3. QED
    BY <2>2 DEF Shard, Slots, RingOk, Nodes
<1>5. DOMAIN call[c] = {"at", "i", "shards"} /\ DOMAIN old = Slots /\ call[c].i \in Nat \ {0} /\ DOMAIN job[c] = Slots
  BY <1>3 DEF One
<1>6. call' = [call EXCEPT ![c] = me]
  <2> HIDE DEF next, e
  <2>1. call' = [call EXCEPT ![c].at = next, ![c].i = @ + 1,
                             ![c].shards[e] = IF kind = "prw" /\ e = NoEndpoint THEN @ ELSE @ \cup {call[c].i}]
    BY <1>1 DEF next, e
  <2>2. QED
    BY <1>3, <1>5, <2>1
<1> HIDE DEF e, next
<1>7. /\ DOMAIN new = Slots
      /\ \A f \in Slots : f # e => new[f] = old[f]
      /\ old[e] \subseteq new[e]
      /\ kind = "otlp" => call[c].i \in new[e]
  BY <1>4, <1>5
<1> HIDE DEF new, old
<1>8. kind = "otlp" => \A j \in 1..call[c].i : \E f \in Slots : j \in new[f]
  <2> SUFFICES ASSUME kind = "otlp", NEW j \in 1..call[c].i PROVE \E f \in Slots : j \in new[f]
    OBVIOUS
  <2>1. CASE j = call[c].i
    BY <1>4, <1>7, <2>1
  <2>2. CASE j # call[c].i
    <3>1. j \in 1..(call[c].i - 1)
      BY <1>5, <2>2
    <3>2. PICK f \in Slots : j \in old[f]
      BY <1>3, <3>1 DEF One, old
    <3>3. QED
      BY <1>7, <3>2
  <2>3. QED
    BY <2>1, <2>2
<1>9. next \in {"point", "route", "launch"} /\ (next = "launch" => call[c].i + 1 > Len(Points[c]))
  BY <1>5 DEF next, NextPoint
<1>10. me.at = next /\ me.i = call[c].i + 1 /\ me.shards = new /\ DOMAIN me = {"at", "i", "shards"}
  OBVIOUS
<1> HIDE DEF me
<1>11. /\ me.i \in Nat \ {0} /\ me.i - 1 = call[c].i
       /\ \A f \in Slots : job[c][f] \in Ended
  BY <1>2, <1>3, <1>5, <1>10 DEF One
<1>12. One(kind, me, job[c], Len(Points[c]))
  BY <1>5, <1>7, <1>8, <1>9, <1>10, <1>11 DEF One
<1>13. job' = [job EXCEPT ![c] = job[c]]
  BY <1>2 DEF CallOk
<1>14. QED
  BY ZenonT(30), <1>6, <1>12, <1>13, CallStep

\* the other steps of a call
LEMMA ReturnStep ==
    ASSUME CallOk, kind' = kind, NEW c \in Calls, NEW result, Returns(c, result),
           NEW jobs, job' = [job EXCEPT ![c] = jobs], DOMAIN jobs = Slots,
           result \in {"launch", "join"} \/ (result = "nil" /\ kind = "otlp") =>  call[c].at \in {"launch", "join"},
           result # "join" => \A e \in Slots : jobs[e] \in Ended,
           result # "idle",
           result = "nil" => \A e \in Slots : jobs[e] \in {"none", "ok"}
    PROVE  CallOk'
<1> DEFINE me == [call[c] EXCEPT !.at = result]
<1>1. One(kind, call[c], job[c], Len(Points[c])) /\ DOMAIN call = Calls
  BY DEF CallOk
<1>2. DOMAIN call[c] = {"at", "i", "shards"}
  BY <1>1 DEF One
<1>3. DOMAIN me = {"at", "i", "shards"} /\ me.at = result /\ me.i = call[c].i /\ me.shards = call[c].shards
  BY <1>2
<1>4. call' = [call EXCEPT ![c] = me]
  BY <1>1 DEF Returns
<1> HIDE DEF me
<1>5. One(kind, me, jobs, Len(Points[c]))
  BY <1>1, <1>3 DEF One
<1>6. QED
  BY ZenonT(30), <1>4, <1>5, CallStep

LEMMA CallNext ==
    ASSUME Numbers, \A c \in Calls : Len(Points[c]) \in Nat, CallOk, RingOk, [ShardNext]_shardVars
    PROVE  CallOk'
<1>1. kind' = kind
  BY DEF ShardNext, fixed, shardVars
<1>2. ASSUME UNCHANGED <<call, job>> PROVE CallOk'
  BY <1>1, <1>2 DEF CallOk
<1>3. ASSUME NEW c \in Calls, Export(c) PROVE CallOk'
  <2>1. /\ One(kind, call[c], job[c], Len(Points[c]))
        /\ job = [job EXCEPT ![c] = job[c]] /\ kind \in {"otlp", "prw"}
    BY DEF CallOk
  <2>2. /\ DOMAIN job[c] = Slots
        /\ call[c].at # "join" => \A e \in Slots : job[c][e] \in Ended
        /\ call[c].at = "idle" => \A e \in Slots : job[c][e] = "none"
    BY <2>1 DEF One
  <2>3. CASE SplitNothing(c)
    <3> DEFINE result == IF kind = "otlp" THEN "error" ELSE "nil"
    <3>1. call[c].at = "idle" /\ Returns(c, result) /\ job' = job
      BY <2>3 DEF SplitNothing
    <3>2. result \in {"error", "nil"} /\ ~(result = "nil" /\ kind = "otlp")
      OBVIOUS
    <3> HIDE DEF result
    <3>3. QED
      BY <1>1, <2>1, <2>2, <3>1, <3>2, ReturnStep
  <2>4. CASE Split(c)
    <3>1. call[c].at = "idle" /\ Returns(c, NextPoint) /\ job' = job /\ NextPoint \in {"point", "route"}
      BY <2>4 DEF Split, NextPoint
    <3>2. QED
      BY <1>1, <2>1, <2>2, <3>1, ReturnStep
  <2>5. CASE BuildKey(c)
    <3>1. call[c].at = "point" /\ Returns(c, "route") /\ job' = job
      BY <2>5 DEF BuildKey
    <3>2. QED
      BY <1>1, <2>1, <2>2, <3>1, ReturnStep
  <2>6. CASE Route(c)
    BY <1>1, <2>6, RouteStep
  <2>7. CASE Launch(c)
    <3> DEFINE jobs == [e \in Slots |-> IF call[c].shards[e] # {} THEN "wait" ELSE "none"]
    <3>1. call[c].at = "launch" /\ Returns(c, "join") /\ job' = [job EXCEPT ![c] = jobs] /\ DOMAIN jobs = Slots
      BY <2>7 DEF Launch
    <3> HIDE DEF jobs
    <3>2. "join" # "idle" /\ "join" # "nil" /\ call[c].at \in {"launch", "join"}
      BY <3>1
    <3>3. QED
      BY <1>1, <3>1, <3>2, ReturnStep, Zenon
  <2>8. CASE Join(c)
    <3> DEFINE result == IF \E e \in Slots : job[c][e] = "err" THEN "error" ELSE "nil"
    <3>1. /\ call[c].at = "join" /\ Returns(c, result) /\ job' = job
          /\ \A e \in Slots : job[c][e] \in Ended
      BY <2>8 DEF Join, Ended
    <3>2. result \in {"error", "nil"} /\ (result = "nil" => \A e \in Slots : job[c][e] \in {"none", "ok"})
      BY <3>1 DEF Ended
    <3> HIDE DEF result
    <3>3. QED
      BY <1>1, <2>1, <2>2, <3>1, <3>2, ReturnStep
  <2>9. ASSUME NEW e \in Slots, Serve(c, e) PROVE CallOk'
    <3>1. call' = call /\ job[c][e] \in {"wait", "get", "create", "queue", "send"}
      BY <2>9 DEF Serve, Acquire, Get, Create, CreateFails, GetQueue, SendOk, SendFails
    <3>2. job[c][e] \notin Ended
      BY <3>1 DEF Ended
    <3>3. ASSUME NEW where, Goes(c, e, where) PROVE CallOk'
      BY <1>1, <3>1, <3>2, <3>3, ServeStep
    <3>4. \/ Goes(c, e, "get") \/ Goes(c, e, Ready) \/ Goes(c, e, "create") \/ Goes(c, e, "err")
          \/ Goes(c, e, "send") \/ Goes(c, e, "ok")
      BY <2>9, Zenon DEF Serve, Acquire, Get, Create, CreateFails, GetQueue, SendOk, SendFails
    <3>5. QED
      BY <3>3, <3>4, Zenon
  <2>10. QED
    BY <1>3, <2>3, <2>4, <2>5, <2>6, <2>7, <2>8, <2>9 DEF Export
<1>4. ASSUME NEW n \in notices, NoticeRing(n) \/ NoticeCleanup(n) \/ NoticePRW(n) PROVE CallOk'
  BY <1>2, <1>4 DEF NoticeRing, NoticeCleanup, NoticePRW, callVars
<1>5. CASE DNSChanges \/ Refresh \/ StopDiscovery \/ CloseExporters \/ ClosePRW
  BY <1>2, <1>5 DEF DNSChanges, Refresh, StopDiscovery, CloseExporters, ClosePRW, callVars
<1>6. CASE UNCHANGED shardVars
  BY <1>2, <1>6 DEF shardVars, callVars
<1>7. QED
  BY <1>3, <1>4, <1>5, <1>6 DEF ShardNext, ShardStep

\* A call of Export that returns nil had every goroutine succeed, and with OTLP
\* every point of the call in the shard of one of them, whatever happened to the
\* ring, the exporters and the key builder between the points.
THEOREM NilMeansSentAlways == ShardSpec => []NilMeansSent
<1>1. ShardInit => CallOk
  <2> SUFFICES ASSUME ShardInit PROVE CallOk
    OBVIOUS
  <2> DEFINE none == [e \in Slots |-> "none"]
             me == [at |-> "idle", i |-> 1, shards |-> [e \in Slots |-> {}]]
  <2>1. call = [c \in Calls |-> me] /\ job = [c \in Calls |-> none] /\ kind \in {"otlp", "prw"}
    BY DEF ShardInit
  <2>2. ASSUME NEW len PROVE One(kind, me, none, len)
    BY DEF One, Ended
  <2> HIDE DEF none, me
  <2>3. QED
    BY <2>1, <2>2 DEF CallOk
<1>2. CallOk => NilMeansSent
  <2> SUFFICES ASSUME CallOk, NEW c \in Calls, call[c].at = "nil"
               PROVE  /\ \A e \in Slots : job[c][e] \in {"none", "ok"}
                      /\ kind = "otlp" => \A i \in DOMAIN Points[c] : \E e \in Slots : i \in call[c].shards[e]
    BY Zenon DEF NilMeansSent
  <2>1. One(kind, call[c], job[c], Len(Points[c]))
    BY DEF CallOk
  <2>2. QED
    BY <2>1, CallsAssumption DEF One
<1>3. CallOk /\ RingOk /\ [ShardNext]_shardVars => CallOk'
  BY CallNext, AreNumbers, CallsAssumption
<1>4. RingOk /\ [ShardNext]_shardVars => RingOk'
  BY RingNext, AreNumbers
<1>5. QED
  BY <1>1, <1>2, <1>3, RingInit, <1>4, PTL DEF ShardSpec

=============================================================================
