------------------------------ MODULE Sharding ------------------------------
(***************************************************************************)
(* Sharded export: the discovery loop and its asynchronous notices         *)
(* (internal/sharding/discovery.go), the hash ring, the splitters with     *)
(* their key builders, and the two sharded exporters, OTLP                 *)
(* (internal/exporter/sharded.go) and remote write (prw_sharded.go).       *)
(*                                                                         *)
(* A call of Export has a sequence of data points.  The shard key of a     *)
(* point is its metric name and a label.  The OTLP key builder has one     *)
(* buffer for all calls and no lock: a key that is built while others are  *)
(* has its name and its label from any of their points.  exporters[e] is   *)
(* the number of the exporter instance that the map holds for e, 0 for     *)
(* none.                                                                   *)
(***************************************************************************)
EXTENDS Naturals, Sequences, FiniteSets, FiniteSetsExt

CONSTANTS
    Endpoints,      \* what DNS may answer: positive numbers
    Fallback,       \* the fallback endpoint, NoEndpoint if it is not used
    Calls, Points,  \* the calls of Export, and the keys of their points
    Hashes,         \* what hashes are: numbers
    KeyHash(_),     \* the hash of a shard key
    Placements,     \* the placements of virtual nodes considered
    Limit,          \* ExportConcurrency
    MaxChanges      \* bound: how often the answer of DNS changes

\* endpoints, hashes and the places of virtual nodes are numbers; 0 is no endpoint
ASSUME NumbersAssumption ==
    /\ Endpoints \subseteq Nat \ {0} /\ Fallback \in Nat
    /\ Hashes \subseteq Nat
    /\ \A placed \in Placements : \A e \in (Endpoints \cup {Fallback}) \ {0} : placed[e] \subseteq Nat

ASSUME CallsAssumption ==
    /\ IsFiniteSet(Calls)
    /\ \A c \in Calls : Len(Points[c]) \in Nat /\ DOMAIN Points[c] = 1..Len(Points[c])

-----------------------------------------------------------------------------
(* The consistent hash ring (internal/sharding/hashring.go).  An endpoint is *)
(* a positive number, in the order of the names; placed[e] is the set of     *)
(* hashes of the virtual nodes of e.                                         *)

NoEndpoint == 0

\* (mutant) the names of the virtual nodes are made from the index in the sorted list
NodesOfIndex(placed, eps, e) == placed[Cardinality({f \in eps : f <= e})]

\* the virtual nodes of e in the ring built for the endpoints eps
NodesOf(placed, eps, e) == placed[e]

Positions(placed, eps) == UNION {NodesOf(placed, eps, e) : e \in eps}

\* where virtual nodes collide the endpoint that is first in the order has the place
NodeAt(placed, eps, p) == Min({e \in eps : p \in NodesOf(placed, eps, e)})

\* the first position at or after the hash, around the end of the ring
GetEndpoint(placed, eps, hash) ==
    LET places == Positions(placed, eps)
        from == {p \in places : p >= hash}
    IN  IF places = {} THEN NoEndpoint
        ELSE NodeAt(placed, eps, IF from # {} THEN Min(from) ELSE Min(places))

-----------------------------------------------------------------------------
Slots == Endpoints \cup {NoEndpoint, Fallback}

VARIABLES
    kind,           \* "otlp" or "prw", fixed at the start
    nodes,          \* the virtual nodes; the seed of the hash is made at the start
    dns, changes,   \* the answer of the next lookup; how often it changed
    endpoints,      \* Discovery.endpoints
    notices,        \* goroutines that run onChange: what they were given, and where they are
    ring,           \* the endpoints the ring was built for
    exporters,      \* endpoint -> instance
    queues,         \* remote write: endpoint -> instance its queue sends to
    open,           \* pairs of endpoint and instance: the exporters that are not closed
    parts,            \* of a call: the points whose some were in the buffer while it built its key
    call,           \* of a call: at, the point it routes, and its shards
    job, uses,      \* of the goroutine per shard: where it is, and its exporter
    discovering, shut   \* the discovery loop runs; Close has closed the exporters

fixed == <<kind, nodes>>
discovery == <<dns, changes, endpoints, notices, discovering>>
maps == <<exporters, queues, open>>
callVars == <<parts, call, job, uses>>
shardVars == <<fixed, discovery, ring, maps, callVars, shut>>

ShardInit ==
    /\ kind \in {"otlp", "prw"} /\ nodes \in Placements
    /\ dns \in SUBSET Endpoints /\ changes = 0
    /\ endpoints = {} /\ notices = {} /\ ring = {}
    /\ exporters = [e \in Slots |-> 0] /\ queues = [e \in Slots |-> 0]
    /\ open = {}
    /\ parts = [c \in Calls |-> {}]
    /\ call = [c \in Calls |-> [at |-> "idle", i |-> 1, shards |-> [e \in Slots |-> {}]]]
    /\ job = [c \in Calls |-> [e \in Slots |-> "none"]]
    /\ uses = [c \in Calls |-> [e \in Slots |-> 0]]
    /\ discovering = TRUE /\ shut = FALSE

-----------------------------------------------------------------------------
(* Discovery *)

DNSChanges ==
    /\ changes < MaxChanges
    /\ dns' \in SUBSET Endpoints \ {dns}
    /\ changes' = changes + 1
    /\ UNCHANGED <<endpoints, notices, discovering, ring, maps, callVars, shut>>

Found == IF dns = {} /\ Fallback # NoEndpoint THEN {Fallback} ELSE dns

\* one lookup; a list that differs is handed to a goroutine of its own
Refresh ==
    /\ discovering /\ Found # endpoints
    /\ endpoints' = Found
    /\ notices' = notices \cup {[given |-> Found, number |-> changes, stage |-> "ring"]}
    /\ UNCHANGED <<dns, changes, discovering, ring, maps, callVars, shut>>

Stale(eps) == {e \in Slots : exporters[e] # 0 /\ e \notin eps}

\* close the exporters, and with remote write the queues, of endpoints that are gone
CloseStale(eps) ==
    /\ open' = {x \in open : x[1] \notin Stale(eps)}
    /\ exporters' = [e \in Slots |-> IF e \in Stale(eps) THEN 0 ELSE exporters[e]]
    /\ queues' = [e \in Slots |-> IF e \in Stale(eps) THEN 0 ELSE queues[e]]

\* onEndpointsChanged: the ring, then the exporters under the mutex
NoticeRing(n) ==
    /\ kind = "otlp" /\ n.stage = "ring"
    /\ ring' = n.given
    /\ notices' = (notices \ {n}) \cup {[n EXCEPT !.stage = "cleanup"]}
    /\ UNCHANGED <<dns, changes, endpoints, discovering, maps, callVars, shut>>

NoticeCleanup(n) ==
    /\ kind = "otlp" /\ n.stage = "cleanup"
    /\ CloseStale(n.given)
    /\ notices' = notices \ {n}
    /\ UNCHANGED <<dns, changes, endpoints, discovering, ring, callVars, shut>>

\* ... both under the mutex, and not after Close
NoticePRW(n) ==
    /\ kind = "prw"
    /\ IF shut THEN UNCHANGED <<ring, maps>>
       ELSE ring' = n.given /\ CloseStale(n.given)
    /\ notices' = notices \ {n}
    /\ UNCHANGED <<dns, changes, endpoints, discovering, callVars, shut>>

-----------------------------------------------------------------------------
(* Export: the split *)

Returns(c, result) == call' = [call EXCEPT ![c].at = result]

\* an empty ring is an error with OTLP, and nothing to do with remote write
SplitNothing(c) ==
    /\ call[c].at = "idle" /\ ring = {}
    /\ Returns(c, IF kind = "otlp" THEN "error" ELSE "nil")
    /\ UNCHANGED <<discovery, ring, maps, parts, job, uses, shut>>

\* the remote write builder has a buffer of its own
NextPoint == IF kind = "otlp" THEN "point" ELSE "route"

Split(c) ==
    /\ call[c].at = "idle" /\ ring # {}
    /\ Returns(c, NextPoint)
    /\ UNCHANGED <<discovery, ring, maps, parts, job, uses, shut>>

Point(c) == Points[c][call[c].i]

\* from here to Route the call resets, fills and reads the common buffer
BuildKey(c) ==
    LET building == {d \in Calls : call[d].at = "route"}
    IN  /\ call[c].at = "point"
        /\ parts' = [d \in Calls |->
               CASE d = c -> {Point(x) : x \in building \cup {c}}
                 [] d \in building -> parts[d] \cup {Point(c)}
                 [] OTHER -> parts[d]]
        /\ Returns(c, "route")
        /\ UNCHANGED <<discovery, ring, maps, job, uses, shut>>

\* the keys that the build may return
Keys(c) ==
    LET some == IF kind = "otlp" THEN parts[c] ELSE {Point(c)}
    IN  {<<p.name, q.label>> : p \in some, q \in some}

Shard(key) == GetEndpoint(nodes, ring, KeyHash(key))

\* remote write leaves out a point that has no endpoint, OTLP gives it to the endpoint ""
Route(c) ==
    /\ call[c].at = "route"
    /\ \E key \in Keys(c) :
         call' = [call EXCEPT
            ![c].at = IF call[c].i < Len(Points[c]) THEN NextPoint ELSE "launch",
            ![c].i = @ + 1,
            ![c].shards[Shard(key)] =
                IF kind = "prw" /\ Shard(key) = NoEndpoint THEN @ ELSE @ \cup {call[c].i}]
    /\ parts' = [parts EXCEPT ![c] = {}]
    /\ UNCHANGED <<discovery, ring, maps, job, uses, shut>>

\* one goroutine per shard
Launch(c) ==
    /\ call[c].at = "launch"
    /\ job' = [job EXCEPT ![c] = [e \in Slots |-> IF call[c].shards[e] # {} THEN "wait" ELSE "none"]]
    /\ Returns(c, "join")
    /\ UNCHANGED <<discovery, ring, maps, parts, uses, shut>>

\* (mutant) only the first error counts if nothing else was sent
JoinAnyOk(c) ==
    /\ call[c].at = "join" /\ \A e \in Slots : job[c][e] \in {"none", "ok", "err"}
    /\ Returns(c, IF \E e \in Slots : job[c][e] = "err" /\ \A f \in Slots : job[c][f] # "ok" THEN "error" ELSE "nil")
    /\ UNCHANGED <<discovery, ring, maps, parts, job, uses, shut>>

\* wait for all of them; any error is the answer
Join(c) ==
    /\ call[c].at = "join" /\ \A e \in Slots : job[c][e] \in {"none", "ok", "err"}
    /\ Returns(c, IF \E e \in Slots : job[c][e] = "err" THEN "error" ELSE "nil")
    /\ UNCHANGED <<discovery, ring, maps, parts, job, uses, shut>>

-----------------------------------------------------------------------------
(* Export: the goroutine of one shard *)

Goes(c, e, where) == job' = [job EXCEPT ![c][e] = where]

InUse == Cardinality({x \in Calls \X Slots : job[x[1]][x[2]] \in {"get", "create", "queue", "send"}})

Acquire(c, e) ==
    /\ job[c][e] = "wait" /\ InUse < Limit
    /\ Goes(c, e, "get")
    /\ UNCHANGED <<discovery, ring, maps, parts, call, uses, shut>>

Ready == IF kind = "prw" THEN "queue" ELSE "send"

\* getOrCreateExporter: the read under the read lock
Get(c, e) ==
    /\ job[c][e] = "get"
    /\ IF exporters[e] # 0
       THEN Goes(c, e, Ready) /\ uses' = [uses EXCEPT ![c][e] = exporters[e]]
       ELSE Goes(c, e, "create") /\ UNCHANGED uses
    /\ UNCHANGED <<discovery, ring, maps, parts, call, shut>>

\* a new instance, other than those somebody still refers to
Fresh(e) ==
    LET used == {exporters[e], queues[e]} \cup {uses[d][e] : d \in Calls} \cup {x[2] : x \in open}
    IN  Min(1..(1 + Cardinality(used)) \ used)

New(c, e) ==
    /\ exporters' = [exporters EXCEPT ![e] = Fresh(e)]
    /\ open' = open \cup {<<e, Fresh(e)>>}
    /\ uses' = [uses EXCEPT ![c][e] = Fresh(e)]

\* (mutant) no second look under the write lock
CreateAgain(c, e) ==
    /\ job[c][e] = "create"
    /\ New(c, e)
    /\ Goes(c, e, Ready)
    /\ UNCHANGED <<discovery, ring, queues, parts, call, shut>>

\* ... and the second look and the creation under the write lock
Create(c, e) ==
    /\ job[c][e] = "create"
    /\ IF exporters[e] # 0
       THEN uses' = [uses EXCEPT ![c][e] = exporters[e]] /\ UNCHANGED <<exporters, open>>
       ELSE New(c, e)
    /\ Goes(c, e, Ready)
    /\ UNCHANGED <<discovery, ring, queues, parts, call, shut>>

CreateFails(c, e) ==
    /\ job[c][e] = "create" /\ exporters[e] = 0
    /\ Goes(c, e, "err")
    /\ UNCHANGED <<discovery, ring, maps, parts, call, uses, shut>>

\* getOrCreateQueue: the queue of an endpoint keeps the exporter it was made with;
\* without one (none is configured, or it cannot be made) the exporter is called itself
GetQueue(c, e) ==
    /\ job[c][e] = "queue"
    /\ \/ queues' = [queues EXCEPT ![e] = IF @ = 0 THEN uses[c][e] ELSE @]
       \/ queues[e] = 0 /\ UNCHANGED queues
    /\ Goes(c, e, "send")
    /\ UNCHANGED <<discovery, ring, exporters, open, parts, call, uses, shut>>

\* the exporter of the endpoint, or its queue, takes the shard, also that of ""; or it fails
SendOk(c, e) ==
    /\ job[c][e] = "send"
    /\ Goes(c, e, "ok")
    /\ uses' = [uses EXCEPT ![c][e] = 0]
    /\ UNCHANGED <<discovery, ring, maps, parts, call, shut>>

SendFails(c, e) ==
    /\ job[c][e] = "send"
    /\ Goes(c, e, "err")
    /\ uses' = [uses EXCEPT ![c][e] = 0]
    /\ UNCHANGED <<discovery, ring, maps, parts, call, shut>>

-----------------------------------------------------------------------------
(* Close: discovery first, then the exporters; with remote write in one go *)

StopDiscovery ==
    /\ kind = "otlp" /\ discovering
    /\ discovering' = FALSE
    /\ UNCHANGED <<dns, changes, endpoints, notices, ring, maps, callVars, shut>>

CloseExporters ==
    /\ kind = "otlp" /\ ~discovering /\ ~shut
    /\ shut' = TRUE
    /\ open' = {}
    /\ exporters' = [e \in Slots |-> 0]
    /\ UNCHANGED <<discovery, ring, queues, callVars>>

ClosePRW ==
    /\ kind = "prw" /\ ~shut
    /\ shut' = TRUE /\ discovering' = FALSE
    /\ open' = {}
    /\ UNCHANGED <<dns, changes, endpoints, notices, ring, exporters, queues, callVars>>

-----------------------------------------------------------------------------
Serve(c, e) ==
    \/ Acquire(c, e) \/ Get(c, e) \/ Create(c, e) \/ CreateFails(c, e) \/ GetQueue(c, e)
    \/ SendOk(c, e) \/ SendFails(c, e)

Export(c) ==
    \/ SplitNothing(c) \/ Split(c) \/ BuildKey(c) \/ Route(c) \/ Launch(c) \/ Join(c)
    \/ \E e \in Slots : Serve(c, e)

ShardStep ==
    \/ DNSChanges \/ Refresh
    \/ \E n \in notices : NoticeRing(n) \/ NoticeCleanup(n) \/ NoticePRW(n)
    \/ \E c \in Calls : Export(c)
    \/ StopDiscovery \/ CloseExporters \/ ClosePRW

ShardNext == ShardStep /\ UNCHANGED fixed

ShardSpec == ShardInit /\ [][ShardNext]_shardVars

-----------------------------------------------------------------------------
\* An update of the ring moves a key only from an endpoint that is gone or to one
\* that is new, whatever the hashes are, also where virtual nodes collide.
MinimalMoves ==
    [][ring' # ring => \A hash \in Hashes :
          LET before == GetEndpoint(nodes, ring, hash)
              after == GetEndpoint(nodes, ring', hash)
          IN  before # after => before \notin ring' \/ after \notin ring]_shardVars

\* An exporter that is open is the one in the map: the queue directory of an
\* endpoint never has two users, and Close finds every exporter made before it,
\* whatever cleanups and creations overlap.
OpenIsInMap == \A x \in open : exporters[x[1]] = x[2]

\* Export returns nil only if every point was in a shard that an exporter or its
\* queue took, also when the ring changes or empties during the split.  (Remote write leaves out
\* points that have no endpoint, and returns nil for them.)
NilMeansSent ==
    \A c \in Calls : call[c].at = "nil" =>
        /\ \A e \in Slots : job[c][e] \in {"none", "ok"}
        /\ kind = "otlp" => \A i \in DOMAIN Points[c] : \E e \in Slots : i \in call[c].shards[e]

\* Points with the same key go to the same endpoint while the ring is the same.
\* (A single discovery result, no fallback: the ring changes at most once.)
SameKeySameEndpoint ==
    \A c, d \in Calls : \A i \in DOMAIN Points[c], j \in DOMAIN Points[d] : \A e, f \in Slots :
        /\ i \in call[c].shards[e] /\ j \in call[d].shards[f]
        /\ Points[c][i] = Points[d][j]
        => e = f
=============================================================================
