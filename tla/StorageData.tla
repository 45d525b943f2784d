---------------------------- MODULE StorageData -----------------------------
(***************************************************************************)
(* The data operations of the storage, without its lock: what Store makes  *)
(* of the maps of the last and the previous scrape and what the queries    *)
(* compute from them (pkg/storage/node.go, pod.go, storage.go).            *)
(*                                                                         *)
(* A Go map is a total function into points or NoPoint.  The decoder emits *)
(* no pod without containers and Store keeps no empty previous pod, so a   *)
(* pod is a key of a map exactly when one of its containers has a point.   *)
(***************************************************************************)
EXTENDS Points, FiniteSets

CONSTANTS
    Nodes, Pods, Containers,  \* names
    Resolution,               \* the scrape period, --metric-resolution
    FreshMin,                 \* freshContainerMinMetricsResolution
    NotServed                 \* the answer leaves the name out

ASSUME NamesAssumption == IsFiniteSet(Nodes) /\ IsFiniteSet(Pods) /\ IsFiniteSet(Containers)

ASSUME ResolutionAssumption == Resolution \in Nat /\ FreshMin \in Nat

NodeMap == [Nodes -> OptPoint]
PodMetricsPoint == [Containers -> OptPoint]
PodMap == [Pods -> PodMetricsPoint]

MetricsBatch == [Nodes : NodeMap, Pods : PodMap]
NodeStorage == [last : NodeMap, prev : NodeMap]
PodStorage == [last : PodMap, prev : PodMap]

NoNodes == [n \in Nodes |-> NoPoint]
NoContainers == [c \in Containers |-> NoPoint]
NoPods == [p \in Pods |-> NoContainers]

Found(pod) == \E c \in Containers : pod[c] # NoPoint

(* m[key] on a Go map: the zero value when the key is absent. *)
MapRead(point) == IF point = NoPoint THEN ZeroPoint ELSE point

-----------------------------------------------------------------------------
(* Mutant: an old previous point is kept without comparing timestamps. *)
PrevNodeUnordered(last, prev, new) ==
    IF last = NoPoint THEN NoPoint
    ELSE IF new.Timestamp > last.Timestamp THEN last
    ELSE prev

(* nodeStorage.Store: the point kept as previous for a reported node.       *)
PrevNode(last, prev, new) ==
    IF last = NoPoint THEN NoPoint
    ELSE IF new.Timestamp > last.Timestamp THEN last
    ELSE IF prev # NoPoint /\ prev.Timestamp < new.Timestamp THEN prev
    ELSE NoPoint

nodeStore(s, batch) ==
    [last |-> batch,
     prev |-> [n \in Nodes |-> IF batch[n] = NoPoint THEN NoPoint
                               ELSE PrevNode(s.last[n], s.prev[n], batch[n])]]

(* podStorage.Store.  A container that started within the scrape period,    *)
(* but not too recently, needs no earlier point: its counter was 0 when it  *)
(* started.                                                                 *)
IsFresh(new) ==
    /\ new.StartTime < new.Timestamp
    /\ Sub(new.Timestamp, new.StartTime) < Resolution
    /\ Sub(new.Timestamp, new.StartTime) >= FreshMin

AtStart(new) == [new EXCEPT !.Timestamp = new.StartTime, !.CumulativeCpuUsed = 0]

(* Mutant: restarts are not looked for. *)
PrevContainerRestarted(last, prev, podInPrev, new) ==
    IF IsFresh(new) THEN AtStart(new)
    ELSE IF last = NoPoint THEN NoPoint
    ELSE IF new.Timestamp > last.Timestamp THEN last
    ELSE IF podInPrev /\ MapRead(prev).Timestamp < new.Timestamp THEN MapRead(prev)
    ELSE NoPoint

(* The point kept as previous for a reported container, given its last and  *)
(* previous points and whether prev has its POD: prev is then read without  *)
(* asking whether it has the container.                                     *)
PrevContainer(last, prev, podInPrev, new) ==
    IF IsFresh(new) THEN AtStart(new)
    ELSE IF last = NoPoint THEN NoPoint
    ELSE IF ~(new.StartTime < last.Timestamp) THEN NoPoint
    ELSE IF new.Timestamp > last.Timestamp THEN last
    ELSE IF podInPrev /\ MapRead(prev).Timestamp < new.Timestamp THEN MapRead(prev)
    ELSE NoPoint

podStore(s, batch) ==
    [last |-> batch,
     prev |-> [p \in Pods |-> [c \in Containers |->
                 IF batch[p][c] = NoPoint THEN NoPoint
                 ELSE PrevContainer(s.last[p][c], s.prev[p][c], Found(s.prev[p]), batch[p][c])]]]

(* The two values of the gauge pointsStored. *)
NodePoints(s) == Cardinality({n \in Nodes : s.prev[n] # NoPoint})
ContainerPoints(s) ==
    Cardinality({pc \in Pods \X Containers : s.prev[pc[1]][pc[2]] # NoPoint})

-----------------------------------------------------------------------------
(* nodeStorage.GetMetrics for one node. *)
NodeServed(s, n) ==
    /\ s.last[n] # NoPoint
    /\ s.prev[n] # NoPoint
    /\ ~UsageError(s.last[n], s.prev[n])

NodeResult(s, n) == IF NodeServed(s, n) THEN resourceUsage(s.last[n], s.prev[n]) ELSE NotServed

NodeAnswer(s, names) == [n \in Nodes |-> IF n \in names THEN NodeResult(s, n) ELSE NotServed]

(* podStorage.GetMetrics for one pod.  A pod is left out unless every       *)
(* container of its last point has a previous one; a container whose usage  *)
(* is an error is skipped.                                                  *)
PodServed(s, p) ==
    /\ Found(s.last[p])
    /\ Found(s.prev[p])
    /\ \A c \in Containers : s.last[p][c] # NoPoint => s.prev[p][c] # NoPoint

ServedContainers(s, p) ==
    {c \in Containers : s.last[p][c] # NoPoint /\ ~UsageError(s.last[p][c], s.prev[p][c])}

ContainerUsage(s, p) ==
    [c \in Containers |-> IF c \in ServedContainers(s, p)
                          THEN resourceUsage(s.last[p][c], s.prev[p][c])
                          ELSE NotServed]

(* Mutant: the latest one is taken. *)
Latest(s, p) ==
    {c \in ServedContainers(s, p) :
        \A d \in ServedContainers(s, p) : s.last[p][c].Timestamp >= s.last[p][d].Timestamp}

(* The pod carries the time and window of a container with the earliest     *)
(* timestamp: of the first one the iteration meets, in Go's unspecified map *)
(* order.  With every container skipped both stay zero.                     *)
Earliest(s, p) ==
    {c \in ServedContainers(s, p) :
        \A d \in ServedContainers(s, p) : s.last[p][c].Timestamp <= s.last[p][d].Timestamp}

PodTimeInfos(s, p) ==
    IF ServedContainers(s, p) = {} THEN {[Timestamp |-> ZeroTime, Window |-> 0]}
    ELSE {[Timestamp |-> s.last[p][c].Timestamp,
           Window    |-> Sub(s.last[p][c].Timestamp, s.prev[p][c].Timestamp)] :
             c \in Earliest(s, p)}

PodResults(s, p) ==
    IF PodServed(s, p)
    THEN {[Timestamp |-> ti.Timestamp, Window |-> ti.Window, Containers |-> ContainerUsage(s, p)] :
             ti \in PodTimeInfos(s, p)}
    ELSE {NotServed}

PodAnswers(s, names) ==
    {a \in [Pods -> {NotServed} \cup UNION {PodResults(s, p) : p \in names}] :
        \A p \in Pods : a[p] \in (IF p \in names THEN PodResults(s, p) ELSE {NotServed})}

(* storage.Ready. *)
HasPrevNode(ns) == \E n \in Nodes : ns.prev[n] # NoPoint
HasPrevPod(ps) == \E p \in Pods : Found(ps.prev[p])

-----------------------------------------------------------------------------
(* An answer as its caller holds it. *)
NoNodeAnswer == [n \in Nodes |-> NotServed]
NoPodAnswer == [p \in Pods |-> NotServed]

AnswerTo(op, names, ready, nodeMetrics, podMetrics) ==
    [op |-> op, names |-> names, ready |-> ready, nodes |-> nodeMetrics, pods |-> podMetrics]

(* The types of answers. *)
Usage == [Timestamp : Time, Window : Int, Cpu : Quantity \cup {Undefined}, Memory : Quantity]

PodMetrics ==
    [Timestamp : Time, Window : Int, Containers : [Containers -> Usage \cup {NotServed}]]

(* Every previous point belongs to a name with a last point and is older.   *)
NodesOrdered(s) ==
    \A n \in Nodes : s.prev[n] # NoPoint =>
        /\ s.last[n] # NoPoint
        /\ s.prev[n].Timestamp < s.last[n].Timestamp

PodsOrdered(s) ==
    \A p \in Pods, c \in Containers : s.prev[p][c] # NoPoint =>
        /\ s.last[p][c] # NoPoint
        /\ s.prev[p][c].Timestamp < s.last[p][c].Timestamp

UsageDefined(u) == u.Window > 0 /\ u.Cpu # Undefined

(* The quantity is an int64 and as close to the value as it can be. *)
Shows(q, value) ==
    /\ q.amount \in 0..MaxInt64
    /\ Value(q) = IF value <= MaxInt64 THEN value ELSE value - (value % 10)

PodDefined(m) ==
    LET shown == {c \in Containers : m.Containers[c] # NotServed}
    IN  /\ \A c \in shown : UsageDefined(m.Containers[c])
        /\ shown # {} => m.Window > 0 /\ m.Timestamp # ZeroTime
=============================================================================
