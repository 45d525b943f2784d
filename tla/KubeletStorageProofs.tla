------------------------ MODULE KubeletStorageProofs ------------------------
(***************************************************************************)
(* For any cluster, rates, times and length of a run: what Store makes of  *)
(* genuine measurements never spans a restart, never hides a container,    *)
(* never shows more cores than exist and never goes back in time.  For any *)
(* order of the series of an answer: the decoder returns whole pods, with  *)
(* the latest value of each series.                                        *)
(***************************************************************************)
EXTENDS KubeletStorage, Decode, FiniteSetTheorems, TLAPS

(* The lemmas about Store, as the proofs of the storage have them. *)
Data == INSTANCE StorageProofs WITH
    Readers <- {}, Batches <- {}, reply <- [r \in {} |-> NoPoint],
    pointsStored <- [node |-> NodePoints(nodes), container |-> ContainerPoints(pods)]

(* Both modules have the same types. *)
LEMMA SameTypes ==
    /\ Data!OptPoint = OptPoint /\ Data!MetricsPoint = MetricsPoint /\ Data!Quantity = Quantity
    /\ Data!NodeStorage = NodeStorage /\ Data!PodStorage = PodStorage
    /\ Data!MetricsBatch = MetricsBatch
    /\ \A S : Data!IsFiniteSet(S) = IsFiniteSet(S)
  <1>1. Data!OptPoint = OptPoint /\ Data!MetricsPoint = MetricsPoint /\ Data!Quantity = Quantity
    BY DEF Data!OptPoint, OptPoint, Data!MetricsPoint, MetricsPoint, Data!Quantity, Quantity,
           Data!Time, Time, Data!UInt64, UInt64
  <1>2. /\ Data!NodeStorage = NodeStorage /\ Data!PodStorage = PodStorage
        /\ Data!MetricsBatch = MetricsBatch
    BY <1>1 DEF Data!NodeStorage, NodeStorage, Data!PodStorage, PodStorage, Data!MetricsBatch,
           MetricsBatch, Data!NodeMap, NodeMap, Data!PodMap, PodMap,
           Data!PodMetricsPoint, PodMetricsPoint
  <1>3. \A S : Data!IsFiniteSet(S) = IsFiniteSet(S)
    BY DEF Data!IsFiniteSet, IsFiniteSet
  <1> QED
    BY <1>1, <1>2, <1>3

(* The assumptions the lemmas rest on. *)
LEMMA DataAssumptions ==
    /\ NoPoint \notin Data!MetricsPoint
    /\ Undefined \notin Data!Quantity
    /\ Data!IsFiniteSet(Nodes) /\ Data!IsFiniteSet(Pods) /\ Data!IsFiniteSet(Containers)
    /\ {} \subseteq Data!MetricsBatch
  BY SameTypes, NoPointAssumption, UndefinedAssumption, NamesAssumption

(* And the same operations. *)
LEMMA SameOperations ==
    /\ \A s : Data!NodesOrdered(s) = NodesOrdered(s) /\ Data!PodsOrdered(s) = PodsOrdered(s)
    /\ \A s, b : Data!nodeStore(s, b) = nodeStore(s, b)
    /\ \A s, b : Data!podStore(s, b) = podStore(s, b)
  <1>1. \A s : Data!NodesOrdered(s) = NodesOrdered(s) /\ Data!PodsOrdered(s) = PodsOrdered(s)
    BY DEF Data!NodesOrdered, NodesOrdered, Data!PodsOrdered, PodsOrdered
  <1>2. \A s, b : Data!nodeStore(s, b) = nodeStore(s, b)
    BY DEF Data!nodeStore, nodeStore, Data!PrevNode, PrevNode
  <1>3. \A l, p, i, n : Data!PrevContainer(l, p, i, n) = PrevContainer(l, p, i, n)
    BY Zenon DEF Data!PrevContainer, PrevContainer, Data!IsFresh, IsFresh, Data!AtStart, AtStart,
       Data!MapRead, MapRead, Data!ZeroPoint, ZeroPoint, Data!ZeroTime, ZeroTime, Data!Sub, Sub
  <1>4. \A pod : Data!Found(pod) = Found(pod)
    BY DEF Data!Found, Found
  <1>5. \A s, b : Data!podStore(s, b) = podStore(s, b)
    BY <1>3, <1>4 DEF Data!podStore, podStore
  <1> QED
    BY <1>1, <1>2, <1>5

(* The maps Store builds have the types of the storage (node.go:71, pod.go:102). *)
LEMMA StoreTypes ==
    ASSUME NEW ns \in NodeStorage, NEW ps \in PodStorage, NEW b \in MetricsBatch
    PROVE  /\ nodeStore(ns, b.Nodes) \in NodeStorage
           /\ podStore(ps, b.Pods) \in PodStorage
  BY Data!StoreTypes, SameTypes, SameOperations, DataAssumptions, MaxInt64Assumption,
     ResolutionAssumption, MaxDurationAssumption

(* Store keeps the order, whatever it is given (node.go:71, pod.go:102). *)
LEMMA StoreOrdered ==
    ASSUME NEW ns \in NodeStorage, NEW ps \in PodStorage, NEW b \in MetricsBatch
    PROVE  /\ NodesOrdered(nodeStore(ns, b.Nodes))
           /\ PodsOrdered(podStore(ps, b.Pods))
  BY Data!StoreOrdered, SameTypes, SameOperations, DataAssumptions, MaxInt64Assumption,
     ResolutionAssumption, MaxDurationAssumption

-----------------------------------------------------------------------------
(* The CPU time a machine of this capacity had not used since time 0 when    *)
(* the point was measured.  It never decreases within a life, which is to    *)
(* say that nothing uses more than the capacity.                             *)
Idle(point) == Capacity * point.Timestamp - point.CumulativeCpuUsed

-----------------------------------------------------------------------------
(* Containers *)

(* A point measured of a container by now. *)
Genuine(point, now) ==
    /\ point \in MetricsPoint
    /\ Epoch <= point.StartTime
    /\ point.StartTime <= point.Timestamp
    /\ point.Timestamp <= now
    /\ Capacity * point.StartTime <= Idle(point)

(* Two points of one container are of one life, or the first is older than   *)
(* the life of the second.                                                   *)
Precedes(a, b) ==
    /\ a.Timestamp <= b.Timestamp
    /\ \/ /\ a.StartTime = b.StartTime
          /\ a.CumulativeCpuUsed <= b.CumulativeCpuUsed
          /\ Idle(a) <= Idle(b)
       \/ /\ a.StartTime # b.StartTime
          /\ a.Timestamp <= b.StartTime

(* What is stored of a container, with the kubelet's sample and the start of *)
(* its life: the sample follows the last point, and only a sample of this    *)
(* life can be younger than the life.                                        *)
ContainerOK(s, start, last, prev, now) ==
    /\ start # ZeroTime => Epoch <= start /\ start <= now
    /\ s # NoPoint =>
        /\ Genuine(s, now)
        /\ start # ZeroTime => s.StartTime = start \/ s.Timestamp <= start
    /\ last # NoPoint =>
        /\ Genuine(last, now)
        /\ s # NoPoint => Precedes(last, s)
        /\ start # ZeroTime => last.Timestamp <= start \/ (s # NoPoint /\ s.StartTime = start)
    /\ prev # NoPoint => last # NoPoint
    /\ prev # NoPoint /\ prev # ZeroPoint =>
        /\ last.StartTime = prev.StartTime
        /\ last.StartTime <= prev.Timestamp
        /\ Precedes(prev, last)

(* A container its pod's last report lacks has not been measured since.      *)
PodOK(s, last) ==
    \A c, d \in Containers :
        last[c] # NoPoint /\ last[d] = NoPoint /\ s[d] # NoPoint =>
            last[c].Timestamp <= s[d].Timestamp

-----------------------------------------------------------------------------
(* Nodes, whose points say nothing of reboots *)

GenuineNode(point, now) ==
    /\ point \in MetricsPoint
    /\ Epoch <= point.Timestamp
    /\ point.Timestamp <= now
    /\ Capacity * Epoch <= Idle(point)

PrecedesNode(a, b) == a.Timestamp <= b.Timestamp /\ Idle(a) <= Idle(b)

NodeOK(s, start, last, prev, now) ==
    /\ Epoch <= start /\ start <= now
    /\ s # NoPoint => GenuineNode(s, now)
    /\ last # NoPoint =>
        /\ GenuineNode(last, now)
        /\ s # NoPoint => PrecedesNode(last, s)
        /\ s = NoPoint => last.Timestamp <= start
    /\ prev # NoPoint =>
        /\ last # NoPoint /\ PrecedesNode(prev, last)
        /\ Epoch <= prev.Timestamp

-----------------------------------------------------------------------------
TypeOK ==
    /\ clock \in Epoch..MaxClock
    /\ boot \in [Nodes -> Nat]
    /\ run \in [Pods -> [Containers -> Nat]]
    /\ nodeSample \in NodeMap
    /\ sample \in PodMap
    /\ nodes \in NodeStorage
    /\ pods \in PodStorage

NodesInv ==
    \A n \in Nodes : NodeOK(nodeSample[n], boot[n], nodes.last[n], nodes.prev[n], clock)

ContainersInv ==
    \A p \in Pods, c \in Containers :
        ContainerOK(sample[p][c], run[p][c], pods.last[p][c], pods.prev[p][c], clock)

PodsInv == \A p \in Pods : PodOK(sample[p], pods.last[p])

Inv ==
    /\ TypeOK /\ NodesOrdered(nodes) /\ PodsOrdered(pods)
    /\ NodesInv /\ ContainersInv /\ PodsInv

-----------------------------------------------------------------------------
(* A rate within the capacity uses no more than the capacity does, and the   *)
(* capacity no less when it lasts longer.                                    *)
LEMMA Capacities ==
    /\ \A rate \in Rates, t \in Nat : rate * t \in Nat /\ rate * t <= Capacity * t
    /\ \A t \in Nat : Capacity * t \in Nat
    /\ \A t, u \in Nat : t <= u => Capacity * t <= Capacity * u
    /\ \A t, u \in Nat : Capacity * (t - u) = Capacity * t - Capacity * u
  <1>1. ASSUME NEW rate \in Rates, NEW t \in Nat
        PROVE  rate * t \in Nat /\ rate * t <= Capacity * t
    <2>1. rate \in Nat /\ rate <= Capacity
      BY RatesAssumption
    <2> QED
      BY <2>1, RatesAssumption
  <1>2. ASSUME NEW t \in Nat, NEW u \in Nat, t <= u
        PROVE  Capacity * t <= Capacity * u
    BY <1>2, RatesAssumption
  <1>3. ASSUME NEW t \in Nat, NEW u \in Nat
        PROVE  Capacity * (t - u) = Capacity * t - Capacity * u
    BY RatesAssumption
  <1>4. \A t \in Nat : Capacity * t \in Nat
    BY RatesAssumption
  <1> QED
    BY <1>1, <1>2, <1>3, <1>4

(* A counter that never grew faster than the capacity fits in its uint64. *)
LEMMA CounterFits ==
    ASSUME NEW used \in Nat, NEW now \in Epoch..MaxClock,
           used <= Capacity * now - Capacity * Epoch
    PROVE  used \in UInt64
  <1>1. now \in Nat /\ MaxClock \in Nat /\ Epoch \in Nat /\ now <= MaxClock
    BY EpochAssumption
  <1>2. /\ Capacity * now \in Nat /\ Capacity * MaxClock \in Nat /\ Capacity * Epoch \in Nat
        /\ Capacity * now <= Capacity * MaxClock
        /\ Capacity * (MaxClock - Epoch) = Capacity * MaxClock - Capacity * Epoch
    BY <1>1, Capacities, Zenon
  <1>3. Capacity * (MaxClock - Epoch) \in 0..(2 * MaxInt64 + 1)
    BY RatesAssumption DEF UInt64
  <1> QED
    BY <1>2, <1>3, MaxInt64Assumption DEF UInt64

(* Precedence goes on from a sample to the next. *)
LEMMA PrecedesTransitive ==
    ASSUME NEW now \in Nat, NEW a \in MetricsPoint, NEW b, NEW c,
           a.StartTime <= a.Timestamp, Genuine(b, now), Genuine(c, now),
           Precedes(a, b), Precedes(b, c)
    PROVE  Precedes(a, c)
  <1>1. /\ a.StartTime \in Nat /\ a.Timestamp \in Nat /\ a.CumulativeCpuUsed \in Nat
        /\ b.StartTime \in Nat /\ b.Timestamp \in Nat /\ b.CumulativeCpuUsed \in Nat
        /\ c.StartTime \in Nat /\ c.Timestamp \in Nat /\ c.CumulativeCpuUsed \in Nat
    BY MaxInt64Assumption DEF Genuine, MetricsPoint, Time, UInt64
  <1>2. Idle(a) \in Int /\ Idle(b) \in Int /\ Idle(c) \in Int
    BY <1>1, RatesAssumption DEF Idle
  <1> QED
    BY <1>1, <1>2 DEF Precedes, Genuine

(* A counter that grows at a possible rate grows no faster than the capacity. *)
LEMMA Grows ==
    ASSUME NEW now \in Nat, NEW since \in Nat, since <= now, NEW base \in Nat,
           NEW rate \in Rates
    PROVE  /\ base + rate * (now - since) \in Nat
           /\ base <= base + rate * (now - since)
           /\ Capacity * since - base <= Capacity * now - (base + rate * (now - since))
  <1> DEFINE used == rate * (now - since)
  <1>1. now - since \in Nat
    OBVIOUS
  <1>2. used \in Nat /\ used <= Capacity * (now - since)
    BY <1>1, Capacities, Zenon
  <1>3. Capacity * (now - since) = Capacity * now - Capacity * since
    BY Capacities, Zenon
  <1>4. Capacity * now \in Nat /\ Capacity * since \in Nat
    BY Capacities, Zenon
  <1> HIDE DEF used
  <1>5. /\ base + used \in Nat /\ base <= base + used
        /\ Capacity * since - base <= Capacity * now - (base + used)
    BY <1>2, <1>3, <1>4
  <1> QED
    BY <1>5 DEF used

(* The numbers of a point. *)
LEMMA PointNumbers ==
    ASSUME NEW a \in MetricsPoint
    PROVE  /\ a.StartTime \in Nat /\ a.Timestamp \in Nat
           /\ a.CumulativeCpuUsed \in Nat /\ a.CumulativeCpuUsed \in UInt64
           /\ Capacity * a.StartTime \in Nat /\ Capacity * a.Timestamp \in Nat
           /\ Idle(a) \in Int
  <1>1. a.StartTime \in Nat /\ a.Timestamp \in Nat /\ a.CumulativeCpuUsed \in Nat
    BY MaxInt64Assumption DEF MetricsPoint, Time, UInt64
  <1>2. Capacity * a.StartTime \in Nat /\ Capacity * a.Timestamp \in Nat
    BY <1>1, Capacities, Zenon
  <1>3. Idle(a) \in Int
    BY <1>1, <1>2 DEF Idle
  <1> QED
    BY <1>1, <1>2, <1>3 DEF MetricsPoint

-----------------------------------------------------------------------------
(* A kubelet's next measurement of a container follows what is stored of it, *)
(* be it of the same life or of a later one.                                 *)
LEMMA MeasureContainerOK ==
    ASSUME clock \in Epoch..MaxClock, NEW rate \in Rates, NEW start \in Nat \ {0},
           NEW s \in OptPoint, NEW last \in OptPoint, NEW prev \in OptPoint,
           ContainerOK(s, start, last, prev, clock),
           NEW m, m = Measured(s, s # NoPoint /\ s.StartTime = start, start, start, rate)
    PROVE  m \in MetricsPoint /\ m.Timestamp = clock /\ ContainerOK(m, start, last, prev, clock)
  <1> DEFINE sameLife == s # NoPoint /\ s.StartTime = start
             since == IF sameLife THEN s.Timestamp ELSE start
             base == IF sameLife THEN s.CumulativeCpuUsed ELSE 0
             cpu == base + rate * (clock - since)
  <1>1. clock \in Nat /\ Epoch \in Nat /\ Epoch <= start /\ start <= clock
    BY EpochAssumption DEF ContainerOK, ZeroTime
  <1>2. sameLife => /\ s \in MetricsPoint /\ Genuine(s, clock)
                    /\ s.Timestamp \in Nat /\ s.CumulativeCpuUsed \in Nat
    BY PointNumbers DEF OptPoint, ContainerOK
  <1>3. since \in Nat /\ start <= since /\ since <= clock /\ base \in Nat
    BY <1>1, <1>2 DEF Genuine
  <1>4. Capacity * start \in Nat /\ Capacity * clock \in Nat /\ Capacity * Epoch \in Nat
        /\ Capacity * since \in Nat /\ Capacity * Epoch <= Capacity * start
    BY <1>1, <1>3, Capacities, Zenon
  <1>5. Capacity * start <= Capacity * since - base
    BY <1>2, <1>3, <1>4 DEF Genuine, Idle
  <1>6. m = [StartTime |-> start, Timestamp |-> clock, CumulativeCpuUsed |-> cpu,
             MemoryUsage |-> 1]
    <2>1. ASSUME ~sameLife PROVE cpu = rate * (clock - start)
      <3>1. rate * (clock - start) \in Nat
        <4>1. clock - start \in Nat
          BY <1>1
        <4> QED
          BY <4>1, Capacities, Zenon
      <3>2. since = start /\ base = 0
        BY <2>1
      <3> HIDE DEF since, base
      <3> QED
        BY <3>1, <3>2
    <2>2. ASSUME sameLife PROVE cpu = s.CumulativeCpuUsed + rate * (clock - s.Timestamp)
      BY <2>2
    <2> HIDE DEF cpu
    <2> QED
      BY <2>1, <2>2 DEF Measured
  <1>7. cpu \in Nat /\ base <= cpu /\ Capacity * since - base <= Capacity * clock - cpu
    <2> HIDE DEF since, base
    <2> QED
      BY <1>1, <1>3, Grows
  <1> HIDE DEF since, base, cpu
  <1>8. cpu \in UInt64
    BY <1>4, <1>5, <1>7, <1>3, CounterFits
  <1>9. m \in MetricsPoint
    BY <1>1, <1>6, <1>8, MaxInt64Assumption DEF MetricsPoint, Time, UInt64
  <1>10. Idle(m) = Capacity * clock - cpu /\ Idle(m) \in Int
    BY <1>4, <1>6, <1>7 DEF Idle
  <1>11. Genuine(m, clock)
    BY <1>1, <1>3, <1>4, <1>5, <1>6, <1>7, <1>9, <1>10 DEF Genuine
  <1>12. ASSUME last # NoPoint PROVE Precedes(last, m)
    <2>1. last \in MetricsPoint /\ Genuine(last, clock)
      BY <1>12 DEF OptPoint, ContainerOK
    <2>2. CASE sameLife
      <3>1. Precedes(s, m)
        BY <1>2, <1>6, <1>7, <1>10, <2>2 DEF Precedes, Idle, Genuine, since, base
      <3>2. Precedes(last, s) /\ last.StartTime <= last.Timestamp
        BY <1>12, <2>1, <2>2 DEF ContainerOK, Genuine
      <3> QED
        BY <1>1, <1>2, <1>11, <2>1, <2>2, <3>1, <3>2, PrecedesTransitive
    <2>3. CASE ~sameLife
      <3>1. last.Timestamp <= start /\ last.Timestamp \in Nat /\ last.StartTime \in Nat
            /\ last.CumulativeCpuUsed \in Nat
        BY <1>12, <2>1, <2>3, PointNumbers DEF ContainerOK, ZeroTime
      <3>2. CASE last.StartTime = start
        <4>1. last.Timestamp = start
          BY <2>1, <3>1, <3>2 DEF Genuine
        <4>2. last.CumulativeCpuUsed = 0 /\ Idle(last) = Capacity * start
          BY <1>4, <2>1, <3>1, <3>2, <4>1 DEF Genuine, Idle
        <4> QED
          BY <1>1, <1>6, <1>7, <1>3, <1>5, <1>4, <1>10, <3>1, <3>2, <4>1, <4>2 DEF Precedes
      <3>3. CASE last.StartTime # start
        BY <1>1, <1>6, <3>1, <3>3 DEF Precedes
      <3> QED
        BY <3>2, <3>3
    <2> QED
      BY <2>2, <2>3
  <1>13. m # NoPoint /\ m.StartTime = start
    BY <1>6, <1>9, NoPointAssumption
  <1> QED
    BY <1>6, <1>9, <1>11, <1>12, <1>13 DEF ContainerOK

(* What Store keeps of a container that was reported, and of one that was    *)
(* not (pod.go:121-146).                                                     *)
LEMMA StoreContainerOK ==
    ASSUME NEW now \in Nat, NEW start, NEW s \in OptPoint,
           NEW last \in OptPoint, NEW prev \in OptPoint, NEW inPrev,
           ContainerOK(s, start, last, prev, now)
    PROVE  /\ ContainerOK(s, start, NoPoint, NoPoint, now)
           /\ s # NoPoint => ContainerOK(s, start, s, PrevContainer(last, prev, inPrev, s), now)
  <1>1. ContainerOK(s, start, NoPoint, NoPoint, now)
    BY DEF ContainerOK
  <1>2. ASSUME s # NoPoint
        PROVE  ContainerOK(s, start, s, PrevContainer(last, prev, inPrev, s), now)
    <2> DEFINE kept == PrevContainer(last, prev, inPrev, s)
    <2>1. s \in MetricsPoint /\ Genuine(s, now)
      BY <1>2 DEF OptPoint, ContainerOK
    <2>2. /\ s.StartTime \in Nat /\ s.Timestamp \in Nat /\ s.CumulativeCpuUsed \in Nat
          /\ Capacity * s.StartTime \in Nat /\ Idle(s) \in Int
      BY <2>1, PointNumbers
    <2>3. Precedes(s, s)
      BY <2>2 DEF Precedes
    <2>4. ASSUME kept # NoPoint, kept # ZeroPoint
          PROVE  /\ s.StartTime = kept.StartTime
                 /\ s.StartTime <= kept.Timestamp
                 /\ Precedes(kept, s)
      <3>1. CASE IsFresh(s)
        <4>1. kept = AtStart(s)
          BY <3>1 DEF PrevContainer
        <4>2. /\ kept.StartTime = s.StartTime /\ kept.Timestamp = s.StartTime
              /\ kept.CumulativeCpuUsed = 0
          BY <2>1, <4>1 DEF AtStart, MetricsPoint
        <4>3. Idle(kept) = Capacity * s.StartTime
          BY <2>2, <4>2 DEF Idle
        <4> HIDE DEF kept
        <4> QED
          BY <2>1, <2>2, <4>2, <4>3 DEF Precedes, Genuine
      <3>2. CASE ~IsFresh(s)
        <4>1. last # NoPoint /\ s.StartTime < last.Timestamp
          BY <2>4, <3>2 DEF PrevContainer
        <4>2. /\ last \in MetricsPoint /\ Genuine(last, now)
              /\ last.StartTime \in Nat /\ last.Timestamp \in Nat
          BY <4>1, PointNumbers DEF OptPoint, ContainerOK
        <4>3. Precedes(last, s) /\ last.StartTime = s.StartTime
          BY <1>2, <2>2, <4>1, <4>2 DEF ContainerOK, Precedes
        <4>4. CASE s.Timestamp > last.Timestamp
          <5>1. kept = last
            BY <3>2, <4>1, <4>4 DEF PrevContainer
          <5> QED
            BY <4>2, <4>3, <5>1 DEF Genuine
        <4>5. CASE ~(s.Timestamp > last.Timestamp)
          <5>1. kept = prev /\ prev \in MetricsPoint
            BY <2>4, <3>2, <4>1, <4>5 DEF PrevContainer, MapRead, OptPoint
          <5>2. /\ last.StartTime = prev.StartTime /\ last.StartTime <= prev.Timestamp
                /\ Precedes(prev, last)
            BY <2>4, <5>1 DEF ContainerOK
          <5>3. Precedes(prev, s)
            BY <2>1, <4>2, <4>3, <5>1, <5>2, PrecedesTransitive
          <5> QED
            BY <4>3, <5>1, <5>2, <5>3
        <4> QED
          BY <4>4, <4>5
      <3> QED
        BY <3>1, <3>2
    <2> HIDE DEF kept
    <2>5. ContainerOK(s, start, s, kept, now)
      BY <1>2, <2>1, <2>3, <2>4 DEF ContainerOK
    <2> QED
      BY <2>5 DEF kept
  <1> QED
    BY <1>1, <1>2

(* The same of nodes.  A reboot loses the sample and resets the counter. *)
LEMMA MeasureNodeOK ==
    ASSUME clock \in Epoch..MaxClock, NEW rate \in Rates, NEW start \in Nat,
           NEW s \in OptPoint, NEW last \in OptPoint, NEW prev \in OptPoint,
           NodeOK(s, start, last, prev, clock),
           NEW m, m = Measured(s, s # NoPoint, start, ZeroTime, rate)
    PROVE  m \in MetricsPoint /\ NodeOK(m, start, last, prev, clock)
  <1> DEFINE since == IF s # NoPoint THEN s.Timestamp ELSE start
             base == IF s # NoPoint THEN s.CumulativeCpuUsed ELSE 0
             cpu == base + rate * (clock - since)
  <1>1. clock \in Nat /\ Epoch \in Nat /\ Epoch <= start /\ start <= clock
    BY EpochAssumption DEF NodeOK
  <1>2. s # NoPoint => /\ s \in MetricsPoint /\ GenuineNode(s, clock)
                       /\ s.Timestamp \in Nat /\ s.CumulativeCpuUsed \in Nat
    BY PointNumbers DEF OptPoint, NodeOK
  <1>3. since \in Nat /\ Epoch <= since /\ since <= clock /\ base \in Nat
    BY <1>1, <1>2 DEF GenuineNode
  <1>4. Capacity * start \in Nat /\ Capacity * clock \in Nat /\ Capacity * Epoch \in Nat
        /\ Capacity * since \in Nat /\ Capacity * Epoch <= Capacity * start
    BY <1>1, <1>3, Capacities, Zenon
  <1>5. Capacity * Epoch <= Capacity * since - base
    BY <1>2, <1>3, <1>4 DEF GenuineNode, Idle
  <1>6. m = [StartTime |-> ZeroTime, Timestamp |-> clock, CumulativeCpuUsed |-> cpu,
             MemoryUsage |-> 1]
    <2>1. ASSUME s = NoPoint PROVE cpu = rate * (clock - start)
      <3>1. rate * (clock - start) \in Nat
        <4>1. clock - start \in Nat
          BY <1>1
        <4> QED
          BY <4>1, Capacities, Zenon
      <3>2. since = start /\ base = 0
        BY <2>1
      <3> HIDE DEF since, base
      <3> QED
        BY <3>1, <3>2
    <2>2. ASSUME s # NoPoint PROVE cpu = s.CumulativeCpuUsed + rate * (clock - s.Timestamp)
      BY <2>2
    <2> HIDE DEF cpu
    <2> QED
      BY <2>1, <2>2 DEF Measured
  <1>7. cpu \in Nat /\ Capacity * since - base <= Capacity * clock - cpu
    <2> HIDE DEF since, base
    <2> QED
      BY <1>1, <1>3, Grows
  <1> HIDE DEF since, base, cpu
  <1>8. cpu \in UInt64
    BY <1>3, <1>4, <1>5, <1>7, CounterFits
  <1>9. m \in MetricsPoint
    BY <1>1, <1>6, <1>8, MaxInt64Assumption DEF MetricsPoint, Time, UInt64, ZeroTime
  <1>10. Idle(m) = Capacity * clock - cpu /\ Idle(m) \in Int
    BY <1>4, <1>6, <1>7 DEF Idle
  <1>11. GenuineNode(m, clock)
    BY <1>1, <1>3, <1>4, <1>5, <1>6, <1>7, <1>9, <1>10 DEF GenuineNode
  <1>12. ASSUME last # NoPoint PROVE PrecedesNode(last, m)
    <2>1. /\ last \in MetricsPoint /\ GenuineNode(last, clock) /\ last.Timestamp \in Nat
          /\ Idle(last) \in Int /\ last.CumulativeCpuUsed \in Nat
          /\ Capacity * last.Timestamp \in Nat
      BY <1>12, PointNumbers DEF OptPoint, NodeOK
    <2>2. CASE s # NoPoint
      <3>1. Idle(s) <= Idle(m) /\ PrecedesNode(last, s) /\ Idle(s) \in Int
        BY <1>2, <1>7, <1>10, <1>12, <2>2, PointNumbers DEF NodeOK, Idle, since, base
      <3> QED
        BY <1>1, <1>2, <1>6, <1>10, <2>1, <2>2, <3>1 DEF PrecedesNode, GenuineNode
    <2>3. CASE s = NoPoint
      <3>1. last.Timestamp <= start /\ since = start /\ base = 0
        BY <1>12, <2>3 DEF NodeOK, since, base
      <3>2. Capacity * last.Timestamp <= Capacity * start
        BY <2>1, <3>1, Capacities, Zenon
      <3>3. Idle(last) <= Idle(m)
        BY <1>4, <1>7, <1>10, <2>1, <3>1, <3>2 DEF Idle
      <3> QED
        BY <1>1, <1>6, <2>1, <3>1, <3>3 DEF PrecedesNode
    <2> QED
      BY <2>2, <2>3
  <1>13. m # NoPoint
    BY <1>9, NoPointAssumption
  <1> QED
    BY <1>9, <1>11, <1>12, <1>13 DEF NodeOK

(* What Store keeps of a node (node.go:83-99). *)
LEMMA StoreNodeOK ==
    ASSUME NEW now \in Nat, NEW start, NEW s \in OptPoint,
           NEW last \in OptPoint, NEW prev \in OptPoint,
           NodeOK(s, start, last, prev, now)
    PROVE  /\ NodeOK(s, start, NoPoint, NoPoint, now)
           /\ s # NoPoint => NodeOK(s, start, s, PrevNode(last, prev, s), now)
  <1>1. NodeOK(s, start, NoPoint, NoPoint, now)
    BY DEF NodeOK
  <1>2. ASSUME s # NoPoint
        PROVE  NodeOK(s, start, s, PrevNode(last, prev, s), now)
    <2> DEFINE kept == PrevNode(last, prev, s)
    <2>1. s \in MetricsPoint /\ s.Timestamp \in Nat /\ Idle(s) \in Int
      BY <1>2, PointNumbers DEF OptPoint
    <2>2. PrecedesNode(s, s)
      BY <2>1 DEF PrecedesNode
    <2>3. ASSUME kept # NoPoint PROVE PrecedesNode(kept, s) /\ Epoch <= kept.Timestamp
      <3>1. last # NoPoint /\ (kept = last \/ kept = prev)
        BY <2>3 DEF PrevNode
      <3>2. /\ PrecedesNode(last, s) /\ Epoch <= last.Timestamp
            /\ last.Timestamp \in Nat /\ Idle(last) \in Int
        BY <1>2, <3>1, PointNumbers DEF OptPoint, NodeOK, GenuineNode
      <3>3. CASE kept = prev
        <4>1. /\ PrecedesNode(prev, last) /\ Epoch <= prev.Timestamp
              /\ prev.Timestamp \in Nat /\ Idle(prev) \in Int
          BY <2>3, <3>3, PointNumbers DEF OptPoint, NodeOK
        <4> QED
          BY <2>1, <3>2, <3>3, <4>1 DEF PrecedesNode
      <3> QED
        BY <3>1, <3>2, <3>3
    <2> HIDE DEF kept
    <2>4. NodeOK(s, start, s, kept, now)
      BY <1>2, <2>2, <2>3 DEF NodeOK
    <2> QED
      BY <2>4 DEF kept
  <1> QED
    BY <1>1, <1>2

-----------------------------------------------------------------------------
(* Nothing has been measured or stored at first.                              *)
LEMMA InitInv ==
    Init => Inv
  <1> SUFFICES ASSUME Init PROVE Inv
    OBVIOUS
  <1>1. NoNodes \in NodeMap /\ NoPods \in PodMap
    BY DEF NoNodes, NoPods, NoContainers, NodeMap, PodMap, PodMetricsPoint, OptPoint
  <1>2. TypeOK
    BY <1>1, EpochAssumption DEF Init, TypeOK, NodeStorage, PodStorage, ZeroTime
  <1>3. NodesOrdered(nodes) /\ PodsOrdered(pods)
    BY DEF Init, NodesOrdered, PodsOrdered, NoNodes, NoPods, NoContainers
  <1>4. NodesInv
    BY EpochAssumption DEF Init, NodesInv, NodeOK, NoNodes
  <1>5. ContainersInv
    BY DEF Init, ContainersInv, ContainerOK, NoPods, NoContainers
  <1>6. PodsInv
    BY DEF Init, PodsInv, PodOK, NoPods, NoContainers
  <1> QED
    BY <1>2, <1>3, <1>4, <1>5, <1>6 DEF Inv

(* What is stored and sampled, one by one. *)
LEMMA Elements ==
    ASSUME TypeOK
    PROVE  /\ clock \in Nat /\ clock \in Epoch..MaxClock
           /\ \A n \in Nodes : /\ nodeSample[n] \in OptPoint /\ boot[n] \in Nat
                               /\ nodes.last[n] \in OptPoint /\ nodes.prev[n] \in OptPoint
           /\ \A p \in Pods, c \in Containers :
                /\ sample[p][c] \in OptPoint /\ run[p][c] \in Nat
                /\ pods.last[p][c] \in OptPoint /\ pods.prev[p][c] \in OptPoint
  <1>1. clock \in Nat /\ clock \in Epoch..MaxClock
    BY EpochAssumption DEF TypeOK
  <1>2. \A n \in Nodes : /\ nodeSample[n] \in OptPoint /\ boot[n] \in Nat
                         /\ nodes.last[n] \in OptPoint /\ nodes.prev[n] \in OptPoint
    BY DEF TypeOK, NodeStorage, NodeMap
  <1>3. \A p \in Pods, c \in Containers :
            /\ sample[p][c] \in OptPoint /\ run[p][c] \in Nat
            /\ pods.last[p][c] \in OptPoint /\ pods.prev[p][c] \in OptPoint
    BY DEF TypeOK, PodStorage, PodMap, PodMetricsPoint
  <1> QED
    BY <1>1, <1>2, <1>3

(* Time passes: lives begin in the past, and stay there.                      *)
LEMMA TickInv ==
    ASSUME Inv, Tick
    PROVE  Inv'
  <1>1. /\ clock \in Nat /\ clock' = clock + 1 /\ clock' \in Epoch..MaxClock
        /\ UNCHANGED <<boot, run, nodeSample, sample, nodes, pods>>
    BY EpochAssumption DEF Inv, TypeOK, Tick, storage
  <1>2. \A point \in MetricsPoint : point.Timestamp <= clock => point.Timestamp <= clock'
    BY <1>1 DEF MetricsPoint, Time
  <1>3. NodesInv'
    <2> SUFFICES ASSUME NEW n \in Nodes
                 PROVE  NodeOK(nodeSample[n], boot[n], nodes.last[n], nodes.prev[n], clock')
      BY <1>1 DEF NodesInv
    <2>1. boot[n] \in Nat /\ NodeOK(nodeSample[n], boot[n], nodes.last[n], nodes.prev[n], clock)
      BY DEF Inv, TypeOK, NodesInv
    <2> QED
      BY <1>1, <1>2, <2>1 DEF NodeOK, GenuineNode
  <1>4. ContainersInv'
    <2> SUFFICES ASSUME NEW p \in Pods, NEW c \in Containers
                 PROVE  ContainerOK(sample[p][c], run[p][c], pods.last[p][c], pods.prev[p][c], clock')
      BY <1>1 DEF ContainersInv
    <2>1. /\ run[p][c] \in Nat
          /\ ContainerOK(sample[p][c], run[p][c], pods.last[p][c], pods.prev[p][c], clock)
      BY DEF Inv, TypeOK, ContainersInv
    <2> QED
      BY <1>1, <1>2, <2>1 DEF ContainerOK, Genuine
  <1> QED
    BY <1>1, <1>3, <1>4 DEF Inv, TypeOK, PodsInv

(* A node that reboots begins a life no earlier than its stored points.       *)
LEMMA RebootInv ==
    ASSUME Inv, NEW n \in Nodes, Reboot(n)
    PROVE  Inv'
  <1>1. /\ boot' = [boot EXCEPT ![n] = clock]
        /\ nodeSample' = [nodeSample EXCEPT ![n] = NoPoint]
        /\ UNCHANGED <<clock, run, sample, nodes, pods>>
    BY DEF Reboot, storage
  <1>2. clock \in Nat /\ Epoch <= clock
    BY EpochAssumption DEF Inv, TypeOK
  <1>3. boot' \in [Nodes -> Nat] /\ nodeSample' \in NodeMap
    BY <1>1, <1>2 DEF Inv, TypeOK, NodeMap, OptPoint
  <1>4. /\ boot'[n] = clock /\ nodeSample'[n] = NoPoint
        /\ \A m \in Nodes \ {n} : boot'[m] = boot[m] /\ nodeSample'[m] = nodeSample[m]
    BY <1>1 DEF Inv, TypeOK, NodeMap
  <1>5. NodeOK(NoPoint, clock, nodes.last[n], nodes.prev[n], clock)
    BY <1>2 DEF Inv, NodesInv, NodeOK, GenuineNode
  <1>6. NodesInv'
    BY <1>1, <1>4, <1>5 DEF Inv, NodesInv
  <1> QED
    BY <1>1, <1>3, <1>6 DEF Inv, TypeOK, ContainersInv, PodsInv

(* A new sample of a node follows the last stored point.                      *)
LEMMA MeasureNodeInv ==
    ASSUME Inv, NEW n \in Nodes, MeasureNode(n)
    PROVE  Inv'
  <1>1. PICK rate \in Rates :
            nodeSample' = [nodeSample EXCEPT
                ![n] = Measured(nodeSample[n], nodeSample[n] # NoPoint, boot[n], ZeroTime, rate)]
    BY DEF MeasureNode
  <1>2. UNCHANGED <<clock, boot, run, sample, nodes, pods>>
    BY DEF MeasureNode, storage
  <1> DEFINE m == Measured(nodeSample[n], nodeSample[n] # NoPoint, boot[n], ZeroTime, rate)
  <1>3. nodeSample' = [nodeSample EXCEPT ![n] = m]
    BY <1>1
  <1>4. m \in MetricsPoint /\ NodeOK(m, boot[n], nodes.last[n], nodes.prev[n], clock)
    BY Elements, MeasureNodeOK DEF Inv, NodesInv
  <1> HIDE DEF m
  <1>5. /\ nodeSample' \in NodeMap /\ nodeSample'[n] = m
        /\ \A k \in Nodes \ {n} : nodeSample'[k] = nodeSample[k]
    BY <1>3, <1>4 DEF Inv, TypeOK, NodeMap, OptPoint
  <1>6. NodesInv'
    BY <1>2, <1>4, <1>5 DEF Inv, NodesInv
  <1> QED
    BY <1>2, <1>5, <1>6 DEF Inv, TypeOK, ContainersInv, PodsInv

(* Starts and stops of a container. *)
LEMMA RunInv ==
    ASSUME Inv, NEW p \in Pods, NEW c \in Containers, Start(p, c) \/ Stop(p, c)
    PROVE  Inv'
  <1>1. PICK r \in {ZeroTime, clock} : run' = [run EXCEPT ![p][c] = r]
    BY DEF Start, Stop
  <1>2. UNCHANGED <<clock, boot, nodeSample, sample, nodes, pods>>
    BY DEF Start, Stop, storage
  <1>3. clock \in Nat /\ Epoch <= clock /\ r \in Nat
    BY EpochAssumption DEF Inv, TypeOK, ZeroTime
  <1>4. /\ run' \in [Pods -> [Containers -> Nat]] /\ run'[p][c] = r
        /\ \A q \in Pods, d \in Containers : q # p \/ d # c => run'[q][d] = run[q][d]
    BY <1>1, <1>3 DEF Inv, TypeOK
  <1>5. ContainerOK(sample[p][c], r, pods.last[p][c], pods.prev[p][c], clock)
    BY <1>3 DEF Inv, ContainersInv, ContainerOK, Genuine
  <1>6. ContainersInv'
    BY <1>2, <1>4, <1>5 DEF Inv, ContainersInv
  <1> QED
    BY <1>2, <1>4, <1>6 DEF Inv, TypeOK, NodesInv, PodsInv

(* A container's sample changes: forgotten, or measured again. *)
LEMMA SampleInv ==
    ASSUME Inv, NEW p \in Pods, NEW c \in Containers, NEW m \in OptPoint,
           sample' = [sample EXCEPT ![p][c] = m],
           UNCHANGED <<clock, boot, run, nodeSample, nodes, pods>>,
           ContainerOK(m, run[p][c], pods.last[p][c], pods.prev[p][c], clock),
           m # NoPoint => m.Timestamp = clock
    PROVE  Inv'
  <1>1. /\ sample' \in PodMap /\ sample'[p][c] = m
        /\ \A q \in Pods, d \in Containers : q # p \/ d # c => sample'[q][d] = sample[q][d]
    BY DEF Inv, TypeOK, PodMap, PodMetricsPoint
  <1>2. ContainersInv'
    BY <1>1 DEF Inv, ContainersInv
  <1>3. PodsInv'
    <2> SUFFICES ASSUME NEW q \in Pods, NEW d \in Containers, NEW e \in Containers,
                        pods.last[q][d] # NoPoint, pods.last[q][e] = NoPoint,
                        sample'[q][e] # NoPoint
                 PROVE  pods.last[q][d].Timestamp <= sample'[q][e].Timestamp
      BY DEF PodsInv, PodOK
    <2>1. CASE q = p /\ e = c
      BY <1>1, <2>1 DEF Inv, ContainersInv, ContainerOK, Genuine
    <2>2. CASE q # p \/ e # c
      BY <1>1, <2>2 DEF Inv, PodsInv, PodOK
    <2> QED
      BY <2>1, <2>2
  <1> QED
    BY <1>1, <1>2, <1>3 DEF Inv, TypeOK, NodesInv

(* A kubelet drops the sample of a stopped container.                         *)
LEMMA ForgetInv ==
    ASSUME Inv, NEW p \in Pods, NEW c \in Containers, Forget(p, c)
    PROVE  Inv'
  <1>1. /\ run[p][c] = ZeroTime /\ sample' = [sample EXCEPT ![p][c] = NoPoint]
        /\ UNCHANGED <<clock, boot, run, nodeSample, nodes, pods>>
    BY DEF Forget, storage
  <1>2. ContainerOK(NoPoint, run[p][c], pods.last[p][c], pods.prev[p][c], clock)
    BY <1>1 DEF Inv, ContainersInv, ContainerOK
  <1> QED
    BY <1>1, <1>2, SampleInv DEF OptPoint

(* A new sample of a container follows the last stored point.                 *)
LEMMA MeasureContainerInv ==
    ASSUME Inv, NEW p \in Pods, NEW c \in Containers, MeasureContainer(p, c)
    PROVE  Inv'
  <1> DEFINE s == sample[p][c]
             M(rate) == Measured(s, s # NoPoint /\ s.StartTime = run[p][c],
                                 run[p][c], run[p][c], rate)
  <1>1. PICK rate \in Rates : sample' = [sample EXCEPT ![p][c] = M(rate)]
    BY DEF MeasureContainer
  <1>2. run[p][c] # 0 /\ UNCHANGED <<clock, boot, run, nodeSample, nodes, pods>>
    BY DEF MeasureContainer, storage, ZeroTime
  <1>3. /\ run[p][c] \in Nat \ {0} /\ clock \in Epoch..MaxClock
        /\ s \in OptPoint /\ pods.last[p][c] \in OptPoint /\ pods.prev[p][c] \in OptPoint
        /\ ContainerOK(s, run[p][c], pods.last[p][c], pods.prev[p][c], clock)
    BY <1>2, Elements DEF Inv, ContainersInv
  <1>4. /\ M(rate) \in MetricsPoint /\ M(rate).Timestamp = clock
        /\ ContainerOK(M(rate), run[p][c], pods.last[p][c], pods.prev[p][c], clock)
    <2> HIDE DEF s
    <2> QED
      BY <1>3, MeasureContainerOK
  <1> HIDE DEF M
  <1> QED
    BY <1>1, <1>2, <1>4, SampleInv DEF OptPoint

(* A scrape stores what the kubelets that answered last measured (node.go:71, *)
(* pod.go:102, decode.go:133-189).                                            *)
LEMMA ScrapeInv ==
    ASSUME Inv, NEW answered, Scrape(answered)
    PROVE  Inv'
  <1> DEFINE ns == [n \in Nodes |->
                        IF n \in answered THEN DecodedNode(nodeSample[n]) ELSE NoPoint]
             ps == [p \in Pods |-> IF p \in answered THEN DecodedPod(sample[p]) ELSE NoContainers]
             batch == [Nodes |-> ns, Pods |-> ps]
  <1>1. nodes' = nodeStore(nodes, ns) /\ pods' = podStore(pods, ps)
        /\ UNCHANGED <<clock, boot, run, nodeSample, sample>>
    BY DEF Scrape, environment
  <1>2. ns \in NodeMap /\ \A n \in Nodes : ns[n] \in {NoPoint, nodeSample[n]}
    BY DEF DecodedNode, Inv, TypeOK, NodeMap, OptPoint
  <1>3. ps \in PodMap /\ \A p \in Pods : ps[p] \in {NoContainers, sample[p]}
    BY DEF DecodedPod, NoContainers, Inv, TypeOK, PodMap, PodMetricsPoint, OptPoint
  <1> HIDE DEF ns, ps
  <1>4. batch \in MetricsBatch /\ batch.Nodes = ns /\ batch.Pods = ps
    BY <1>2, <1>3 DEF MetricsBatch
  <1> HIDE DEF batch
  <1>5. nodes \in NodeStorage /\ pods \in PodStorage
    BY DEF Inv, TypeOK
  <1>6. /\ nodes' \in NodeStorage /\ pods' \in PodStorage
        /\ NodesOrdered(nodes)' /\ PodsOrdered(pods)'
    <2>1. /\ nodeStore(nodes, ns) \in NodeStorage /\ podStore(pods, ps) \in PodStorage
          /\ NodesOrdered(nodeStore(nodes, ns)) /\ PodsOrdered(podStore(pods, ps))
      BY <1>4, <1>5, StoreTypes, StoreOrdered
    <2> QED
      BY <1>1, <2>1 DEF NodesOrdered, PodsOrdered
  <1>7. NodesInv'
    <2> SUFFICES ASSUME NEW n \in Nodes
                 PROVE  NodeOK(nodeSample[n], boot[n], nodes'.last[n], nodes'.prev[n], clock)
      BY <1>1 DEF NodesInv
    <2>1. /\ nodes'.last[n] = ns[n]
          /\ nodes'.prev[n] = IF ns[n] = NoPoint THEN NoPoint
                              ELSE PrevNode(nodes.last[n], nodes.prev[n], ns[n])
      BY <1>1 DEF nodeStore
    <2>2. NodeOK(nodeSample[n], boot[n], nodes.last[n], nodes.prev[n], clock)
      BY DEF Inv, NodesInv
    <2> QED
      BY <1>2, <2>1, <2>2, Elements, StoreNodeOK DEF Inv
  <1>8. ContainersInv'
    <2> SUFFICES ASSUME NEW p \in Pods, NEW c \in Containers
                 PROVE  ContainerOK(sample[p][c], run[p][c], pods'.last[p][c], pods'.prev[p][c], clock)
      BY <1>1 DEF ContainersInv
    <2>1. /\ pods'.last[p][c] = ps[p][c]
          /\ pods'.prev[p][c] = IF ps[p][c] = NoPoint THEN NoPoint
                                ELSE PrevContainer(pods.last[p][c], pods.prev[p][c],
                                                   Found(pods.prev[p]), ps[p][c])
      BY <1>1 DEF podStore
    <2>2. ps[p][c] \in {NoPoint, sample[p][c]}
      BY <1>3 DEF NoContainers
    <2>3. ContainerOK(sample[p][c], run[p][c], pods.last[p][c], pods.prev[p][c], clock)
      BY DEF Inv, ContainersInv
    <2> QED
      BY <2>1, <2>2, <2>3, Elements, StoreContainerOK DEF Inv
  <1>9. PodsInv'
    <2>1. pods'.last = ps
      BY <1>1 DEF podStore
    <2> QED
      BY <1>1, <1>3, <2>1 DEF PodsInv, PodOK, NoContainers
  <1> QED
    BY <1>1, <1>6, <1>7, <1>8, <1>9 DEF Inv, TypeOK

(* The invariant holds however measurements, restarts, reboots and scrapes   *)
(* interleave.                                                               *)
LEMMA NextInv ==
    Inv /\ [Next]_vars => Inv'
  <1> SUFFICES ASSUME Inv, [Next]_vars PROVE Inv'
    OBVIOUS
  <1>1. ASSUME NEW n \in Nodes, Reboot(n) \/ MeasureNode(n) PROVE Inv'
    BY <1>1, RebootInv, MeasureNodeInv
  <1>2. ASSUME NEW p \in Pods, NEW c \in Containers,
               Start(p, c) \/ Stop(p, c) \/ Forget(p, c) \/ MeasureContainer(p, c)
        PROVE  Inv'
    BY <1>2, RunInv, ForgetInv, MeasureContainerInv
  <1>3. ASSUME UNCHANGED vars PROVE Inv'
    BY <1>3 DEF vars, Inv, TypeOK, NodesOrdered, PodsOrdered, NodesInv, ContainersInv, PodsInv
  <1> QED
    BY <1>1, <1>2, <1>3, TickInv, ScrapeInv DEF Next

(* What relates the storage to the kubelets holds of every reachable state.   *)
LEMMA Invariance ==
    Spec => []Inv
  BY InitInv, NextInv, PTL DEF Spec

-----------------------------------------------------------------------------
(* No restart lies between the two points of a container, however scrapes    *)
(* and restarts interleave (pod.go:121-146).                                 *)
THEOREM NoRestartsInWindows ==
    Spec => []NoRestartInWindow
  <1>1. Inv => NoRestartInWindow
    BY DEF Inv, ContainersInv, ContainerOK, Precedes, NoRestartInWindow, Stored, Genuine
  <1> QED
    BY <1>1, Invariance, PTL

(* resourceUsage has no error to report of genuine samples: a pod is served  *)
(* with every container its kubelet reported (types.go:53-60, pod.go:62-86). *)
LEMMA Completeness ==
    Inv => ServedPodIsComplete
  <1> SUFFICES ASSUME Inv, NEW p \in Pods, PodServed(pods, p), NEW c \in Containers,
                      pods.last[p][c] # NoPoint
               PROVE  ~UsageError(pods.last[p][c], pods.prev[p][c])
    BY DEF ServedPodIsComplete, ServedContainers
  <1> DEFINE last == pods.last[p][c]
             prev == pods.prev[p][c]
  <1>1. prev # NoPoint
    BY DEF PodServed
  <1>2. last \in MetricsPoint /\ prev \in MetricsPoint
    BY <1>1, Elements DEF Inv, OptPoint
  <1>3. /\ last.StartTime \in Nat /\ last.CumulativeCpuUsed \in Nat
        /\ prev.StartTime \in Nat /\ prev.CumulativeCpuUsed \in Nat
    BY <1>2, PointNumbers
  <1>4. ContainerOK(sample[p][c], run[p][c], last, prev, clock)
    BY DEF Inv, ContainersInv
  <1> HIDE DEF last, prev
  <1>5. ASSUME prev = ZeroPoint PROVE ~UsageError(last, prev)
    BY <1>3, <1>5 DEF UsageError, ZeroPoint, ZeroTime
  <1>6. ASSUME prev # ZeroPoint PROVE ~UsageError(last, prev)
    BY <1>1, <1>3, <1>4, <1>6 DEF ContainerOK, Precedes, UsageError
  <1> QED
    BY <1>5, <1>6 DEF last, prev

(* A pod that is served is shown with all the containers its kubelet         *)
(* reported, never with a part of them: GetMetrics skips a container whose   *)
(* usage is an error, and none is (pod.go:62-86).                            *)
THEOREM ServedPodsAreComplete ==
    Spec => []ServedPodIsComplete
  BY Completeness, Invariance, PTL

-----------------------------------------------------------------------------
(* A quotient by a window is within the capacity when the capacity could     *)
(* have made the dividend in that window (types.go:62-66).                   *)
LEMMA QuotientWithinCapacity ==
    ASSUME NEW last \in MetricsPoint, NEW prev \in MetricsPoint, ~UsageError(last, prev),
           NEW w \in Nat \ {0}, w = Sub(last.Timestamp, prev.Timestamp),
           last.CumulativeCpuUsed - prev.CumulativeCpuUsed <= Capacity * w
    PROVE  Value(CpuUsage(last, prev)) <= Capacity
  <1> DEFINE d == last.CumulativeCpuUsed - prev.CumulativeCpuUsed
             q == d \div w
  <1>1. d \in Nat /\ d <= Capacity * w
    BY PointNumbers DEF UsageError
  <1> HIDE DEF d
  <1>2. q \in Nat /\ q * w <= d
    BY <1>1
  <1> HIDE DEF q
  <1>3. q <= Capacity
    <2> SUFFICES ASSUME q > Capacity PROVE FALSE
      BY <1>2, RatesAssumption
    <2>1. (Capacity + 1) * w <= q * w
      BY <1>2, RatesAssumption
    <2>2. (Capacity + 1) * w = Capacity * w + w /\ Capacity * w \in Nat /\ q * w \in Nat
      BY <1>2, RatesAssumption
    <2> QED
      BY <1>1, <1>2, <2>1, <2>2
  <1>4. CpuUsage(last, prev) = uint64Quantity(q)
    BY DEF CpuUsage, q, d
  <1>5. Value(uint64Quantity(q)) <= q
    BY <1>2, MaxInt64Assumption DEF Value, uint64Quantity
  <1>6. Value(uint64Quantity(q)) \in Int
    BY <1>2, MaxInt64Assumption DEF Value, uint64Quantity
  <1> QED
    BY <1>2, <1>3, <1>4, <1>5, <1>6, RatesAssumption

(* Two points the capacity explains give a usage within it. *)
LEMMA WindowWithinCapacity ==
    ASSUME NEW last \in MetricsPoint, NEW prev \in MetricsPoint, ~UsageError(last, prev),
           Epoch <= prev.Timestamp, prev.Timestamp < last.Timestamp, last.Timestamp <= MaxClock,
           Idle(prev) <= Idle(last)
    PROVE  Value(CpuUsage(last, prev)) <= Capacity
  <1> DEFINE w == Sub(last.Timestamp, prev.Timestamp)
  <1>1. /\ last.Timestamp \in Nat /\ prev.Timestamp \in Nat
        /\ last.CumulativeCpuUsed \in Nat /\ prev.CumulativeCpuUsed \in Nat
        /\ Capacity * last.Timestamp \in Nat /\ Capacity * prev.Timestamp \in Nat
    BY PointNumbers
  <1>2. w = last.Timestamp - prev.Timestamp /\ w \in Nat \ {0}
    BY <1>1, EpochAssumption, MaxDurationAssumption DEF Sub
  <1>3. Capacity * w = Capacity * last.Timestamp - Capacity * prev.Timestamp
    BY <1>1, <1>2, Capacities, Zenon
  <1> HIDE DEF w
  <1>4. last.CumulativeCpuUsed - prev.CumulativeCpuUsed <= Capacity * w
    BY <1>1, <1>3 DEF Idle
  <1> QED
    BY <1>2, <1>4, QuotientWithinCapacity DEF w

(* So does a point and the zero point, over the longest duration: no life is *)
(* that long.                                                                *)
LEMMA ZeroWithinCapacity ==
    ASSUME NEW last \in MetricsPoint, ~UsageError(last, ZeroPoint), Genuine(last, MaxClock)
    PROVE  Value(CpuUsage(last, ZeroPoint)) <= Capacity
  <1> DEFINE w == Sub(last.Timestamp, ZeroPoint.Timestamp)
  <1>1. /\ last.Timestamp \in Nat /\ last.StartTime \in Nat
        /\ last.CumulativeCpuUsed \in Nat
        /\ Capacity * last.Timestamp \in Nat /\ Capacity * last.StartTime \in Nat
    BY PointNumbers
  <1>2. ZeroPoint \in MetricsPoint /\ ZeroPoint.CumulativeCpuUsed = 0
    BY MaxInt64Assumption DEF ZeroPoint, ZeroTime, MetricsPoint, Time, UInt64
  <1>3. w = MaxDuration
    BY <1>1, EpochAssumption, MaxDurationAssumption DEF Sub, ZeroPoint, ZeroTime, Genuine
  <1> HIDE DEF w
  <1>4. last.Timestamp - last.StartTime \in Nat /\ last.Timestamp - last.StartTime <= w
    BY <1>1, <1>3, EpochAssumption, MaxDurationAssumption DEF Genuine
  <1>5. /\ Capacity * (last.Timestamp - last.StartTime) <= Capacity * w
        /\ Capacity * (last.Timestamp - last.StartTime)
            = Capacity * last.Timestamp - Capacity * last.StartTime
        /\ Capacity * w \in Nat
    <2>1. w \in Nat
      BY <1>3, MaxDurationAssumption
    <2> QED
      BY <1>1, <1>4, <2>1, Capacities, Zenon
  <1>6. last.CumulativeCpuUsed - ZeroPoint.CumulativeCpuUsed <= Capacity * w
    BY <1>1, <1>2, <1>5 DEF Genuine, Idle
  <1> QED
    BY <1>2, <1>3, <1>6, MaxDurationAssumption, QuotientWithinCapacity DEF w

(* No node or container is shown to use more cores than exist: not across    *)
(* an unnoticed reboot, and not against the zero point (node.go:40-69,       *)
(* pod.go:48-100, types.go:53-69).                                           *)
THEOREM UsagesWithinCapacity ==
    Spec => []UsageWithinCapacity
  <1>1. ASSUME Inv, NEW n \in Nodes, NodeServed(nodes, n)
        PROVE  Value(NodeResult(nodes, n).Cpu) <= Capacity
    <2> DEFINE last == nodes.last[n]
               prev == nodes.prev[n]
    <2>1. last # NoPoint /\ prev # NoPoint /\ ~UsageError(last, prev)
      BY <1>1 DEF NodeServed
    <2>2. last \in MetricsPoint /\ prev \in MetricsPoint
      BY <1>1, <2>1, Elements DEF Inv, OptPoint
    <2>3. prev.Timestamp < last.Timestamp
      BY <1>1, <2>1 DEF Inv, NodesOrdered
    <2>4. NodeOK(nodeSample[n], boot[n], last, prev, clock)
      BY <1>1 DEF Inv, NodesInv
    <2>5. NodeResult(nodes, n).Cpu = CpuUsage(last, prev)
      BY <1>1 DEF NodeResult, resourceUsage
    <2> HIDE DEF last, prev
    <2>6. clock \in Nat /\ clock <= MaxClock /\ MaxClock \in Nat /\ last.Timestamp \in Nat
      BY <1>1, <2>2, Elements, EpochAssumption, PointNumbers DEF Inv
    <2>7. Epoch <= prev.Timestamp /\ last.Timestamp <= MaxClock /\ Idle(prev) <= Idle(last)
      BY <2>1, <2>4, <2>6 DEF NodeOK, GenuineNode, PrecedesNode
    <2>8. Value(CpuUsage(last, prev)) <= Capacity
      BY <2>1, <2>2, <2>3, <2>7, WindowWithinCapacity
    <2> QED
      BY <2>5, <2>8
  <1>2. ASSUME Inv, NEW p \in Pods, PodServed(pods, p), NEW c \in ServedContainers(pods, p)
        PROVE  Value(ContainerUsage(pods, p)[c].Cpu) <= Capacity
    <2> DEFINE last == pods.last[p][c]
               prev == pods.prev[p][c]
    <2>1. c \in Containers /\ last # NoPoint /\ prev # NoPoint /\ ~UsageError(last, prev)
      BY <1>2 DEF PodServed, ServedContainers
    <2>2. last \in MetricsPoint /\ prev \in MetricsPoint
      BY <1>2, <2>1, Elements DEF Inv, OptPoint
    <2>3. prev.Timestamp < last.Timestamp
      BY <1>2, <2>1 DEF Inv, PodsOrdered
    <2>4. ContainerOK(sample[p][c], run[p][c], last, prev, clock)
      BY <1>2, <2>1 DEF Inv, ContainersInv
    <2>5. ContainerUsage(pods, p)[c].Cpu = CpuUsage(last, prev)
      BY <2>1 DEF ContainerUsage, resourceUsage
    <2> HIDE DEF last, prev
    <2>6. /\ clock \in Nat /\ clock <= MaxClock /\ MaxClock \in Nat /\ Epoch \in Nat
          /\ last.Timestamp \in Nat /\ last.StartTime \in Nat /\ prev.Timestamp \in Nat
      BY <1>2, <2>2, Elements, EpochAssumption, PointNumbers DEF Inv
    <2>7. Genuine(last, MaxClock)
      BY <2>1, <2>4, <2>6 DEF ContainerOK, Genuine
    <2>8. ASSUME prev = ZeroPoint PROVE Value(CpuUsage(last, prev)) <= Capacity
      BY <2>1, <2>2, <2>7, <2>8, ZeroWithinCapacity
    <2>9. ASSUME prev # ZeroPoint PROVE Value(CpuUsage(last, prev)) <= Capacity
      <3>1. Epoch <= prev.Timestamp /\ last.Timestamp <= MaxClock /\ Idle(prev) <= Idle(last)
        BY <2>1, <2>4, <2>6, <2>7, <2>9 DEF ContainerOK, Genuine, Precedes
      <3> QED
        BY <2>1, <2>2, <2>3, <3>1, WindowWithinCapacity
    <2> QED
      BY <2>5, <2>8, <2>9
  <1>3. Inv => UsageWithinCapacity
    BY <1>1, <1>2 DEF UsageWithinCapacity
  <1> QED
    BY <1>3, Invariance, PTL

-----------------------------------------------------------------------------
(* The times a pod may be shown with are all the earliest of its containers'. *)
LEMMA PodTimes ==
    ASSUME NEW ps \in PodStorage, NEW p \in Pods, PodServed(ps, p),
           ServedContainers(ps, p) = {c \in Containers : ps.last[p][c] # NoPoint},
           NEW ti \in PodTimeInfos(ps, p)
    PROVE  /\ \E c \in Containers : ps.last[p][c] # NoPoint /\ ti.Timestamp = ps.last[p][c].Timestamp
           /\ \A c \in Containers : ps.last[p][c] # NoPoint => ti.Timestamp <= ps.last[p][c].Timestamp
  <1>1. ServedContainers(ps, p) # {}
    BY DEF PodServed, Found
  <1>2. PICK c \in Earliest(ps, p) : ti.Timestamp = ps.last[p][c].Timestamp
    BY <1>1 DEF PodTimeInfos
  <1> QED
    BY <1>2 DEF Earliest

(* From one scrape to the next, what is stored of a container that was        *)
(* reported before is not older, and what is stored of one that was not is    *)
(* not older than anything of its pod.                                        *)
LEMMA ScrapeAdvances ==
    ASSUME Inv, NEW answered, Scrape(answered)
    PROVE  /\ \A n \in Nodes : nodes.last[n] # NoPoint /\ nodes'.last[n] # NoPoint =>
                nodes.last[n].Timestamp <= nodes'.last[n].Timestamp
           /\ \A p \in Pods, c, d \in Containers :
                pods.last[p][c] # NoPoint /\ pods'.last[p][d] # NoPoint =>
                    \/ pods.last[p][d] # NoPoint
                        /\ pods.last[p][d].Timestamp <= pods'.last[p][d].Timestamp
                    \/ pods.last[p][c].Timestamp <= pods'.last[p][d].Timestamp
  <1>1. \A n \in Nodes : nodes'.last[n] \in {NoPoint, nodeSample[n]}
    BY DEF Scrape, nodeStore, DecodedNode
  <1>2. \A p \in Pods, c \in Containers : pods'.last[p][c] \in {NoPoint, sample[p][c]}
    BY DEF Scrape, podStore, DecodedPod, NoContainers
  <1>3. ASSUME NEW n \in Nodes, nodes.last[n] # NoPoint, nodes'.last[n] # NoPoint
        PROVE  nodes.last[n].Timestamp <= nodes'.last[n].Timestamp
    BY <1>1, <1>3 DEF Inv, NodesInv, NodeOK, PrecedesNode
  <1>4. ASSUME NEW p \in Pods, NEW c \in Containers, NEW d \in Containers,
               pods.last[p][c] # NoPoint, pods'.last[p][d] # NoPoint
        PROVE  \/ pods.last[p][d] # NoPoint
                    /\ pods.last[p][d].Timestamp <= pods'.last[p][d].Timestamp
               \/ pods.last[p][c].Timestamp <= pods'.last[p][d].Timestamp
    BY <1>2, <1>4 DEF Inv, ContainersInv, ContainerOK, Precedes, PodsInv, PodOK
  <1> QED
    BY <1>3, <1>4

(* What TimestampsAdvance says of one step. *)
Advances ==
    /\ \A n \in Nodes : NodeServed(nodes, n) /\ NodeServed(nodes', n) =>
        NodeResult(nodes, n).Timestamp <= NodeResult(nodes', n).Timestamp
    /\ \A p \in Pods : PodServed(pods, p) /\ PodServed(pods', p) =>
        \A before \in PodTimeInfos(pods, p), after \in PodTimeInfos(pods', p) :
            before.Timestamp <= after.Timestamp

(* The timestamp shown for a node or a pod never goes back from one scrape to *)
(* the next, although a pod's is the earliest of a set of containers that     *)
(* changes (pod.go:81-83).                                                    *)
THEOREM TimestampsAlwaysAdvance ==
    Spec => TimestampsAdvance
  <1>1. ASSUME Inv, ServedPodIsComplete, Inv', ServedPodIsComplete', [Next]_vars
        PROVE  Advances
    <2>1. \/ UNCHANGED <<nodes, pods>>
          \/ \E answered : Scrape(answered)
      BY <1>1 DEF Next, vars, storage, Tick, Reboot, MeasureNode, Start, Stop, Forget,
                  MeasureContainer
    <2>2. ASSUME NEW n \in Nodes, NodeServed(nodes, n), NodeServed(nodes', n)
          PROVE  NodeResult(nodes, n).Timestamp <= NodeResult(nodes', n).Timestamp
      <3>1. /\ NodeResult(nodes, n).Timestamp = nodes.last[n].Timestamp
            /\ NodeResult(nodes', n).Timestamp = nodes'.last[n].Timestamp
            /\ nodes.last[n] # NoPoint /\ nodes'.last[n] # NoPoint
        BY <2>2 DEF NodeResult, resourceUsage, NodeServed
      <3>2. nodes.last[n].Timestamp \in Nat
        BY <1>1, <3>1, Elements, PointNumbers DEF Inv, OptPoint
      <3> QED
        BY <1>1, <2>1, <3>1, <3>2, ScrapeAdvances
    <2>3. ASSUME NEW p \in Pods, PodServed(pods, p), PodServed(pods', p),
                 NEW before \in PodTimeInfos(pods, p), NEW after \in PodTimeInfos(pods', p)
          PROVE  before.Timestamp <= after.Timestamp
      <3>1. /\ ServedContainers(pods, p) = {c \in Containers : pods.last[p][c] # NoPoint}
            /\ ServedContainers(pods', p) = {c \in Containers : pods'.last[p][c] # NoPoint}
        BY <1>1, <2>3 DEF ServedPodIsComplete
      <3>2. pods \in PodStorage /\ pods' \in PodStorage
        BY <1>1 DEF Inv, TypeOK
      <3>3. PICK c \in Containers :
                pods.last[p][c] # NoPoint /\ before.Timestamp = pods.last[p][c].Timestamp
        BY <2>3, <3>1, <3>2, PodTimes
      <3>4. PICK d \in Containers :
                pods'.last[p][d] # NoPoint /\ after.Timestamp = pods'.last[p][d].Timestamp
        BY <2>3, <3>1, <3>2, PodTimes
      <3>5. pods.last[p][d] # NoPoint => before.Timestamp <= pods.last[p][d].Timestamp
        BY <2>3, <3>1, <3>2, PodTimes
      <3>6. /\ pods.last[p][d] # NoPoint => pods.last[p][d].Timestamp \in Nat
            /\ before.Timestamp \in Nat /\ after.Timestamp \in Nat
        <4>1. pods'.last[p][d] \in OptPoint
          BY <3>2 DEF PodStorage, PodMap, PodMetricsPoint
        <4> QED
          BY <1>1, <3>3, <3>4, <4>1, Elements, PointNumbers DEF Inv, OptPoint
      <3> QED
        BY <1>1, <2>1, <3>3, <3>4, <3>5, <3>6, ScrapeAdvances
    <2> QED
      BY <2>2, <2>3 DEF Advances
  <1>2. Inv /\ ServedPodIsComplete /\ Inv' /\ ServedPodIsComplete' /\ [Next]_vars => [Advances]_vars
    BY <1>1
  <1>3. Spec => [][Advances]_vars
    BY <1>2, Completeness, Invariance, PTL DEF Spec
  <1> QED
    BY <1>3 DEF TimestampsAdvance, Advances

-----------------------------------------------------------------------------
(* The decoder, whose batches the storage is given *)

(* A new point is a point. *)
LEMMA ZeroPointType ==
    ZeroPoint \in MetricsPoint /\ NoPoint \notin MetricsPoint
  BY MaxInt64Assumption, NoPointAssumption DEF ZeroPoint, MetricsPoint, ZeroTime, Time, UInt64

(* The latest series of each kind. *)
Series ==
    [cpu : Values \cup {Unreported}, mem : Values \cup {Unreported},
     start : Stamps \cup {Unreported}, cpuTime : Stamps \cup {DefaultTime, Unreported}]

Or0(value) == IF value = Unreported THEN 0 ELSE value

(* A point tells which series named its container: it is made by the first,  *)
(* and its time is set by those of CPU and memory.                           *)
Tells(point, series) ==
    /\ point \in MetricsPoint
    /\ point.CumulativeCpuUsed = Or0(series.cpu)
    /\ point.MemoryUsage = Or0(series.mem)
    /\ point.StartTime = Or0(series.start)
    /\ point.Timestamp = ZeroTime <=> series.cpu = Unreported /\ series.mem = Unreported
    /\ series.cpuTime = Unreported <=> series.cpu = Unreported

ContainerTells(point, series) ==
    IF point = NoPoint THEN series = NoSeries
    ELSE Tells(point, series) /\ series # NoSeries

(* The inductive invariant of the decoder. *)
DecodeInv ==
    /\ nodeReported \in Series /\ nodeReported.start = Unreported
    /\ reported \in [Pods -> [Containers -> Series]]
    /\ points \in PodMap
    /\ Tells(nodePoint, nodeReported)
    /\ \A p \in Pods, c \in Containers : ContainerTells(points[p][c], reported[p][c])
    /\ EverySeriesCounts
    /\ PodIsWholeOrAbsent

(* The series of a point after one more of them: it still tells. *)
LEMMA NextSeries ==
    ASSUME NEW series \in Series, NEW point, Tells(point, series),
           NEW value \in Values, NEW time \in Stamps \cup {DefaultTime}
    PROVE  /\ [series EXCEPT !.cpu = value, !.cpuTime = time] \in Series
           /\ Tells(WithCpu(point, value, time), [series EXCEPT !.cpu = value, !.cpuTime = time])
           /\ [series EXCEPT !.cpu = value, !.cpuTime = time] # NoSeries
           /\ [series EXCEPT !.mem = value] \in Series
           /\ Tells(WithMem(point, value, time), [series EXCEPT !.mem = value])
           /\ [series EXCEPT !.mem = value] # NoSeries
  <1>1. value \in UInt64 /\ value # Unreported /\ time \in Time \ {ZeroTime} /\ time # Unreported
    BY MaxInt64Assumption, DecodeAssumption DEF UInt64, Time
  <1> QED
    BY <1>1 DEF Series, Tells, Or0, WithCpu, WithMem, NoSeries, MetricsPoint

(* And a start time, which leaves the time of the point alone. *)
LEMMA NextStart ==
    ASSUME NEW series \in Series, NEW point, Tells(point, series),
           NEW time \in Stamps
    PROVE  /\ [series EXCEPT !.start = time] \in Series
           /\ Tells(WithStart(point, time), [series EXCEPT !.start = time])
           /\ [series EXCEPT !.start = time] # NoSeries
  <1>1. time \in Time /\ time # Unreported
    BY DecodeAssumption DEF Time
  <1> QED
    BY <1>1 DEF Series, Tells, Or0, WithStart, NoSeries, MetricsPoint

(* The point a series is applied to, new or not, tells of the series so far. *)
LEMMA PointTells ==
    ASSUME DecodeInv, NEW p \in Pods, NEW c \in Containers
    PROVE  reported[p][c] \in Series /\ Tells(PointOf(p, c), reported[p][c])
  <1>1. reported[p][c] \in Series /\ ContainerTells(points[p][c], reported[p][c])
    BY DEF DecodeInv
  <1>2. Tells(ZeroPoint, NoSeries)
    BY ZeroPointType DEF Tells, Or0, NoSeries, ZeroPoint, ZeroTime
  <1> QED
    BY <1>1, <1>2, ZeroPointType DEF PointOf, ContainerTells

(* Before the first line nothing is named. *)
LEMMA DecodeInitInv ==
    ASSUME DecodeInit
    PROVE  DecodeInv
  <1> USE DEF DecodeInit, NoPods, NoContainers, EmptyBatch
  <1>1. NoSeries \in Series
    BY DEF NoSeries, Series
  <1>2. Tells(nodePoint, nodeReported)
    BY ZeroPointType DEF Tells, Or0, NoSeries, ZeroPoint, ZeroTime
  <1>3. points \in PodMap
    BY DEF PodMap, PodMetricsPoint, OptPoint
  <1>4. \A p \in Pods, c \in Containers : ContainerTells(points[p][c], reported[p][c])
    BY DEF ContainerTells
  <1>5. EverySeriesCounts
    BY DEF EverySeriesCounts
  <1>6. PodIsWholeOrAbsent
    BY DEF PodIsWholeOrAbsent
  <1>7. nodeReported.start = Unreported
    BY DEF NoSeries
  <1> QED
    BY <1>1, <1>2, <1>3, <1>4, <1>5, <1>6, <1>7 DEF DecodeInv

(* While lines are parsed nothing is returned yet. *)
LEMMA Parsing ==
    ASSUME DecodeInv, parser = "parse", UNCHANGED <<parser, res>>
    PROVE  EverySeriesCounts' /\ PodIsWholeOrAbsent'
  <1>1. res = EmptyBatch
    BY DEF DecodeInv, EverySeriesCounts
  <1> QED
    BY <1>1 DEF EverySeriesCounts, PodIsWholeOrAbsent, EmptyBatch, NoPods,
                NoContainers

(* A series of the node (decode.go:115-126). *)
LEMMA NodeSeriesInv ==
    ASSUME DecodeInv, NEW value \in Values, NEW time \in SeriesTimes,
           parseNodeCpuUsageMetrics(value, time) \/ parseNodeMemUsageMetrics(value, time)
    PROVE  DecodeInv'
  <1> USE DEF parseNodeCpuUsageMetrics, parseNodeMemUsageMetrics
  <1>1. time \in Stamps \cup {DefaultTime}
    BY DEF SeriesTimes
  <1>2. nodeReported \in Series /\ Tells(nodePoint, nodeReported) /\ nodeReported.start = Unreported
    BY DEF DecodeInv
  <1>3. nodeReported' \in Series /\ Tells(nodePoint, nodeReported)'
    <2>1. CASE parseNodeCpuUsageMetrics(value, time)
      <3>1. /\ nodeReported' = [nodeReported EXCEPT !.cpu = value, !.cpuTime = time]
            /\ nodePoint' = WithCpu(nodePoint, value, time)
        BY <2>1
      <3>2. nodeReported' \in Series /\ Tells(nodePoint', nodeReported')
        BY <1>1, <1>2, <3>1, NextSeries
      <3> QED
        BY <3>2 DEF Tells
    <2>2. CASE parseNodeMemUsageMetrics(value, time)
      <3>1. /\ nodeReported' = [nodeReported EXCEPT !.mem = value]
            /\ nodePoint' = WithMem(nodePoint, value, time)
        BY <2>2
      <3>2. nodeReported' \in Series /\ Tells(nodePoint', nodeReported')
        BY <1>1, <1>2, <3>1, NextSeries
      <3> QED
        BY <3>2 DEF Tells
    <2> QED
      BY <2>1, <2>2
  <1>4. nodeReported'.start = Unreported
    BY <1>2 DEF Series
  <1>5. EverySeriesCounts' /\ PodIsWholeOrAbsent'
    BY Parsing
  <1> QED
    BY <1>3, <1>4, <1>5 DEF DecodeInv

(* A series of a container (decode.go:128-167). *)
LEMMA ContainerSeriesInv ==
    ASSUME DecodeInv, NEW p \in Pods, NEW c \in Containers,
           NEW point \in MetricsPoint, NEW series \in Series, Tells(point, series),
           series # NoSeries, parser = "parse",
           points' = [points EXCEPT ![p][c] = point],
           reported' = [reported EXCEPT ![p][c] = series],
           UNCHANGED <<parser, nodePoint, res, nodeReported>>
    PROVE  DecodeInv'
  <1>1. points' \in PodMap /\ reported' \in [Pods -> [Containers -> Series]]
    BY DEF DecodeInv, PodMap, PodMetricsPoint, OptPoint
  <1>2. ASSUME NEW q \in Pods, NEW d \in Containers
        PROVE  ContainerTells(points'[q][d], reported'[q][d])
    <2>1. CASE q = p /\ d = c
      BY <2>1, ZeroPointType DEF ContainerTells, DecodeInv, PodMap, PodMetricsPoint
    <2>2. CASE ~(q = p /\ d = c)
      <3>1. points'[q][d] = points[q][d] /\ reported'[q][d] = reported[q][d]
        BY <2>2 DEF DecodeInv, PodMap, PodMetricsPoint
      <3> QED
        BY <3>1 DEF DecodeInv
    <2> QED
      BY <2>1, <2>2
  <1>3. EverySeriesCounts' /\ PodIsWholeOrAbsent'
    BY Parsing
  <1>4. \A q \in Pods, d \in Containers : ContainerTells(points[q][d], reported[q][d])'
    BY <1>2 DEF ContainerTells, Tells
  <1> QED
    BY <1>1, <1>3, <1>4 DEF DecodeInv, Tells

(* EOF: what the points tell decides what is returned (decode.go:82-109, 188-202). *)
LEMMA decodeBatchInv ==
    ASSUME DecodeInv, decodeBatch
    PROVE  DecodeInv'
  <1>1. /\ UNCHANGED <<nodePoint, points, nodeReported, reported>> /\ parser' = "done"
        /\ res' = [node |-> IF CompleteNode(nodePoint) THEN nodePoint ELSE NoPoint,
                   pods |-> [p \in Pods |-> checkContainerMetrics(points[p])]]
    BY DEF decodeBatch
  <1>2. res'.node # NoPoint => Says(res'.node, nodeReported)
    BY <1>1, ZeroPointType DEF CompleteNode, Says, DecodeInv, Tells, Or0, Series, ZeroTime
  <1>3. ASSUME NEW p \in Pods
        PROVE  LET named == {c \in Containers : Named(p, c)}
                   returned == {c \in Containers : res'.pods[p][c] # NoPoint}
               IN  /\ returned = IF \A c \in named : CompleteContainer(p, c) THEN named ELSE {}
                   /\ \A c \in returned : Says(res'.pods[p][c], reported[p][c])
    <2> DEFINE pod == points[p]
               Dropped(c) == pod[c].CumulativeCpuUsed = 0 \/ pod[c].MemoryUsage = 0
    <2>1. ASSUME NEW c \in Containers
          PROVE  /\ Named(p, c) <=> pod[c] # NoPoint
                 /\ Named(p, c) => pod[c] # ZeroPoint /\ Tells(pod[c], reported[p][c])
                 /\ Named(p, c) => (CompleteContainer(p, c) <=> ~Dropped(c))
      <3>1. ContainerTells(pod[c], reported[p][c]) /\ reported[p][c] \in Series
        BY DEF DecodeInv
      <3>2. Named(p, c) <=> pod[c] # NoPoint
        BY <3>1, ZeroPointType DEF ContainerTells, Named
      <3>3. ASSUME Named(p, c) PROVE pod[c] # ZeroPoint /\ Tells(pod[c], reported[p][c])
        <4>1. Tells(pod[c], reported[p][c]) /\ reported[p][c] # NoSeries
          BY <3>1, <3>2, <3>3 DEF ContainerTells
        <4>2. ASSUME pod[c] = ZeroPoint PROVE FALSE
          <5>1. /\ reported[p][c].cpu = Unreported /\ reported[p][c].mem = Unreported
                /\ reported[p][c].cpuTime = Unreported
            BY <4>1, <4>2 DEF Tells, ZeroPoint
          <5>2. reported[p][c].start = Unreported
            BY <3>1, <4>1, <4>2, DecodeAssumption DEF Tells, ZeroPoint, Or0, Series, ZeroTime
          <5> QED
            BY <3>1, <4>1, <5>1, <5>2 DEF Series, NoSeries
        <4> QED
          BY <4>1, <4>2
      <3>4. ASSUME Named(p, c) PROVE CompleteContainer(p, c) <=> ~Dropped(c)
        BY <3>1, <3>3, <3>4 DEF Tells, Or0, Series, CompleteContainer
      <3> QED
        BY <3>2, <3>3, <3>4
    <2>2. res'.pods[p] = checkContainerMetrics(pod)
      BY <1>1
    <2> HIDE DEF pod
    <2>3. CASE \E c \in Containers : Named(p, c) /\ Dropped(c)
      <3>1. res'.pods[p] = NoContainers
        BY <2>1, <2>2, <2>3, ZeroPointType DEF checkContainerMetrics
      <3> QED
        BY <2>1, <2>3, <3>1 DEF NoContainers
    <2>4. CASE \A c \in Containers : Named(p, c) => ~Dropped(c)
      <3>1. \A c \in Containers : res'.pods[p][c] = pod[c]
        BY <2>1, <2>2, <2>4, ZeroPointType DEF checkContainerMetrics
      <3>2. ASSUME NEW c \in Containers, Named(p, c)
            PROVE  Says(pod[c], reported[p][c])
        <4>1. Tells(pod[c], reported[p][c]) /\ ~Dropped(c) /\ CompleteContainer(p, c)
          BY <2>1, <2>4, <3>2
        <4> QED
          BY <4>1, ZeroPointType DEF Tells, Or0, Says, CompleteContainer, ZeroTime
      <3> QED
        BY <2>1, <2>4, <3>1, <3>2
    <2> QED
      BY <2>3, <2>4
  <1>4. EverySeriesCounts'
    BY <1>1, <1>2, <1>3 DEF EverySeriesCounts, Says
  <1>5. PodIsWholeOrAbsent'
    BY <1>1, <1>3 DEF PodIsWholeOrAbsent, Named, CompleteContainer
  <1> QED
    BY <1>1, <1>4, <1>5 DEF DecodeInv, ContainerTells, Tells

(* The series of a container keep the invariant. *)
LEMMA ContainerInv ==
    ASSUME DecodeInv, NEW p \in Pods, NEW c \in Containers,
           \/ \E value \in Values, time \in SeriesTimes :
                \/ parseContainerCpuMetrics(p, c, value, time)
                \/ parseContainerMemMetrics(p, c, value, time)
           \/ \E time \in Stamps : parseContainerStartTimeMetrics(p, c, time)
    PROVE  DecodeInv'
  <1>1. reported[p][c] \in Series /\ Tells(PointOf(p, c), reported[p][c])
    BY PointTells
  <1> DEFINE Applied(point, series) ==
            /\ series \in Series /\ Tells(point, series) /\ series # NoSeries
            /\ points' = [points EXCEPT ![p][c] = point]
            /\ reported' = [reported EXCEPT ![p][c] = series]
            /\ parser = "parse" /\ UNCHANGED <<parser, nodePoint, res, nodeReported>>
  <1>2. PICK point, series : Applied(point, series)
    <2>1. ASSUME NEW value \in Values, NEW time \in SeriesTimes,
                 parseContainerCpuMetrics(p, c, value, time)
          PROVE  \E point, series : Applied(point, series)
      <3> DEFINE s == [reported[p][c] EXCEPT !.cpu = value, !.cpuTime = time]
                 x == WithCpu(PointOf(p, c), value, time)
      <3>1. s \in Series /\ Tells(x, s) /\ s # NoSeries
        BY <1>1, NextSeries DEF SeriesTimes
      <3>2. /\ points' = [points EXCEPT ![p][c] = x] /\ reported' = [reported EXCEPT ![p][c] = s]
            /\ parser = "parse" /\ UNCHANGED <<parser, nodePoint, res, nodeReported>>
        BY <2>1 DEF parseContainerCpuMetrics, DecodeInv
      <3> QED
        BY <3>1, <3>2
    <2>2. ASSUME NEW value \in Values, NEW time \in SeriesTimes,
                 parseContainerMemMetrics(p, c, value, time)
          PROVE  \E point, series : Applied(point, series)
      <3> DEFINE s == [reported[p][c] EXCEPT !.mem = value]
                 x == WithMem(PointOf(p, c), value, time)
      <3>1. s \in Series /\ Tells(x, s) /\ s # NoSeries
        BY <1>1, NextSeries DEF SeriesTimes
      <3>2. /\ points' = [points EXCEPT ![p][c] = x] /\ reported' = [reported EXCEPT ![p][c] = s]
            /\ parser = "parse" /\ UNCHANGED <<parser, nodePoint, res, nodeReported>>
        BY <2>2 DEF parseContainerMemMetrics, DecodeInv
      <3> QED
        BY <3>1, <3>2
    <2>3. ASSUME NEW time \in Stamps, parseContainerStartTimeMetrics(p, c, time)
          PROVE  \E point, series : Applied(point, series)
      <3> DEFINE s == [reported[p][c] EXCEPT !.start = time]
                 x == WithStart(PointOf(p, c), time)
      <3>1. s \in Series /\ Tells(x, s) /\ s # NoSeries
        BY <1>1, NextStart
      <3>2. /\ points' = [points EXCEPT ![p][c] = x] /\ reported' = [reported EXCEPT ![p][c] = s]
            /\ parser = "parse" /\ UNCHANGED <<parser, nodePoint, res, nodeReported>>
        BY <2>3 DEF parseContainerStartTimeMetrics, DecodeInv
      <3> QED
        BY <3>1, <3>2
    <2> QED
      BY <2>1, <2>2, <2>3
  <1>3. point \in MetricsPoint
    BY <1>2 DEF Tells
  <1> QED
    BY <1>2, <1>3, ContainerSeriesInv

(* One line, or the end of the answer. *)
LEMMA DecodeNextInv ==
    ASSUME DecodeInv, [DecodeNext]_decodeVars
    PROVE  DecodeInv'
  <1>1. ASSUME NEW value \in Values, NEW time \in SeriesTimes,
               parseNodeCpuUsageMetrics(value, time) \/ parseNodeMemUsageMetrics(value, time)
        PROVE  DecodeInv'
    BY <1>1, NodeSeriesInv
  <1>2. ASSUME NEW p \in Pods, NEW c \in Containers,
               \/ \E value \in Values, time \in SeriesTimes :
                    \/ parseContainerCpuMetrics(p, c, value, time)
                    \/ parseContainerMemMetrics(p, c, value, time)
               \/ \E time \in Stamps : parseContainerStartTimeMetrics(p, c, time)
        PROVE  DecodeInv'
    BY <1>2, ContainerInv
  <1>3. CASE ParseFails
    BY <1>3 DEF ParseFails, DecodeInv, Tells, ContainerTells, EverySeriesCounts,
                PodIsWholeOrAbsent, Says
  <1>4. CASE decodeBatch
    BY <1>4, decodeBatchInv
  <1>5. CASE UNCHANGED decodeVars
    BY <1>5 DEF decodeVars, DecodeInv, Tells, ContainerTells, EverySeriesCounts,
                PodIsWholeOrAbsent, Says, Named, CompleteContainer
  <1> QED
    BY <1>1, <1>2, <1>3, <1>4, <1>5 DEF DecodeNext

(* The invariant holds however the lines come. *)
LEMMA DecodeInvariance ==
    DecodeSpec => []DecodeInv
  <1>1. DecodeInit => DecodeInv
    BY DecodeInitInv
  <1>2. DecodeInv /\ [DecodeNext]_decodeVars => DecodeInv'
    BY DecodeNextInv
  <1> QED
    BY <1>1, <1>2, PTL DEF DecodeSpec

(* Whatever the order of the series, the batch returned carries the latest  *)
(* value of each, and every point of it a time (decode.go:95, 193).         *)
THEOREM DecodedSeriesCount ==
    DecodeSpec => []EverySeriesCounts
  <1>1. DecodeInv => EverySeriesCounts
    BY DEF DecodeInv
  <1> QED
    BY <1>1, DecodeInvariance, PTL

(* A pod is returned with all the containers named, or not at all           *)
(* (decode.go:188-202): what the storage is given is never a part of a pod. *)
THEOREM DecodedPodsAreWhole ==
    DecodeSpec => []PodIsWholeOrAbsent
  <1>1. DecodeInv => PodIsWholeOrAbsent
    BY DEF DecodeInv
  <1> QED
    BY <1>1, DecodeInvariance, PTL

-----------------------------------------------------------------------------
(* What the kubelets of KubeletStorage measure has a time and takes memory. *)
HasTimeAndMemory(s) == s # NoPoint => s.Timestamp # ZeroTime /\ s.MemoryUsage # 0

SamplesInv ==
    /\ \A n \in Nodes : HasTimeAndMemory(nodeSample[n])
    /\ \A p \in Pods, c \in Containers : HasTimeAndMemory(sample[p][c])

(* The batch of Scrape is what decodeBatch makes of the points of the       *)
(* kubelets' answers.                                                       *)
DecodesAlike ==
    /\ \A n \in Nodes : nodeSample[n] # NoPoint =>
            DecodedNode(nodeSample[n]) =
                IF CompleteNode(nodeSample[n]) THEN nodeSample[n] ELSE NoPoint
    /\ \A p \in Pods : DecodedPod(sample[p]) = checkContainerMetrics(sample[p])

(* Only the two measurements make new samples. *)
LEMMA SamplesNext ==
    ASSUME Inv, SamplesInv, [Next]_vars
    PROVE  SamplesInv'
  <1>1. clock \in Nat /\ clock > 0 /\ ZeroTime = 0
    BY EpochAssumption, MaxDurationAssumption DEF Inv, TypeOK, ZeroTime
  <1>2. nodeSample \in NodeMap /\ sample \in PodMap
    BY DEF Inv, TypeOK
  <1>3. ASSUME NEW n \in Nodes, MeasureNode(n) PROVE SamplesInv'
    BY <1>1, <1>2, <1>3 DEF MeasureNode, Measured, SamplesInv, HasTimeAndMemory, NodeMap
  <1>4. ASSUME NEW p \in Pods, NEW c \in Containers, MeasureContainer(p, c) PROVE SamplesInv'
    BY <1>1, <1>2, <1>4 DEF MeasureContainer, Measured, SamplesInv, HasTimeAndMemory, PodMap,
                            PodMetricsPoint
  <1>5. ASSUME NEW p \in Pods, NEW c \in Containers, Forget(p, c) PROVE SamplesInv'
    BY <1>2, <1>5 DEF Forget, SamplesInv, HasTimeAndMemory, PodMap, PodMetricsPoint
  <1>6. ASSUME NEW n \in Nodes, Reboot(n) PROVE SamplesInv'
    BY <1>2, <1>6 DEF Reboot, SamplesInv, HasTimeAndMemory, NodeMap
  <1>7. CASE UNCHANGED <<nodeSample, sample>>
    BY <1>7 DEF SamplesInv, HasTimeAndMemory
  <1>8. ASSUME NEW p \in Pods, NEW c \in Containers, Start(p, c) \/ Stop(p, c)
        PROVE  UNCHANGED <<nodeSample, sample>>
    BY <1>8 DEF Start, Stop
  <1>9. Tick \/ (\E answered : Scrape(answered)) \/ UNCHANGED vars =>
            UNCHANGED <<nodeSample, sample>>
    BY DEF Tick, Scrape, vars, environment
  <1> QED
    BY <1>3, <1>4, <1>5, <1>6, <1>7, <1>8, <1>9 DEF Next

(* A batch is decoded in KubeletStorage as module Decode says              *)
(* (decode.go:82-109, 188-202), so that what is proved of the storage      *)
(* above is proved of batches the decoder returns.                         *)
THEOREM BatchesAreDecoded ==
    Spec => []DecodesAlike
  <1>1. Init => SamplesInv
    BY DEF Init, SamplesInv, HasTimeAndMemory, NoNodes, NoPods, NoContainers
  <1>2. Inv /\ SamplesInv /\ [Next]_vars => SamplesInv'
    BY SamplesNext
  <1>3. Inv /\ SamplesInv => DecodesAlike
    <2> SUFFICES ASSUME Inv, SamplesInv PROVE DecodesAlike
      OBVIOUS
    <2>1. ASSUME NEW n \in Nodes, nodeSample[n] # NoPoint
          PROVE  DecodedNode(nodeSample[n]) =
                    IF CompleteNode(nodeSample[n]) THEN nodeSample[n] ELSE NoPoint
      BY <2>1, ZeroPointType DEF SamplesInv, HasTimeAndMemory, DecodedNode, CompleteNode
    <2>2. ASSUME NEW p \in Pods
          PROVE  DecodedPod(sample[p]) = checkContainerMetrics(sample[p])
      <3> DEFINE s == sample[p]
      <3>1. s \in [Containers -> OptPoint]
        BY DEF Inv, TypeOK, PodMap, PodMetricsPoint
      <3>2. \A c \in Containers : s[c] # NoPoint =>
                s[c].Timestamp # ZeroTime /\ s[c].MemoryUsage # 0
        BY DEF SamplesInv, HasTimeAndMemory
      <3> HIDE DEF s
      <3>3. \A c \in Containers : s[c] # ZeroPoint
        BY <3>1, <3>2, ZeroPointType DEF ZeroPoint
      <3>4. s = [c \in Containers |-> IF s[c] = ZeroPoint THEN NoPoint ELSE s[c]]
        BY <3>1, <3>3
      <3> DEFINE All == \A c \in Containers : s[c] # NoPoint => s[c].CumulativeCpuUsed # 0
                 Drop == \E c \in Containers :
                            /\ s[c] \notin {NoPoint, ZeroPoint}
                            /\ s[c].CumulativeCpuUsed = 0 \/ s[c].MemoryUsage = 0
      <3>5. All <=> ~Drop
        BY <3>2, <3>3
      <3>6. /\ DecodedPod(s) = IF All THEN s ELSE NoContainers
            /\ checkContainerMetrics(s) =
                    IF Drop THEN NoContainers
                    ELSE [c \in Containers |-> IF s[c] = ZeroPoint THEN NoPoint ELSE s[c]]
        BY Zenon DEF DecodedPod, checkContainerMetrics
      <3> HIDE DEF All, Drop
      <3>7. DecodedPod(s) = checkContainerMetrics(s)
        BY <3>4, <3>5, <3>6
      <3> QED
        BY <3>7 DEF s
    <2> QED
      BY <2>1, <2>2 DEF DecodesAlike
  <1> QED
    BY <1>1, <1>2, <1>3, Invariance, PTL DEF Spec
=============================================================================
