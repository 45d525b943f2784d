------------------------ MODULE LinearizationProofs -------------------------
(***************************************************************************)
(* The storage with its lock implements the atomic one: for any number of  *)
(* readers, any names and any batches.                                     *)
(***************************************************************************)
EXTENDS Storage, FiniteSetTheorems, TLAPS

(* The lemmas about the data, as the proofs of the storage have them. *)
Data == INSTANCE StorageProofs
            WITH pods <- podsSeen, pointsStored <- gaugeSeen, reply <- replySeen

(* Both modules have the same types. *)
LEMMA SameTypes ==
    /\ Data!OptPoint = OptPoint /\ Data!MetricsPoint = MetricsPoint /\ Data!Quantity = Quantity
    /\ Data!NodeStorage = NodeStorage /\ Data!PodStorage = PodStorage
    /\ Data!MetricsBatch = MetricsBatch
    /\ \A S : Data!IsFiniteSet(S) = IsFiniteSet(S)
  <1>1. Data!OptPoint = OptPoint /\ Data!MetricsPoint = MetricsPoint /\ Data!Quantity = Quantity
    BY DEF Data!OptPoint, OptPoint, Data!MetricsPoint, MetricsPoint, Data!Quantity, Quantity,
           Data!Time, Time, Data!UInt64, UInt64
  <1>2. /\ Data!NodeStorage = NodeStorage /\ Data!PodStorage = PodStorage
        /\ Data!MetricsBatch = MetricsBatch
    BY <1>1 DEF Data!NodeStorage, NodeStorage, Data!PodStorage, PodStorage, Data!MetricsBatch,
           MetricsBatch, Data!NodeMap, NodeMap, Data!PodMap, PodMap,
           Data!PodMetricsPoint, PodMetricsPoint
  <1>3. \A S : Data!IsFiniteSet(S) = IsFiniteSet(S)
    BY DEF Data!IsFiniteSet, IsFiniteSet
  <1> QED
    BY <1>1, <1>2, <1>3

(* The assumptions the lemmas rest on. *)
LEMMA DataAssumptions ==
    /\ NoPoint \notin Data!MetricsPoint
    /\ Undefined \notin Data!Quantity
    /\ Data!IsFiniteSet(Nodes) /\ Data!IsFiniteSet(Pods) /\ Data!IsFiniteSet(Containers)
    /\ Batches \subseteq Data!MetricsBatch
  BY StorageBatchesAssumption, SameTypes, NoPointAssumption, UndefinedAssumption, NamesAssumption

(* And the same operations. *)
LEMMA SameOperations ==
    /\ \A s : Data!NodesOrdered(s) = NodesOrdered(s) /\ Data!PodsOrdered(s) = PodsOrdered(s)
    /\ \A s, b : Data!nodeStore(s, b) = nodeStore(s, b)
    /\ \A s, b : Data!podStore(s, b) = podStore(s, b)
  <1>1. \A s : Data!NodesOrdered(s) = NodesOrdered(s) /\ Data!PodsOrdered(s) = PodsOrdered(s)
    BY DEF Data!NodesOrdered, NodesOrdered, Data!PodsOrdered, PodsOrdered
  <1>2. \A s, b : Data!nodeStore(s, b) = nodeStore(s, b)
    BY DEF Data!nodeStore, nodeStore, Data!PrevNode, PrevNode
  <1>3. \A l, p, i, n : Data!PrevContainer(l, p, i, n) = PrevContainer(l, p, i, n)
    BY Zenon DEF Data!PrevContainer, PrevContainer, Data!IsFresh, IsFresh, Data!AtStart, AtStart,
       Data!MapRead, MapRead, Data!ZeroPoint, ZeroPoint, Data!ZeroTime, ZeroTime, Data!Sub, Sub
  <1>4. \A pod : Data!Found(pod) = Found(pod)
    BY DEF Data!Found, Found
  <1>5. \A s, b : Data!podStore(s, b) = podStore(s, b)
    BY <1>3, <1>4 DEF Data!podStore, podStore
  <1> QED
    BY <1>1, <1>2, <1>5

(* The maps Store builds have the types of the storage (node.go:71, pod.go:102). *)
LEMMA StoreTypes ==
    ASSUME NEW ns \in NodeStorage, NEW ps \in PodStorage, NEW b \in MetricsBatch
    PROVE  /\ nodeStore(ns, b.Nodes) \in NodeStorage
           /\ podStore(ps, b.Pods) \in PodStorage
  BY Data!StoreTypes, SameTypes, SameOperations, DataAssumptions, MaxInt64Assumption,
     ResolutionAssumption, MaxDurationAssumption

(* Store keeps the order, whatever it is given (node.go:71, pod.go:102). *)
LEMMA StoreOrdered ==
    ASSUME NEW ns \in NodeStorage, NEW ps \in PodStorage, NEW b \in MetricsBatch
    PROVE  /\ NodesOrdered(nodeStore(ns, b.Nodes))
           /\ PodsOrdered(podStore(ps, b.Pods))
  BY Data!StoreOrdered, SameTypes, SameOperations, DataAssumptions, MaxInt64Assumption,
     ResolutionAssumption, MaxDurationAssumption

(* The gauge's values are natural numbers: finitely many names. *)
LEMMA GaugeTypes ==
    ASSUME NEW ns, NEW ps
    PROVE  NodePoints(ns) \in Nat /\ ContainerPoints(ps) \in Nat
  <1>1. \A S : Data!Cardinality(S) = Cardinality(S)
    BY DEF Data!Cardinality, Cardinality, Data!IsFiniteSet, IsFiniteSet
  <1> QED
    BY <1>1, Data!GaugeTypes, DataAssumptions, MaxInt64Assumption, ResolutionAssumption,
       MaxDurationAssumption
    DEF NodePoints, ContainerPoints, Data!NodePoints, Data!ContainerPoints

(* Both modules compute the same usages. *)
LEMMA SameUsages ==
    /\ Data!Usage = Usage
    /\ \A l, p : Data!resourceUsage(l, p) = resourceUsage(l, p)
    /\ \A l, p : Data!UsageError(l, p) = UsageError(l, p)
    /\ \A u : Data!UsageDefined(u) = UsageDefined(u)
    /\ \A s, n : Data!NodeResult(s, n) = NodeResult(s, n)
  <1>1. Data!Usage = Usage
    BY SameTypes DEF Data!Usage, Usage, Data!Time, Time
  <1>2. \A l, p : Data!UsageError(l, p) = UsageError(l, p)
    BY DEF Data!UsageError, UsageError
  <1>3. \A l, p : Data!resourceUsage(l, p) = resourceUsage(l, p)
    BY Zenon DEF Data!resourceUsage, resourceUsage, Data!CpuUsage, CpuUsage, Data!Sub, Sub,
       Data!uint64Quantity, uint64Quantity
  <1>4. \A u : Data!UsageDefined(u) = UsageDefined(u)
    BY DEF Data!UsageDefined, UsageDefined
  <1>5. \A s, n : Data!NodeResult(s, n) = NodeResult(s, n)
    BY <1>2, <1>3 DEF Data!NodeResult, NodeResult, Data!NodeServed, NodeServed
  <1> QED
    BY <1>1, <1>2, <1>3, <1>4, <1>5

(* A usage computed from two points has its type (types.go:53-69). *)
LEMMA UsageType ==
    ASSUME NEW last \in MetricsPoint, NEW prev \in MetricsPoint, ~UsageError(last, prev)
    PROVE  resourceUsage(last, prev) \in Usage
  BY Data!UsageType, SameTypes, SameUsages, DataAssumptions, MaxInt64Assumption,
     ResolutionAssumption, MaxDurationAssumption

(* What GetMetrics computes for a node has its type and is defined (node.go:40-69). *)
LEMMA NodeResultGood ==
    ASSUME NEW ns \in NodeStorage, NodesOrdered(ns), NEW n \in Nodes
    PROVE  /\ NodeResult(ns, n) \in Usage \cup {NotServed}
           /\ NodeResult(ns, n) # NotServed => UsageDefined(NodeResult(ns, n))
  BY Data!NodeResultGood, SameTypes, SameOperations, SameUsages, DataAssumptions,
     MaxInt64Assumption, ResolutionAssumption, MaxDurationAssumption

-----------------------------------------------------------------------------
(* The inductive invariant: the lock excludes readers from Store, every     *)
(* partial answer agrees with the maps, and previous points are older, by   *)
(* which a container's time is never mistaken for the zero time.            *)
Inv ==
    /\ TypeOK
    /\ ExclusiveStore
    /\ ReadersSeeOneStore
    /\ NodesOrdered(nodes)
    /\ PodsOrdered(pods)

-----------------------------------------------------------------------------
(* A call that has done nothing is well typed. *)
LEMMA InCallType ==
    ASSUME NEW stage \in Stages,
           NEW op \in {"none", "Ready", "GetNodeMetrics", "GetPodMetrics"},
           NEW names \in SUBSET (Nodes \cup Pods),
           NEW todo \in SUBSET (Nodes \cup Pods \cup {"nodes.prev", "pods.prev"})
    PROVE  InCall(stage, op, names, todo) \in ReaderState
  BY DEF InCall, ReaderState, NothingServed, NoTime, ZeroTime, Time, NoNodeAnswer, NoPodAnswer

(* A reader in no call is well typed and good (storage.go:42-58). *)
LEMMA NoCallGood ==
    ASSUME NEW ns, NEW ps, NEW pc
    PROVE  NoCall \in ReaderState /\ ReaderGood(NoCall, ns, ps, pc)
  <1>1. NoCall \in ReaderState
    BY InCallType DEF NoCall, Stages
  <1> QED
    BY <1>1 DEF NoCall, InCall, ReaderGood

(* The empty storage satisfies the invariant (storage.go:36). *)
LEMMA InitInv ==
    Init => Inv
  <1> SUFFICES ASSUME Init PROVE Inv
    OBVIOUS
  <1>1. nodes \in NodeStorage /\ pods \in PodStorage /\ batch \in MetricsBatch
    BY DEF Init, NodeStorage, PodStorage, NodeMap, PodMap, PodMetricsPoint, OptPoint,
           NoNodes, NoPods, NoContainers, NoBatch, MetricsBatch
  <1>2. TypeOK
    BY <1>1, NoCallGood DEF Init, TypeOK
  <1>3. NodesOrdered(nodes) /\ PodsOrdered(pods)
    BY DEF Init, NodesOrdered, PodsOrdered, NoNodes, NoPods, NoContainers
  <1>4. ExclusiveStore
    BY DEF Init, ExclusiveStore
  <1>5. ReadersSeeOneStore
    BY NoCallGood DEF Init, ReadersSeeOneStore
  <1> QED
    BY <1>2, <1>3, <1>4, <1>5 DEF Inv

(* A step of one reader keeps the invariant if the reader's new state is    *)
(* good and it does not start to read under Store's feet.                   *)
LEMMA AdvanceInv ==
    ASSUME Inv, NEW r \in Readers, NEW rd \in ReaderState,
           ReaderGood(rd, nodes, pods, storePc),
           rd.stage = "reading" => storePc \notin {"nodes", "pods"},
           Advance(r, rd)
    PROVE  Inv'
  <1> USE DEF Advance, data, store
  <1>1. TypeOK'
    BY DEF Inv, TypeOK
  <1>2. ExclusiveStore'
    BY DEF Inv, TypeOK, ExclusiveStore
  <1>3. ReadersSeeOneStore'
    BY DEF Inv, TypeOK, ReadersSeeOneStore
  <1> QED
    BY <1>1, <1>2, <1>3 DEF Inv, NodesOrdered, PodsOrdered

(* Store's steps keep it: no reader is reading while the maps change        *)
(* (storage.go:60-65).                                                      *)
LEMMA StoreInv ==
    ASSUME Inv, StoreStep \/ \E b \in Batches : StoreCall(b)
    PROVE  Inv'
  <1> USE DEF data
  <1>1. ASSUME NEW b \in Batches, StoreCall(b) PROVE Inv'
    <2>1. TypeOK' /\ ExclusiveStore'
      BY <1>1, StorageBatchesAssumption DEF StoreCall, Inv, TypeOK, ExclusiveStore
    <2>2. ReadersSeeOneStore'
      BY <1>1 DEF StoreCall, Inv, ReadersSeeOneStore, ReaderGood
    <2> QED
      BY <1>1, <2>1, <2>2 DEF StoreCall, Inv, NodesOrdered, PodsOrdered
  <1>2. ASSUME Lock PROVE Inv'
    <2>1. TypeOK' /\ ExclusiveStore'
      BY <1>2 DEF Lock, Inv, TypeOK, ExclusiveStore
    <2>2. ReadersSeeOneStore'
      BY <1>2 DEF Lock, Inv, ReadersSeeOneStore, ReaderGood
    <2> QED
      BY <1>2, <2>1, <2>2 DEF Lock, Inv, NodesOrdered, PodsOrdered
  <1>3. ASSUME StoreNodes PROVE Inv'
    <2>1. nodes' \in NodeStorage /\ NodesOrdered(nodes')
      BY <1>3, StoreTypes, StoreOrdered DEF StoreNodes, Inv, TypeOK
    <2>2. pointsStored' \in [node : Nat, container : Nat]
      BY <1>3, GaugeTypes DEF StoreNodes, Inv, TypeOK
    <2>3. TypeOK' /\ ExclusiveStore'
      BY <1>3, <2>1, <2>2 DEF StoreNodes, Inv, TypeOK, ExclusiveStore
    <2>4. ASSUME NEW r \in Readers PROVE ReaderGood(reader'[r], nodes', pods', storePc')
      <3>1. reader[r].stage # "reading" /\ reader' = reader
        BY <1>3 DEF StoreNodes, Inv, ExclusiveStore
      <3> QED
        BY <1>3, <3>1 DEF StoreNodes, Inv, ReadersSeeOneStore, ReaderGood
    <2> QED
      BY <1>3, <2>1, <2>3, <2>4 DEF StoreNodes, Inv, ReadersSeeOneStore, PodsOrdered
  <1>4. ASSUME StorePods PROVE Inv'
    <2>1. pods' \in PodStorage /\ PodsOrdered(pods')
      BY <1>4, StoreTypes, StoreOrdered DEF StorePods, Inv, TypeOK
    <2>2. pointsStored' \in [node : Nat, container : Nat]
      <3>1. ContainerPoints(pods') \in Nat
        BY GaugeTypes
      <3> QED
        BY <1>4, <3>1 DEF StorePods, Inv, TypeOK
    <2>3. NoBatch \in MetricsBatch
      BY DEF NoBatch, MetricsBatch, NoNodes, NoPods, NoContainers, NodeMap, PodMap,
             PodMetricsPoint, OptPoint
    <2>4. reader' \in [Readers -> ReaderState]
      <3>1. ASSUME NEW r \in Readers
            PROVE  /\ reader[r] \in ReaderState
                   /\ [reader[r] EXCEPT !.stage = "reading"] \in ReaderState
        <4>1. reader[r] \in ReaderState
          BY DEF Inv, TypeOK
        <4> QED
          BY <4>1 DEF ReaderState, Stages
      <3>2. \A r \in Readers : (IF reader[r].stage = "blocked"
                                THEN [reader[r] EXCEPT !.stage = "reading"]
                                ELSE reader[r]) \in ReaderState
        BY <3>1, Zenon
      <3> QED
        BY <1>4, <3>2, Zenon DEF StorePods, Unlock
    <2>5. TypeOK' /\ ExclusiveStore'
      BY <1>4, <2>1, <2>2, <2>3, <2>4 DEF StorePods, Inv, TypeOK, ExclusiveStore
    <2>6. ASSUME NEW r \in Readers PROVE ReaderGood(reader'[r], nodes', pods', storePc')
      <3>1. reader[r].stage # "reading" /\ reader[r] \in ReaderState
        BY <1>4 DEF StorePods, Inv, ExclusiveStore, TypeOK
      <3>2. CASE reader[r].stage # "blocked"
        BY <1>4, <3>1, <3>2 DEF StorePods, Unlock, Inv, ReadersSeeOneStore, ReaderGood
      <3>3. CASE reader[r].stage = "blocked"
        <4>1. reader'[r] = [reader[r] EXCEPT !.stage = "reading"]
          BY <1>4, <3>3 DEF StorePods, Unlock
        <4>2. Pending(reader[r])
          BY <3>3 DEF Inv, ReadersSeeOneStore, ReaderGood
        <4>3. Pending(reader'[r]) /\ reader'[r].stage = "reading"
          BY <3>1, <4>1, <4>2 DEF Pending, ReaderState
        <4> QED
          BY <4>3 DEF ReaderGood, Pending, ReadyProgress, NodeProgress, PodProgress, NodeAnswer,
                  NoNodeAnswer, NoPodAnswer
      <3> QED
        BY <3>2, <3>3
    <2> QED
      BY <1>4, <2>1, <2>5, <2>6 DEF StorePods, Inv, ReadersSeeOneStore, NodesOrdered
  <1> QED
    BY <1>1, <1>2, <1>3, <1>4 DEF StoreStep

-----------------------------------------------------------------------------
(* A call starts well: it reads only if Store neither holds the lock nor    *)
(* waits for it (storage.go:43).                                            *)
LEMMA CallInv ==
    ASSUME Inv, NEW r \in Readers,
           \/ Ready(r)
           \/ \E names \in SUBSET Nodes : GetNodeMetrics(r, names)
           \/ \E names \in SUBSET Pods : GetPodMetrics(r, names)
    PROVE  Inv'
  <1>1. ASSUME NEW op \in {"Ready", "GetNodeMetrics", "GetPodMetrics"},
               NEW names \in SUBSET (Nodes \cup Pods),
               NEW todo \in SUBSET (Nodes \cup Pods \cup {"nodes.prev", "pods.prev"}),
               \/ op = "Ready" /\ names = {} /\ todo = {"nodes.prev"}
               \/ op = "GetNodeMetrics" /\ names \subseteq Nodes /\ todo = names
               \/ op = "GetPodMetrics" /\ names \subseteq Pods /\ todo = names,
               Call(r, op, names, todo)
        PROVE  Inv'
    <2> DEFINE rd == InCall(RLockStage, op, names, todo)
    <2>1. rd.stage = RLockStage
      BY DEF InCall
    <2>2. rd \in ReaderState
      BY InCallType DEF RLockStage, Stages
    <2>3. Pending(rd)
      BY <1>1 DEF Pending, InCall
    <2>4. ReaderGood(rd, nodes, pods, storePc)
      <3>1. CASE storePc = "idle"
        <4>1. rd.stage = "reading"
          BY <2>1, <3>1 DEF RLockStage
        <4> QED
          BY <2>3, <4>1 DEF ReaderGood, Pending, ReadyProgress, NodeProgress, PodProgress, NodeAnswer,
                  NoNodeAnswer, NoPodAnswer
      <3>2. CASE storePc # "idle"
        <4>1. rd.stage = "blocked"
          BY <2>1, <3>2 DEF RLockStage
        <4> QED
          BY <2>3, <3>2, <4>1 DEF ReaderGood
      <3> QED
        BY <3>1, <3>2
    <2>5. rd.stage = "reading" => storePc \notin {"nodes", "pods"}
      BY <2>1 DEF RLockStage
    <2>6. Advance(r, rd)
      BY <1>1 DEF Call
    <2> HIDE DEF rd
    <2> QED
      BY <2>2, <2>4, <2>5, <2>6, AdvanceInv
  <1>2. CASE Ready(r)
    BY <1>1, <1>2 DEF Ready
  <1>3. ASSUME NEW names \in SUBSET Nodes, GetNodeMetrics(r, names) PROVE Inv'
    BY <1>1, <1>3 DEF GetNodeMetrics
  <1>4. ASSUME NEW names \in SUBSET Pods, GetPodMetrics(r, names) PROVE Inv'
    BY <1>1, <1>4 DEF GetPodMetrics
  <1> QED
    BY <1>2, <1>3, <1>4

(* What the invariant says of a reader in a loop of a query. *)
LEMMA ReadingFacts ==
    ASSUME Inv, NEW r \in Readers, reader[r].stage = "reading"
    PROVE  /\ reader[r] \in ReaderState
           /\ storePc \notin {"nodes", "pods"}
           /\ reader[r].op = "Ready" => ReadyProgress(reader[r], nodes, pods)
           /\ reader[r].op = "GetNodeMetrics" => NodeProgress(reader[r], nodes)
           /\ reader[r].op = "GetPodMetrics" => PodProgress(reader[r], pods)
  BY DEF Inv, TypeOK, ExclusiveStore, ReadersSeeOneStore, ReaderGood

(* The steps of Ready (storage.go:45). *)
LEMMA ReadyInv ==
    ASSUME Inv, NEW r \in Readers, ReadNodesPrev(r) \/ ReadPodsPrev(r)
    PROVE  Inv'
  <1> DEFINE old == reader[r]
  <1>1. /\ old \in ReaderState /\ ReadyProgress(old, nodes, pods)
        /\ storePc \notin {"nodes", "pods"} /\ old.stage = "reading" /\ old.op = "Ready"
    BY ReadingFacts DEF ReadNodesPrev, ReadPodsPrev, Reading
  <1>2. HasPrevNode(nodes) \in BOOLEAN /\ HasPrevPod(pods) \in BOOLEAN
    BY DEF HasPrevNode, HasPrevPod
  <1>3. ASSUME NEW ready \in BOOLEAN, NEW todo \in SUBSET {"nodes.prev", "pods.prev"},
               \/ todo = {"pods.prev"} /\ ~ready /\ ~HasPrevNode(nodes)
               \/ todo = {} /\ ready = (HasPrevNode(nodes) \/ HasPrevPod(pods)),
               Advance(r, [old EXCEPT !.ready = ready, !.todo = todo])
        PROVE  Inv'
    <2> DEFINE rd == [old EXCEPT !.ready = ready, !.todo = todo]
    <2>1. rd \in ReaderState /\ rd.stage = "reading" /\ rd.op = "Ready"
      BY <1>1 DEF ReaderState
    <2>2. ReadyProgress(rd, nodes, pods)
      BY <1>1, <1>3 DEF ReadyProgress, ReaderState
    <2>3. ReaderGood(rd, nodes, pods, storePc)
      BY <2>1, <2>2 DEF ReaderGood
    <2> HIDE DEF rd
    <2> QED
      BY <1>1, <1>3, <2>1, <2>3, AdvanceInv DEF rd
  <1>4. CASE ReadNodesPrev(r)
    BY <1>2, <1>3, <1>4, ZenonT(30) DEF ReadNodesPrev
  <1>5. CASE ReadPodsPrev(r)
    <2>1. ~HasPrevNode(nodes)
      BY <1>1, <1>5 DEF ReadPodsPrev, ReadyProgress
    <2>2. HasPrevPod(pods) = (HasPrevNode(nodes) \/ HasPrevPod(pods))
      BY <1>2, <2>1
    <2>3. Advance(r, [old EXCEPT !.ready = HasPrevPod(pods), !.todo = {}])
      BY <1>5 DEF ReadPodsPrev
    <2>4. {} \in SUBSET {"nodes.prev", "pods.prev"}
      OBVIOUS
    <2> QED
      BY <1>2, <1>3, <2>2, <2>3, <2>4, Zenon
  <1> QED
    BY <1>4, <1>5

(* The step of GetNodeMetrics adds one node's result (node.go:42-66). *)
LEMMA ReadNodeInv ==
    ASSUME Inv, NEW r \in Readers, ReadNode(r)
    PROVE  Inv'
  <1> DEFINE old == reader[r]
  <1>1. /\ old \in ReaderState /\ NodeProgress(old, nodes)
        /\ storePc \notin {"nodes", "pods"} /\ old.stage = "reading" /\ old.op = "GetNodeMetrics"
    BY ReadingFacts DEF ReadNode, Reading
  <1>2. PICK n \in old.todo :
            Advance(r, [old EXCEPT !.nodes = [@ EXCEPT ![n] = NodeResult(nodes, n)], !.todo = @ \ {n}])
    BY DEF ReadNode
  <1>3. n \in Nodes /\ n \in old.names
    BY <1>1 DEF NodeProgress
  <1>4. NodeResult(nodes, n) \in Usage \cup {NotServed}
    BY <1>3, NodeResultGood DEF Inv, TypeOK
  <1> DEFINE answer == [old.nodes EXCEPT ![n] = NodeResult(nodes, n)]
             todo == old.todo \ {n}
             rd == [old EXCEPT !.nodes = answer, !.todo = todo]
  <1>5. answer \in [Nodes -> Usage \cup {NotServed}]
    BY <1>1, <1>4 DEF ReaderState
  <1>6. answer = NodeAnswer(nodes, old.names \ todo)
    BY <1>1, <1>3 DEF NodeProgress, NodeAnswer
  <1>7. todo \subseteq old.names /\ todo \in SUBSET (Nodes \cup Pods \cup {"nodes.prev", "pods.prev"})
    BY <1>1 DEF NodeProgress, ReaderState
  <1> HIDE DEF answer, todo
  <1>8. rd \in ReaderState /\ rd.stage = "reading" /\ rd.op = "GetNodeMetrics"
    BY <1>1, <1>5, <1>7 DEF ReaderState
  <1>9. NodeProgress(rd, nodes)
    BY <1>1, <1>6, <1>7 DEF NodeProgress, ReaderState
  <1>10. ReaderGood(rd, nodes, pods, storePc)
    BY <1>8, <1>9 DEF ReaderGood
  <1>11. Advance(r, rd)
    BY <1>2 DEF answer, todo
  <1> HIDE DEF rd
  <1> QED
    BY <1>1, <1>8, <1>10, <1>11, AdvanceInv

-----------------------------------------------------------------------------
(* GetPodMetrics (pod.go:50-97): a step of its loops keeps the invariant if *)
(* the partial answer still agrees with the maps.                           *)
LEMMA PodAdvance ==
    ASSUME Inv, NEW r \in Readers, storePc \notin {"nodes", "pods"}, NEW rd \in ReaderState,
           rd.stage = "reading", rd.op = "GetPodMetrics", PodProgress(rd, pods), Advance(r, rd)
    PROVE  Inv'
  <1>1. ReaderGood(rd, nodes, pods, storePc)
    BY DEF ReaderGood
  <1> QED
    BY <1>1, AdvanceInv

(* A pod that either map lacks is left out (pod.go:51-59). *)
LEMMA SkipPodInv ==
    ASSUME Inv, NEW r \in Readers, SkipPod(r)
    PROVE  Inv'
  <1> DEFINE old == reader[r]
  <1>1. /\ old \in ReaderState /\ PodProgress(old, pods) /\ old.pod = "none"
        /\ storePc \notin {"nodes", "pods"} /\ old.stage = "reading" /\ old.op = "GetPodMetrics"
    BY ReadingFacts DEF SkipPod, Reading
  <1>2. PICK p \in old.todo : /\ ~(Found(pods.last[p]) /\ Found(pods.prev[p]))
                              /\ Advance(r, [old EXCEPT !.todo = @ \ {p}])
    BY DEF SkipPod
  <1>3. p \in Pods /\ p # "none" /\ old.pods[p] = NotServed
    BY <1>1, PodNamesAssumption DEF PodProgress
  <1>4. old.pods[p] \in PodResults(pods, p)
    BY <1>2, <1>3 DEF PodResults, PodServed
  <1> DEFINE todo == old.todo \ {p}
             rd == [old EXCEPT !.todo = todo]
  <1>5. /\ rd \in ReaderState /\ rd.stage = "reading" /\ rd.op = "GetPodMetrics"
        /\ rd.names = old.names /\ rd.todo = todo /\ rd.pod = "none" /\ rd.ready = old.ready
        /\ rd.nodes = old.nodes /\ rd.pods = old.pods
    BY <1>1 DEF ReaderState
  <1>6. ASSUME NEW q \in Pods
        PROVE  IF q \in old.names \ (todo \cup {"none"}) THEN old.pods[q] \in PodResults(pods, q)
               ELSE old.pods[q] = NotServed
    <2>1. CASE q = p
      BY <1>1, <1>3, <1>4, <2>1 DEF PodProgress
    <2>2. CASE q # p
      BY <1>1, <2>2 DEF PodProgress
    <2> QED
      BY <2>1, <2>2
  <1>7. Advance(r, rd)
    BY <1>2
  <1> HIDE DEF rd
  <1>8. PodProgress(rd, pods)
    BY <1>1, <1>5, <1>6 DEF PodProgress
  <1> QED
    BY <1>1, <1>5, <1>7, <1>8, PodAdvance

(* The loop over a pod's containers starts with nothing visited (pod.go:62-66). *)
LEMMA StartPodInv ==
    ASSUME Inv, NEW r \in Readers, StartPod(r)
    PROVE  Inv'
  <1> DEFINE old == reader[r]
  <1>1. /\ old \in ReaderState /\ PodProgress(old, pods) /\ old.pod = "none"
        /\ storePc \notin {"nodes", "pods"} /\ old.stage = "reading" /\ old.op = "GetPodMetrics"
    BY ReadingFacts DEF StartPod, Reading
  <1>2. PICK p \in old.todo :
            /\ Found(pods.last[p]) /\ Found(pods.prev[p])
            /\ Advance(r, [old EXCEPT
                    !.pod = p,
                    !.todo = @ \ {p},
                    !.left = {c \in Containers : pods.last[p][c] # NoPoint},
                    !.cms = NothingServed,
                    !.ti = NoTime])
    BY DEF StartPod
  <1> DEFINE all == {c \in Containers : pods.last[p][c] # NoPoint}
             todo == old.todo \ {p}
             rd == [old EXCEPT !.pod = p, !.todo = todo, !.left = all, !.cms = NothingServed,
                               !.ti = NoTime]
  <1>3. p \in Pods /\ p # "none"
    BY <1>1, PodNamesAssumption DEF PodProgress
  <1>4. /\ all \in SUBSET Containers
        /\ NothingServed \in [Containers -> Usage \cup {NotServed}]
        /\ NoTime \in [Timestamp : Time, Window : Int]
    BY DEF NothingServed, NoTime, ZeroTime, Time
  <1>5. LoopProgress(pods, p, all, NothingServed, NoTime)
    <2>1. Shown(pods, p, all) = {}
      BY DEF Shown
    <2> QED
      BY <1>2, <2>1 DEF LoopProgress, NothingServed
  <1> HIDE DEF all
  <1>6. /\ rd \in ReaderState /\ rd.stage = "reading" /\ rd.op = "GetPodMetrics"
        /\ rd.names = old.names /\ rd.todo = todo /\ rd.pod = p /\ rd.ready = old.ready
        /\ rd.nodes = old.nodes /\ rd.pods = old.pods
        /\ rd.left = all /\ rd.cms = NothingServed /\ rd.ti = NoTime
    BY <1>1, <1>3, <1>4 DEF ReaderState
  <1>7. \A q \in Pods : q \in old.names \ (todo \cup {p}) <=> q \in old.names \ (old.todo \cup {"none"})
    BY <1>3, PodNamesAssumption
  <1>8. Advance(r, rd)
    BY <1>2 DEF all
  <1> HIDE DEF rd
  <1>9. PodProgress(rd, pods)
    BY <1>1, <1>5, <1>6, <1>7 DEF PodProgress
  <1> QED
    BY <1>1, <1>6, <1>8, <1>9, PodAdvance

(* What the invariant says of a reader in the loop over a pod's containers. *)
LEMMA LoopFacts ==
    ASSUME Inv, NEW r \in Readers, InLoop(r)
    PROVE  /\ reader[r] \in ReaderState /\ PodProgress(reader[r], pods)
           /\ storePc \notin {"nodes", "pods"}
           /\ reader[r].stage = "reading" /\ reader[r].op = "GetPodMetrics"
           /\ reader[r].pod \in Pods /\ reader[r].pod # "none"
           /\ reader[r].pods[reader[r].pod] = NotServed
           /\ reader[r].left \subseteq Containers
           /\ LoopProgress(pods, reader[r].pod, reader[r].left, reader[r].cms, reader[r].ti)
  <1>1. reader[r].stage = "reading" /\ reader[r].op = "GetPodMetrics" /\ reader[r].pod # "none"
    BY DEF InLoop, Reading
  <1>2. /\ reader[r] \in ReaderState /\ PodProgress(reader[r], pods)
        /\ storePc \notin {"nodes", "pods"}
    BY <1>1, ReadingFacts
  <1> QED
    BY <1>1, <1>2 DEF PodProgress, ReaderState

(* A pod with a container that has no previous point is left out (pod.go:68-71). *)
LEMMA ContainerMissingInv ==
    ASSUME Inv, NEW r \in Readers, ContainerMissing(r)
    PROVE  Inv'
  <1> DEFINE old == reader[r]
             rd == [old EXCEPT !.pod = "none"]
  <1>1. /\ old \in ReaderState /\ PodProgress(old, pods) /\ storePc \notin {"nodes", "pods"}
        /\ old.stage = "reading" /\ old.op = "GetPodMetrics" /\ old.pod \in Pods
        /\ old.pod # "none" /\ old.pods[old.pod] = NotServed /\ old.left \subseteq Containers
        /\ LoopProgress(pods, old.pod, old.left, old.cms, old.ti)
    BY LoopFacts DEF ContainerMissing
  <1>2. PICK c \in old.left : pods.prev[old.pod][c] = NoPoint
    BY DEF ContainerMissing
  <1>3. old.pods[old.pod] \in PodResults(pods, old.pod)
    <2>1. ~PodServed(pods, old.pod)
      BY <1>1, <1>2 DEF PodServed, LoopProgress
    <2> QED
      BY <1>1, <2>1 DEF PodResults
  <1>4. /\ rd \in ReaderState /\ rd.stage = "reading" /\ rd.op = "GetPodMetrics"
        /\ rd.names = old.names /\ rd.todo = old.todo /\ rd.pod = "none" /\ rd.ready = old.ready
        /\ rd.nodes = old.nodes /\ rd.pods = old.pods
    BY <1>1 DEF ReaderState
  <1>5. ASSUME NEW q \in Pods
        PROVE  IF q \in old.names \ (old.todo \cup {"none"}) THEN old.pods[q] \in PodResults(pods, q)
               ELSE old.pods[q] = NotServed
    <2>1. CASE q = old.pod
      BY <1>1, <1>3, <2>1, PodNamesAssumption DEF PodProgress
    <2>2. CASE q # old.pod
      BY <1>1, <2>2, PodNamesAssumption DEF PodProgress
    <2> QED
      BY <2>1, <2>2
  <1>6. Advance(r, rd)
    BY DEF ContainerMissing
  <1> HIDE DEF rd
  <1>7. PodProgress(rd, pods)
    BY <1>1, <1>4, <1>5 DEF PodProgress
  <1> QED
    BY <1>1, <1>4, <1>6, <1>7, PodAdvance

(* A turn of the loop that stays in it keeps the invariant if it keeps the  *)
(* loop's own.                                                              *)
LEMMA LoopAdvance ==
    ASSUME Inv, NEW r \in Readers, InLoop(r),
           NEW left \in SUBSET Containers, NEW cms \in [Containers -> Usage \cup {NotServed}],
           NEW ti \in [Timestamp : Time, Window : Int],
           LoopProgress(pods, reader[r].pod, left, cms, ti),
           Advance(r, [reader[r] EXCEPT !.left = left, !.cms = cms, !.ti = ti])
    PROVE  Inv'
  <1> DEFINE old == reader[r]
             rd == [old EXCEPT !.left = left, !.cms = cms, !.ti = ti]
  <1>1. /\ old \in ReaderState /\ PodProgress(old, pods) /\ storePc \notin {"nodes", "pods"}
        /\ old.stage = "reading" /\ old.op = "GetPodMetrics"
    BY LoopFacts
  <1>2. /\ rd \in ReaderState /\ rd.stage = "reading" /\ rd.op = "GetPodMetrics"
        /\ rd.names = old.names /\ rd.todo = old.todo /\ rd.pod = old.pod /\ rd.ready = old.ready
        /\ rd.nodes = old.nodes /\ rd.pods = old.pods
        /\ rd.left = left /\ rd.cms = cms /\ rd.ti = ti
    BY <1>1 DEF ReaderState
  <1>3. Advance(r, rd)
    OBVIOUS
  <1> HIDE DEF rd
  <1>4. PodProgress(rd, pods)
    BY <1>1, <1>2 DEF PodProgress
  <1> QED
    BY <1>1, <1>2, <1>3, <1>4, PodAdvance

(* A container whose usage is an error is passed over (pod.go:73-76). *)
LEMMA SkipContainerInv ==
    ASSUME Inv, NEW r \in Readers, SkipContainer(r)
    PROVE  Inv'
  <1> DEFINE old == reader[r]
             p == old.pod
  <1>1. InLoop(r)
    BY DEF SkipContainer
  <1>2. /\ old \in ReaderState /\ p \in Pods /\ old.left \subseteq Containers
        /\ LoopProgress(pods, p, old.left, old.cms, old.ti)
    BY <1>1, LoopFacts
  <1>3. PICK c \in old.left :
            /\ pods.prev[p][c] # NoPoint
            /\ UsageError(pods.last[p][c], pods.prev[p][c])
            /\ Advance(r, [old EXCEPT !.left = @ \ {c}])
    BY DEF SkipContainer
  <1> DEFINE left == old.left \ {c}
  <1>4. Shown(pods, p, left) = Shown(pods, p, old.left)
    BY <1>2, <1>3 DEF Shown
  <1>5. LoopProgress(pods, p, left, old.cms, old.ti)
    BY <1>2, <1>3, <1>4 DEF LoopProgress
  <1>6. /\ left \in SUBSET Containers
        /\ old.cms \in [Containers -> Usage \cup {NotServed}]
        /\ old.ti \in [Timestamp : Time, Window : Int]
        /\ [old EXCEPT !.left = left, !.cms = old.cms, !.ti = old.ti] = [old EXCEPT !.left = left]
    BY <1>2 DEF ReaderState
  <1>7. Advance(r, [old EXCEPT !.left = left, !.cms = old.cms, !.ti = old.ti])
    BY <1>3, <1>6
  <1> HIDE DEF left
  <1> QED
    BY <1>1, <1>5, <1>6, <1>7, LoopAdvance

(* A container's usage is added, and its time if it is the earliest so far: *)
(* the zero time that stands for "none so far" is no container's time       *)
(* (pod.go:77-84).                                                          *)
LEMMA AddContainerInv ==
    ASSUME Inv, NEW r \in Readers, AddContainer(r)
    PROVE  Inv'
  <1> DEFINE old == reader[r]
             p == old.pod
             L(c) == pods.last[p][c]
             P(c) == pods.prev[p][c]
             U(c) == resourceUsage(L(c), P(c))
  <1>1. InLoop(r)
    BY DEF AddContainer
  <1>2. /\ old \in ReaderState /\ p \in Pods /\ old.left \subseteq Containers
        /\ LoopProgress(pods, p, old.left, old.cms, old.ti)
    BY <1>1, LoopFacts
  <1>3. PICK c \in old.left :
            /\ P(c) # NoPoint
            /\ ~UsageError(L(c), P(c))
            /\ Advance(r, [old EXCEPT
                    !.left = @ \ {c},
                    !.cms = [@ EXCEPT ![c] = U(c)],
                    !.ti = EarlierTime(@, U(c))])
    BY DEF AddContainer
  <1> DEFINE left == old.left \ {c}
             cms == [old.cms EXCEPT ![c] = U(c)]
             ti == EarlierTime(old.ti, U(c))
             S == Shown(pods, p, old.left)
             T == Shown(pods, p, left)
  <1>4. c \in Containers /\ L(c) # NoPoint
    BY <1>2 DEF LoopProgress
  <1>5. T = S \cup {c} /\ c \notin S
    BY <1>2, <1>3, <1>4 DEF Shown
  <1>6. ASSUME NEW d \in T
        PROVE  /\ d \in Containers
               /\ L(d) \in MetricsPoint /\ P(d) \in MetricsPoint
               /\ L(d).Timestamp \in Nat /\ L(d).Timestamp # 0
    <2>1. d \in Containers /\ L(d) # NoPoint /\ P(d) # NoPoint
      BY <1>2, <1>3, <1>4, <1>5 DEF LoopProgress, Shown
    <2>2. L(d) \in OptPoint /\ P(d) \in OptPoint
      BY <1>2, <2>1 DEF Inv, TypeOK, PodStorage, PodMap, PodMetricsPoint
    <2>3. L(d) \in MetricsPoint /\ P(d) \in MetricsPoint
      BY <2>1, <2>2 DEF OptPoint
    <2>4. P(d).Timestamp < L(d).Timestamp
      BY <1>2, <2>1 DEF Inv, PodsOrdered
    <2> QED
      BY <2>1, <2>3, <2>4 DEF MetricsPoint, Time
  <1>7. U(c) \in Usage /\ U(c).Timestamp = L(c).Timestamp
        /\ U(c).Window = Sub(L(c).Timestamp, P(c).Timestamp)
    <2>1. U(c) \in Usage
      BY <1>3, <1>5, <1>6, UsageType
    <2> QED
      BY <2>1 DEF resourceUsage
  <1>8. /\ left \in SUBSET Containers
        /\ cms \in [Containers -> Usage \cup {NotServed}]
        /\ cms = [d \in Containers |-> IF d \in T THEN U(d) ELSE NotServed]
    <2>1. old.cms = [d \in Containers |-> IF d \in S THEN U(d) ELSE NotServed]
      BY <1>2 DEF LoopProgress
    <2>2. old.cms \in [Containers -> Usage \cup {NotServed}]
      BY <1>2 DEF ReaderState
    <2> HIDE DEF U, S, T
    <2> QED
      BY <1>2, <1>4, <1>5, <1>7, <2>1, <2>2
  <1>9. \E d \in T : /\ \A e \in T : L(d).Timestamp <= L(e).Timestamp
                     /\ ti = [Timestamp |-> L(d).Timestamp,
                              Window    |-> Sub(L(d).Timestamp, P(d).Timestamp)]
    <2> DEFINE TI(d) == [Timestamp |-> L(d).Timestamp,
                         Window    |-> Sub(L(d).Timestamp, P(d).Timestamp)]
    <2>1. TI(c) = [Timestamp |-> U(c).Timestamp, Window |-> U(c).Window]
      BY <1>7
    <2>2. CASE S = {}
      <3>1. old.ti = NoTime
        BY <1>2, <2>2 DEF LoopProgress
      <3>2. ti = TI(c)
        BY <2>1, <3>1 DEF EarlierTime, NoTime
      <3>3. T = {c}
        BY <1>5, <2>2
      <3>4. L(c).Timestamp \in Nat
        BY <1>6, <3>3
      <3>5. \A e \in T : L(c).Timestamp <= L(e).Timestamp
        BY <3>3, <3>4
      <3> QED
        BY <3>2, <3>3, <3>5
    <2>3. CASE S # {}
      <3>1. PICK d \in S : /\ \A e \in S : L(d).Timestamp <= L(e).Timestamp
                           /\ old.ti = TI(d)
        BY <1>2, <2>3 DEF LoopProgress
      <3>2. /\ L(d).Timestamp \in Nat /\ L(d).Timestamp # 0 /\ L(c).Timestamp \in Nat
            /\ \A e \in S : L(e).Timestamp \in Nat
        BY <1>5, <1>6
      <3>3. old.ti.Timestamp = L(d).Timestamp
        BY <3>1
      <3>4. CASE L(d).Timestamp > L(c).Timestamp
        <4>1. ti = TI(c)
          BY <1>7, <2>1, <3>3, <3>4 DEF EarlierTime
        <4>2. \A e \in T : L(c).Timestamp <= L(e).Timestamp
          <5> HIDE DEF L, S, T, TI
          <5>1. L(c).Timestamp <= L(c).Timestamp /\ L(c).Timestamp <= L(c).Timestamp
            BY <3>2, <3>4
          <5>2. \A e \in S : L(c).Timestamp <= L(e).Timestamp
            BY <3>1, <3>2, <3>4
          <5> QED
            BY <1>5, <5>1, <5>2
        <4>3. c \in T
          BY <1>5
        <4> HIDE DEF ti, T, L
        <4> QED
          BY <4>1, <4>2, <4>3, Zenon
      <3>5. CASE ~(L(d).Timestamp > L(c).Timestamp)
        <4>1. ti = TI(d)
          BY <1>7, <3>1, <3>2, <3>3, <3>5 DEF EarlierTime, ZeroTime
        <4>2. \A e \in T : L(d).Timestamp <= L(e).Timestamp
          <5> HIDE DEF L, S, T, TI
          <5>1. L(c).Timestamp <= L(c).Timestamp /\ L(d).Timestamp <= L(c).Timestamp
            BY <3>2, <3>5
          <5>2. \A e \in S : L(d).Timestamp <= L(e).Timestamp
            BY <3>1, <3>2, <3>5
          <5> QED
            BY <1>5, <5>1, <5>2
        <4>3. d \in T
          BY <1>5
        <4> HIDE DEF ti, T, L
        <4> QED
          BY <4>1, <4>2, <4>3, Zenon
      <3> QED
        BY <3>4, <3>5
    <2> QED
      BY <2>2, <2>3
  <1>10. ti \in [Timestamp : Time, Window : Int]
    <2>1. old.ti \in [Timestamp : Time, Window : Int]
      BY <1>2 DEF ReaderState
    <2> QED
      BY <1>7, <2>1 DEF EarlierTime, Usage
  <1>11. LoopProgress(pods, p, left, cms, ti)
    <2>1. /\ Found(pods.last[p]) /\ Found(pods.prev[p])
          /\ \A d \in left : L(d) # NoPoint
          /\ \A d \in Containers \ left : L(d) # NoPoint => P(d) # NoPoint
      BY <1>2, <1>3 DEF LoopProgress
    <2>2. T # {}
      BY <1>5
    <2> QED
      BY <1>8, <1>9, <2>1, <2>2 DEF LoopProgress
  <1>12. Advance(r, [old EXCEPT !.left = left, !.cms = cms, !.ti = ti])
    BY <1>3
  <1> HIDE DEF left, cms, ti
  <1> QED
    BY <1>1, <1>8, <1>10, <1>11, <1>12, LoopAdvance

(* When every container has been visited the pod's result is complete       *)
(* (pod.go:86-97).                                                          *)
LEMMA FinishPodInv ==
    ASSUME Inv, NEW r \in Readers, FinishPod(r)
    PROVE  Inv'
  <1> DEFINE old == reader[r]
             p == old.pod
             m == [Timestamp |-> old.ti.Timestamp, Window |-> old.ti.Window,
                   Containers |-> old.cms]
             answers == [old.pods EXCEPT ![p] = m]
             rd == [old EXCEPT !.pods = answers, !.pod = "none"]
  <1>1. /\ old \in ReaderState /\ PodProgress(old, pods) /\ storePc \notin {"nodes", "pods"}
        /\ old.stage = "reading" /\ old.op = "GetPodMetrics" /\ p \in Pods
        /\ p # "none" /\ old.left \subseteq Containers
        /\ LoopProgress(pods, p, old.left, old.cms, old.ti)
    BY LoopFacts DEF FinishPod
  <1>2. old.left = {} /\ Advance(r, rd)
    BY DEF FinishPod
  <1>3. m \in PodResults(pods, p)
    <2> DEFINE S == ServedContainers(pods, p)
    <2>1. LoopProgress(pods, p, {}, old.cms, old.ti)
      BY <1>1, <1>2
    <2>2. PodServed(pods, p)
      BY <2>1 DEF PodServed, LoopProgress
    <2>3. Shown(pods, p, {}) = S
      BY DEF Shown, ServedContainers
    <2>4. old.cms = ContainerUsage(pods, p)
      BY <2>1, <2>3 DEF LoopProgress, ContainerUsage
    <2>5. old.ti \in PodTimeInfos(pods, p)
      <3>1. CASE S = {}
        BY <2>1, <2>3, <3>1 DEF LoopProgress, PodTimeInfos, NoTime
      <3>2. CASE S # {}
        <4>1. PICK c \in S : /\ \A d \in S : pods.last[p][c].Timestamp <= pods.last[p][d].Timestamp
                             /\ old.ti = [Timestamp |-> pods.last[p][c].Timestamp,
                                          Window    |-> Sub(pods.last[p][c].Timestamp,
                                                            pods.prev[p][c].Timestamp)]
          BY <2>1, <2>3, <3>2 DEF LoopProgress
        <4>2. c \in Earliest(pods, p)
          BY <4>1 DEF Earliest
        <4> QED
          BY <3>2, <4>1, <4>2 DEF PodTimeInfos
      <3> QED
        BY <3>1, <3>2
    <2> QED
      BY <2>2, <2>4, <2>5 DEF PodResults
  <1>4. m \in PodMetrics
    BY <1>1 DEF ReaderState, PodMetrics
  <1> HIDE DEF m
  <1>5. answers \in [Pods -> PodMetrics \cup {NotServed}]
    BY <1>1, <1>4 DEF ReaderState
  <1>6. ASSUME NEW q \in Pods
        PROVE  IF q \in old.names \ (old.todo \cup {"none"}) THEN answers[q] \in PodResults(pods, q)
               ELSE answers[q] = NotServed
    <2>1. old.pods \in [Pods -> PodMetrics \cup {NotServed}]
      BY <1>1 DEF ReaderState
    <2>2. CASE q = p
      <3>1. answers[q] = m
        BY <1>1, <2>1, <2>2
      <3>2. q \in old.names \ (old.todo \cup {"none"})
        BY <1>1, <2>2 DEF PodProgress
      <3> QED
        BY <1>3, <2>2, <3>1, <3>2
    <2>3. CASE q # p
      <3>1. answers[q] = old.pods[q]
        BY <2>1, <2>3
      <3>2. q # "none"
        BY PodNamesAssumption
      <3> QED
        BY <1>1, <2>3, <3>1, <3>2 DEF PodProgress
    <2> QED
      BY <2>2, <2>3
  <1> HIDE DEF answers
  <1>7. /\ rd \in ReaderState /\ rd.stage = "reading" /\ rd.op = "GetPodMetrics"
        /\ rd.names = old.names /\ rd.todo = old.todo /\ rd.pod = "none" /\ rd.ready = old.ready
        /\ rd.nodes = old.nodes /\ rd.pods = answers
    BY <1>1, <1>5 DEF ReaderState
  <1> HIDE DEF rd
  <1>8. PodProgress(rd, pods)
    BY <1>1, <1>6, <1>7 DEF PodProgress
  <1> QED
    BY <1>1, <1>2, <1>7, <1>8, PodAdvance

(* A call returns, and its caller may call again (storage.go:44). *)
LEMMA ReturnInv ==
    ASSUME Inv, NEW r \in Readers, RUnlock(r) \/ Done(r)
    PROVE  Inv'
  <1>1. CASE RUnlock(r)
    <2> DEFINE rd == [reader[r] EXCEPT !.stage = "return"]
    <2>1. reader[r] \in ReaderState /\ reader[r].op # "none"
      BY <1>1 DEF RUnlock, Inv, TypeOK, ReadersSeeOneStore, ReaderGood
    <2>2. rd \in ReaderState /\ rd.stage = "return" /\ rd.op # "none"
      BY <2>1 DEF ReaderState, Stages
    <2>3. Advance(r, rd)
      BY <1>1 DEF RUnlock
    <2> HIDE DEF rd
    <2> QED
      BY <2>2, <2>3, AdvanceInv DEF ReaderGood
  <1>2. CASE Done(r)
    <2>1. NoCall.stage # "reading"
      BY DEF NoCall, InCall
    <2> QED
      BY <1>2, <2>1, NoCallGood, AdvanceInv DEF Done
  <1> QED
    BY <1>1, <1>2

(* Every step of the storage keeps the invariant (storage.go:42-65). *)
LEMMA NextInv ==
    Inv /\ [Next]_vars => Inv'
  <1> SUFFICES ASSUME Inv, [Next]_vars PROVE Inv'
    OBVIOUS
  <1>1. CASE StoreStep \/ \E b \in Batches : StoreCall(b)
    BY <1>1, StoreInv
  <1>2. ASSUME NEW r \in Readers,
               \/ Ready(r)
               \/ \E names \in SUBSET Nodes : GetNodeMetrics(r, names)
               \/ \E names \in SUBSET Pods : GetPodMetrics(r, names)
        PROVE  Inv'
    BY <1>2, CallInv
  <1>3. ASSUME NEW r \in Readers, ReadStep(r) \/ Done(r) PROVE Inv'
    BY <1>3, ReadyInv, ReadNodeInv, SkipPodInv, StartPodInv, ContainerMissingInv,
       SkipContainerInv, AddContainerInv, FinishPodInv, ReturnInv DEF ReadStep
  <1>4. CASE UNCHANGED vars
    BY <1>4 DEF vars, Inv, TypeOK, ExclusiveStore, ReadersSeeOneStore, NodesOrdered, PodsOrdered
  <1> QED
    BY <1>1, <1>2, <1>3, <1>4 DEF Next

(* No reader is ever inside the maps while Store replaces them, for any     *)
(* number of readers (storage.go:60-65).                                    *)
THEOREM StoreIsExclusive ==
    Spec => []ExclusiveStore
  <1>1. Inv => ExclusiveStore
    BY DEF Inv
  <1> QED
    BY InitInv, NextInv, <1>1, PTL DEF Spec

(* Every partial answer agrees with the maps as they are, for any number of *)
(* readers and names (storage.go:42-58).                                    *)
THEOREM QueriesSeeOneStore ==
    Spec => []ReadersSeeOneStore
  <1>1. Inv => ReadersSeeOneStore
    BY DEF Inv
  <1> QED
    BY InitInv, NextInv, <1>1, PTL DEF Spec

-----------------------------------------------------------------------------
(* The refinement.  The atomic specification has its own instances of the   *)
(* data operations (pkg/storage/node.go, pod.go), which are the same.       *)
LEMMA SameData ==
    /\ Atomic!NoNodes = NoNodes /\ Atomic!NoPods = NoPods
    /\ Atomic!NoReply = AnswerTo("none", {}, FALSE, NoNodeAnswer, NoPodAnswer)
    /\ Atomic!NoNodeAnswer = NoNodeAnswer /\ Atomic!NoPodAnswer = NoPodAnswer
    /\ \A op, names, ready, ns, ps :
        Atomic!AnswerTo(op, names, ready, ns, ps) = AnswerTo(op, names, ready, ns, ps)
    /\ \A s, b : Atomic!nodeStore(s, b) = nodeStore(s, b)
    /\ \A s, b : Atomic!podStore(s, b) = podStore(s, b)
    /\ \A s : Atomic!NodePoints(s) = NodePoints(s)
    /\ \A s : Atomic!ContainerPoints(s) = ContainerPoints(s)
    /\ \A s : Atomic!HasPrevNode(s) <=> HasPrevNode(s)
    /\ \A s : Atomic!HasPrevPod(s) <=> HasPrevPod(s)
    /\ \A s, names : Atomic!NodeAnswer(s, names) = NodeAnswer(s, names)
    /\ \A s, names : Atomic!PodAnswers(s, names) = PodAnswers(s, names)
  <1>1. /\ Atomic!NoNodes = NoNodes /\ Atomic!NoPods = NoPods
        /\ Atomic!NoReply = AnswerTo("none", {}, FALSE, NoNodeAnswer, NoPodAnswer)
        /\ Atomic!NoNodeAnswer = NoNodeAnswer /\ Atomic!NoPodAnswer = NoPodAnswer
    BY DEF Atomic!NoNodes, NoNodes, Atomic!NoPods, NoPods, Atomic!NoContainers, NoContainers,
           Atomic!NoReply, Atomic!AnswerTo, AnswerTo, Atomic!NoNodeAnswer, NoNodeAnswer,
           Atomic!NoPodAnswer, NoPodAnswer
  <1>2. \A op, names, ready, ns, ps :
          Atomic!AnswerTo(op, names, ready, ns, ps) = AnswerTo(op, names, ready, ns, ps)
    BY DEF Atomic!AnswerTo, AnswerTo
  <1>3. \A s, b : Atomic!nodeStore(s, b) = nodeStore(s, b)
    BY DEF Atomic!nodeStore, nodeStore, Atomic!PrevNode, PrevNode
  <1>4. \A s, b : Atomic!podStore(s, b) = podStore(s, b)
    BY DEF Atomic!podStore, podStore, Atomic!PrevContainer, PrevContainer, Atomic!IsFresh, IsFresh,
           Atomic!AtStart, AtStart, Atomic!MapRead, MapRead, Atomic!ZeroPoint, ZeroPoint,
           Atomic!ZeroTime, ZeroTime, Atomic!Sub, Sub, Atomic!Found, Found
  <1>f. \A pod : Atomic!Found(pod) <=> Found(pod)
    BY DEF Atomic!Found, Found
  <1>5. /\ \A s : Atomic!NodePoints(s) = NodePoints(s)
        /\ \A s : Atomic!ContainerPoints(s) = ContainerPoints(s)
        /\ \A s : Atomic!HasPrevNode(s) <=> HasPrevNode(s)
        /\ \A s : Atomic!HasPrevPod(s) <=> HasPrevPod(s)
    <2>0. \A S : Atomic!Cardinality(S) = Cardinality(S)
      BY DEF Atomic!Cardinality, Cardinality
    <2>1. \A s : Atomic!NodePoints(s) = NodePoints(s)
      BY <2>0 DEF Atomic!NodePoints, NodePoints
    <2>2. \A s : Atomic!ContainerPoints(s) = ContainerPoints(s)
      BY <2>0 DEF Atomic!ContainerPoints, ContainerPoints
    <2>3. \A s : Atomic!HasPrevNode(s) <=> HasPrevNode(s)
      BY DEF Atomic!HasPrevNode, HasPrevNode
    <2>4. \A s : Atomic!HasPrevPod(s) <=> HasPrevPod(s)
      BY <1>f DEF Atomic!HasPrevPod, HasPrevPod
    <2> QED
      BY <2>1, <2>2, <2>3, <2>4
  <1>6. \A last, prev : /\ Atomic!UsageError(last, prev) <=> UsageError(last, prev)
                        /\ Atomic!resourceUsage(last, prev) = resourceUsage(last, prev)
                        /\ Atomic!Sub(last, prev) = Sub(last, prev)
    BY DEF Atomic!UsageError, UsageError, Atomic!resourceUsage, resourceUsage, Atomic!CpuUsage,
           CpuUsage, Atomic!Sub, Sub, Atomic!uint64Quantity, uint64Quantity
  <1>7. \A s, names : Atomic!NodeAnswer(s, names) = NodeAnswer(s, names)
    BY <1>6 DEF Atomic!NodeAnswer, NodeAnswer, Atomic!NodeResult, NodeResult, Atomic!NodeServed,
                NodeServed
  <1>8. \A s, p : Atomic!PodResults(s, p) = PodResults(s, p)
    <2>1. \A s, p : Atomic!PodServed(s, p) <=> PodServed(s, p)
      BY <1>f DEF Atomic!PodServed, PodServed
    <2>2. \A s, p : Atomic!ServedContainers(s, p) = ServedContainers(s, p)
      BY <1>6 DEF Atomic!ServedContainers, ServedContainers
    <2>3. \A s, p : Atomic!ContainerUsage(s, p) = ContainerUsage(s, p)
      BY <1>6, <2>2 DEF Atomic!ContainerUsage, ContainerUsage
    <2>4. \A s, p : Atomic!Earliest(s, p) = Earliest(s, p)
      BY <2>2 DEF Atomic!Earliest, Earliest
    <2>5. \A s, p : Atomic!PodTimeInfos(s, p) = PodTimeInfos(s, p)
      BY <1>6, <2>2, <2>4 DEF Atomic!PodTimeInfos, PodTimeInfos, Atomic!ZeroTime, ZeroTime
    <2> QED
      BY <2>1, <2>3, <2>5 DEF Atomic!PodResults, PodResults
  <1>9. \A s, names : Atomic!PodAnswers(s, names) = PodAnswers(s, names)
    BY <1>8 DEF Atomic!PodAnswers, PodAnswers
  <1> QED
    BY <1>1, <1>2, <1>3, <1>4, <1>5, <1>7, <1>9

(* The empty storage is the empty atomic one (storage.go:36). *)
LEMMA InitRefines ==
    Init => Atomic!Init
  <1> SUFFICES ASSUME Init PROVE Atomic!Init
    OBVIOUS
  <1>1. replySeen = [r \in Readers |-> Atomic!NoReply]
    BY SameData DEF Init, replySeen, ReplyOf, NoCall, InCall
  <1>2. podsSeen = pods /\ gaugeSeen = [node |-> 0, container |-> 0]
    BY DEF Init, podsSeen, gaugeSeen
  <1> QED
    BY <1>1, <1>2, SameData DEF Init, Atomic!Init

(* A step of one reader changes at most its own reply. *)
LEMMA AdvanceSeen ==
    ASSUME Inv, NEW r \in Readers, NEW rd, Advance(r, rd)
    PROVE  /\ UNCHANGED <<nodes, podsSeen, gaugeSeen>>
           /\ replySeen' = [replySeen EXCEPT ![r] = ReplyOf(rd)]
  <1>1. UNCHANGED <<nodes, podsSeen, gaugeSeen>>
    BY DEF Advance, data, store, podsSeen, gaugeSeen
  <1>2. reader \in [Readers -> ReaderState] /\ reader' = [reader EXCEPT ![r] = rd]
    BY DEF Advance, Inv, TypeOK
  <1>3. replySeen' = [replySeen EXCEPT ![r] = ReplyOf(rd)]
    BY <1>2 DEF replySeen
  <1> QED
    BY <1>1, <1>3

(* A step of a reader that does not return is invisible. *)
LEMMA AdvanceQuiet ==
    ASSUME Inv, NEW r \in Readers, NEW rd, Advance(r, rd),
           reader[r].stage # "return", rd.stage # "return"
    PROVE  UNCHANGED Atomic!vars
  <1>1. ReplyOf(rd) = replySeen[r]
    BY DEF ReplyOf, replySeen
  <1>2. replySeen' = replySeen
    <2>1. replySeen' = [replySeen EXCEPT ![r] = replySeen[r]]
      BY <1>1, AdvanceSeen
    <2> QED
      BY <2>1 DEF replySeen
  <1> QED
    BY <1>2, AdvanceSeen DEF Atomic!vars

(* A query that returns is answered from the maps in one step: each of them *)
(* has been looked up in full, and no Store is half done (storage.go:42-58).*)
LEMMA ReturnRefines ==
    ASSUME Inv, NEW r \in Readers, RUnlock(r)
    PROVE  Atomic!Next
  <1> DEFINE old == reader[r]
             rd == [old EXCEPT !.stage = "return"]
             reply == AnswerTo(old.op, old.names, old.ready, old.nodes, old.pods)
  <1>1. /\ old \in ReaderState /\ old.stage = "reading" /\ old.todo = {} /\ old.pod = "none"
        /\ Advance(r, rd)
    BY DEF RUnlock, Inv, TypeOK
  <1>2. storePc # "pods"
    BY <1>1, ReadingFacts
  <1>3. podsSeen = pods
    BY <1>2 DEF podsSeen
  <1>4. ReplyOf(rd) = reply
    BY <1>1 DEF ReplyOf, ReaderState
  <1>5. replySeen[r] = Atomic!NoReply
    BY <1>1, SameData DEF replySeen, ReplyOf
  <1>6. /\ UNCHANGED <<nodes, podsSeen, gaugeSeen>>
        /\ replySeen' = [replySeen EXCEPT ![r] = reply]
    BY <1>1, <1>4, AdvanceSeen
  <1>7. Atomic!Answer(r, reply)
    BY <1>5, <1>6 DEF Atomic!Answer
  <1>8. CASE old.op = "Ready"
    <2>1. ReadyProgress(old, nodes, pods)
      BY <1>1, <1>8, ReadingFacts
    <2>2. /\ old.names = {} /\ old.ready = (HasPrevNode(nodes) \/ HasPrevPod(pods))
          /\ old.nodes = NoNodeAnswer /\ old.pods = NoPodAnswer
      BY <1>1, <2>1 DEF ReadyProgress
    <2>3. reply = AnswerTo("Ready", {}, HasPrevNode(nodes) \/ HasPrevPod(podsSeen),
                           NoNodeAnswer, NoPodAnswer)
      BY <1>3, <1>8, <2>2
    <2>4. Atomic!Ready(r)
      BY <1>7, <2>3, SameData DEF Atomic!Ready
    <2> QED
      BY <2>4 DEF Atomic!Next
  <1>9. CASE old.op = "GetNodeMetrics"
    <2>1. NodeProgress(old, nodes)
      BY <1>1, <1>9, ReadingFacts
    <2>2. /\ old.names \in SUBSET Nodes /\ old.ready = FALSE
          /\ old.nodes = NodeAnswer(nodes, old.names) /\ old.pods = NoPodAnswer
      BY <1>1, <2>1 DEF NodeProgress, NodeAnswer, ReaderState
    <2>3. reply = AnswerTo("GetNodeMetrics", old.names, FALSE, NodeAnswer(nodes, old.names),
                           NoPodAnswer)
      BY <1>9, <2>2
    <2>4. Atomic!GetNodeMetrics(r, old.names)
      BY <1>7, <2>3, SameData DEF Atomic!GetNodeMetrics
    <2> QED
      BY <2>2, <2>4 DEF Atomic!Next
  <1>10. CASE old.op = "GetPodMetrics"
    <2>1. PodProgress(old, pods)
      BY <1>1, <1>10, ReadingFacts
    <2>2. /\ old.names \in SUBSET Pods /\ old.ready = FALSE
          /\ old.nodes = NoNodeAnswer
      BY <1>1, <2>1 DEF PodProgress, ReaderState
    <2>3. \A p \in Pods :
            old.pods[p] \in (IF p \in old.names THEN PodResults(pods, p) ELSE {NotServed})
      BY <1>1, <2>1, PodNamesAssumption DEF PodProgress
    <2>4. old.pods \in PodAnswers(podsSeen, old.names)
      <3>1. old.pods = [p \in Pods |-> old.pods[p]]
        BY <1>1 DEF ReaderState
      <3>2. \A p \in Pods :
              old.pods[p] \in {NotServed} \cup UNION {PodResults(pods, q) : q \in old.names}
        BY <2>3
      <3> QED
        BY <1>3, <2>3, <3>1, <3>2 DEF PodAnswers
    <2>5. reply = AnswerTo("GetPodMetrics", old.names, FALSE, NoNodeAnswer, old.pods)
      BY <1>10, <2>2
    <2>6. Atomic!GetPodMetrics(r, old.names)
      BY <1>7, <2>4, <2>5, SameData DEF Atomic!GetPodMetrics
    <2> QED
      BY <2>2, <2>6 DEF Atomic!Next
  <1>11. old.op \in {"Ready", "GetNodeMetrics", "GetPodMetrics"}
    BY <1>1 DEF Inv, ReadersSeeOneStore, ReaderGood
  <1> QED
    BY <1>8, <1>9, <1>10, <1>11

(* The second half of a Store is already accounted for, so the whole of it  *)
(* is the step that replaces the nodes (storage.go:63).                     *)
LEMMA StoreNodesRefines ==
    ASSUME Inv, StoreNodes
    PROVE  Atomic!Next
  <1>1. batch \in Batches
    BY DEF StoreNodes, Inv, TypeOK
  <1>2. podsSeen = pods /\ gaugeSeen.node = pointsStored.node
    BY DEF StoreNodes, podsSeen, gaugeSeen, Inv, TypeOK
  <1>3. podsSeen' = podStore(podsSeen, batch.Pods)
    BY <1>2 DEF StoreNodes, podsSeen
  <1>4. gaugeSeen' = [node |-> NodePoints(nodes'), container |-> ContainerPoints(podsSeen')]
    <2>1. pointsStored' = [node |-> NodePoints(nodes'), container |-> pointsStored.container]
      BY DEF StoreNodes, Inv, TypeOK
    <2>2. gaugeSeen' = [pointsStored' EXCEPT !.container = ContainerPoints(podsSeen')]
      BY DEF StoreNodes, gaugeSeen
    <2> QED
      BY <2>1, <2>2
  <1>5. replySeen' = replySeen
    BY DEF StoreNodes, replySeen
  <1>6. nodes' = nodeStore(nodes, batch.Nodes)
    BY DEF StoreNodes
  <1>7. Atomic!Store(batch)
    BY <1>3, <1>4, <1>5, <1>6, SameData DEF Atomic!Store
  <1> QED
    BY <1>1, <1>7 DEF Atomic!Next

(* When the pods are replaced, and the waiting readers are let in, nothing  *)
(* changes that a caller can observe (storage.go:64).                       *)
LEMMA StorePodsRefines ==
    ASSUME Inv, StorePods
    PROVE  UNCHANGED Atomic!vars
  <1>1. podsSeen' = podsSeen
    BY DEF StorePods, podsSeen
  <1>2. gaugeSeen' = gaugeSeen
    <2>1. gaugeSeen = [pointsStored EXCEPT !.container = ContainerPoints(podsSeen)]
      BY DEF StorePods, gaugeSeen
    <2>2. gaugeSeen' = [pointsStored' EXCEPT !.container = pointsStored'.container]
      BY DEF StorePods, gaugeSeen
    <2>3. pointsStored' = [pointsStored EXCEPT !.container = ContainerPoints(podsSeen')]
      BY DEF StorePods, podsSeen
    <2>4. pointsStored \in [node : Nat, container : Nat]
      BY DEF Inv, TypeOK
    <2> QED
      BY <1>1, <2>1, <2>2, <2>3, <2>4
  <1>3. replySeen' = replySeen
    <2>1. \A r \in Readers : ReplyOf(reader'[r]) = ReplyOf(reader[r])
      <3> SUFFICES ASSUME NEW r \in Readers PROVE ReplyOf(reader'[r]) = ReplyOf(reader[r])
        OBVIOUS
      <3>1. reader[r] \in ReaderState
        BY DEF Inv, TypeOK
      <3>2. CASE reader[r].stage = "blocked"
        <4>1. reader'[r].stage = "reading"
          BY <3>1, <3>2 DEF StorePods, Unlock, ReaderState
        <4> QED
          BY <3>2, <4>1 DEF ReplyOf
      <3>3. CASE reader[r].stage # "blocked"
        BY <3>3 DEF StorePods, Unlock
      <3> QED
        BY <3>2, <3>3
    <2> QED
      BY <2>1 DEF replySeen
  <1>4. nodes' = nodes
    BY DEF StorePods
  <1> QED
    BY <1>1, <1>2, <1>3, <1>4 DEF Atomic!vars

(* The caller lets go of the answer it was given. *)
LEMMA DoneRefines ==
    ASSUME Inv, NEW r \in Readers, Done(r)
    PROVE  Atomic!Next
  <1>1. Advance(r, NoCall) /\ reader[r].stage = "return"
    BY DEF Done
  <1>2. ReplyOf(NoCall) = Atomic!NoReply
    BY SameData DEF ReplyOf, NoCall, InCall
  <1>3. UNCHANGED <<nodes, podsSeen, gaugeSeen>> /\ replySeen' = [replySeen EXCEPT ![r] = Atomic!NoReply]
    BY <1>1, <1>2, AdvanceSeen
  <1>4. replySeen[r].op = reader[r].op /\ reader[r].op # "none"
    BY <1>1 DEF replySeen, ReplyOf, AnswerTo, Inv, ReadersSeeOneStore, ReaderGood
  <1>5. Atomic!NoReply.op = "none"
    BY SameData DEF AnswerTo
  <1>6. Atomic!Done(r)
    BY <1>3, <1>4, <1>5 DEF Atomic!Done
  <1> QED
    BY <1>6 DEF Atomic!Next

(* Calls and lookups are invisible until the query returns. *)
LEMMA QueryRefines ==
    ASSUME Inv, NEW r \in Readers,
           \/ Ready(r)
           \/ \E names \in SUBSET Nodes : GetNodeMetrics(r, names)
           \/ \E names \in SUBSET Pods : GetPodMetrics(r, names)
           \/ ReadStep(r)
    PROVE  Atomic!Next \/ UNCHANGED Atomic!vars
  <1>1. reader[r] \in ReaderState
    BY DEF Inv, TypeOK
  <1>2. ASSUME NEW op, NEW names, NEW todo, Call(r, op, names, todo)
        PROVE  UNCHANGED Atomic!vars
    <2> DEFINE rd == InCall(RLockStage, op, names, todo)
    <2>1. Advance(r, rd) /\ reader[r].stage # "return"
      BY <1>2 DEF Call
    <2>2. rd.stage # "return"
      BY DEF InCall, RLockStage
    <2> HIDE DEF rd
    <2> QED
      BY <2>1, <2>2, AdvanceQuiet
  <1>3. CASE \/ Ready(r)
             \/ \E names \in SUBSET Nodes : GetNodeMetrics(r, names)
             \/ \E names \in SUBSET Pods : GetPodMetrics(r, names)
    BY <1>2, <1>3 DEF Ready, GetNodeMetrics, GetPodMetrics
  <1>4. CASE ReadStep(r) /\ ~RUnlock(r)
    <2>1. /\ Advance(r, reader'[r])
          /\ reader[r].stage # "return"
          /\ reader'[r].stage # "return"
      <3>0. reader \in [Readers -> ReaderState]
        BY DEF Inv, TypeOK
      <3>1. CASE ReadNodesPrev(r)
        BY <1>1, <3>0, <3>1 DEF ReadNodesPrev, Advance, Reading, ReaderState
      <3>2. CASE ReadPodsPrev(r)
        BY <1>1, <3>0, <3>2 DEF ReadPodsPrev, Advance, Reading, ReaderState
      <3>3. CASE ReadNode(r)
        BY <1>1, <3>0, <3>3 DEF ReadNode, Advance, Reading, ReaderState
      <3>4. CASE SkipPod(r)
        BY <1>1, <3>0, <3>4 DEF SkipPod, Advance, Reading, ReaderState
      <3>5. CASE StartPod(r)
        BY <1>1, <3>0, <3>5 DEF StartPod, Advance, Reading, ReaderState
      <3>6. CASE ContainerMissing(r)
        BY <1>1, <3>0, <3>6 DEF ContainerMissing, Advance, InLoop, Reading, ReaderState
      <3>7. CASE SkipContainer(r)
        BY <1>1, <3>0, <3>7 DEF SkipContainer, Advance, InLoop, Reading, ReaderState
      <3>8. CASE AddContainer(r)
        BY <1>1, <3>0, <3>8 DEF AddContainer, Advance, InLoop, Reading, ReaderState
      <3>9. CASE FinishPod(r)
        BY <1>1, <3>0, <3>9 DEF FinishPod, Advance, InLoop, Reading, ReaderState
      <3> QED
        BY <1>4, <3>1, <3>2, <3>3, <3>4, <3>5, <3>6, <3>7, <3>8, <3>9 DEF ReadStep
    <2> QED
      BY <2>1, AdvanceQuiet
  <1>5. CASE RUnlock(r)
    BY <1>5, ReturnRefines
  <1> QED
    BY <1>3, <1>4, <1>5

(* Every step of the storage with its lock is a step of the atomic one, or  *)
(* invisible to its callers (storage.go:42-65).                             *)
LEMMA NextRefines ==
    Inv /\ [Next]_vars => [Atomic!Next]_(Atomic!vars)
  <1> SUFFICES ASSUME Inv, [Next]_vars PROVE Atomic!Next \/ UNCHANGED Atomic!vars
    OBVIOUS
  <1>1. CASE \E b \in Batches : StoreCall(b)
    BY <1>1 DEF StoreCall, data, Atomic!vars, podsSeen, gaugeSeen, replySeen
  <1>2. CASE Lock
    BY <1>2 DEF Lock, data, Atomic!vars, podsSeen, gaugeSeen, replySeen
  <1>3. CASE StoreNodes
    BY <1>3, StoreNodesRefines
  <1>4. CASE StorePods
    BY <1>4, StorePodsRefines
  <1>5. CASE UNCHANGED vars
    BY <1>5 DEF vars, Atomic!vars, podsSeen, gaugeSeen, replySeen
  <1>6. ASSUME NEW r \in Readers, Done(r) PROVE Atomic!Next
    BY <1>6, DoneRefines
  <1>7. ASSUME NEW r \in Readers,
               \/ Ready(r)
               \/ \E names \in SUBSET Nodes : GetNodeMetrics(r, names)
               \/ \E names \in SUBSET Pods : GetPodMetrics(r, names)
               \/ ReadStep(r)
        PROVE  Atomic!Next \/ UNCHANGED Atomic!vars
    BY <1>7, QueryRefines
  <1> QED
    BY <1>1, <1>2, <1>3, <1>4, <1>5, <1>6, <1>7 DEF Next, StoreStep

(* The storage with its RWMutex, its two-step Store and its queries that    *)
(* read one entry at a time implements the one whose operations are single  *)
(* steps, for any number of readers, names and batches (storage.go:42-65).  *)
THEOREM StorageIsLinearizable ==
    Spec => Linearizable
  <1>1. Spec => []Inv
    BY InitInv, NextInv, PTL DEF Spec
  <1> QED
    BY <1>1, InitRefines, NextRefines, PTL DEF Spec, Linearizable, Atomic!Spec
=============================================================================
