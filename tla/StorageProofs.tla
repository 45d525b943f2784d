---------------------------- MODULE StorageProofs ---------------------------
(***************************************************************************)
(* Proofs about the storage as its callers see it: for every set of names, *)
(* every set of batches and all durations.  The first part holds lemmas    *)
(* about the data operations, what Store keeps and what the queries        *)
(* compute, which the proofs of the other storage modules use as well.     *)
(***************************************************************************)
EXTENDS AtomicStorage, FiniteSetTheorems, TLAPS

(* The types of the previous points that the two Store functions choose     *)
(* (node.go:83-99, pod.go:121-146).                                         *)
LEMMA PrevNodeType ==
    ASSUME NEW last \in OptPoint, NEW prev \in OptPoint, NEW new \in MetricsPoint
    PROVE  PrevNode(last, prev, new) \in OptPoint
  BY DEF PrevNode, OptPoint

(* The same of a container, whose previous point may be read as zero       *)
(* (pod.go:134).                                                            *)
LEMMA PrevContainerType ==
    ASSUME NEW last \in OptPoint, NEW prev \in OptPoint, NEW inPrev, NEW new \in MetricsPoint
    PROVE  PrevContainer(last, prev, inPrev, new) \in OptPoint
  <1>0. 0 \in UInt64
    BY MaxInt64Assumption DEF UInt64
  <1>1. AtStart(new) \in MetricsPoint
    BY <1>0 DEF AtStart, MetricsPoint, Time
  <1>2. MapRead(prev) \in MetricsPoint
    BY <1>0 DEF MapRead, ZeroPoint, ZeroTime, OptPoint, MetricsPoint, Time
  <1> QED
    BY <1>1, <1>2 DEF PrevContainer, OptPoint

(* A previous point that Store keeps is older than the point just stored.   *)
LEMMA PrevNodeOlder ==
    ASSUME NEW last \in OptPoint, NEW prev \in OptPoint, NEW new \in MetricsPoint,
           PrevNode(last, prev, new) # NoPoint
    PROVE  PrevNode(last, prev, new).Timestamp < new.Timestamp
  BY DEF PrevNode, OptPoint, MetricsPoint, Time

(* The zero point passes the same test, so it is older too (pod.go:134). *)
LEMMA PrevContainerOlder ==
    ASSUME NEW last \in OptPoint, NEW prev \in OptPoint, NEW inPrev, NEW new \in MetricsPoint,
           PrevContainer(last, prev, inPrev, new) # NoPoint
    PROVE  PrevContainer(last, prev, inPrev, new).Timestamp < new.Timestamp
  <1>1. CASE IsFresh(new)
    <2>1. AtStart(new).Timestamp = new.StartTime
      BY DEF AtStart, MetricsPoint
    <2> QED
      BY <1>1, <2>1 DEF PrevContainer, IsFresh
  <1>2. CASE ~IsFresh(new)
    BY <1>2 DEF PrevContainer, OptPoint, MetricsPoint, Time
  <1> QED
    BY <1>1, <1>2

(* The maps Store builds have the types of the storage (node.go:71, pod.go:102). *)
LEMMA StoreTypes ==
    ASSUME NEW ns \in NodeStorage, NEW ps \in PodStorage, NEW b \in MetricsBatch
    PROVE  /\ nodeStore(ns, b.Nodes) \in NodeStorage
           /\ podStore(ps, b.Pods) \in PodStorage
  <1> USE DEF MetricsBatch
  <1>1. nodeStore(ns, b.Nodes) \in NodeStorage
    <2>1. ASSUME NEW n \in Nodes, b.Nodes[n] # NoPoint
          PROVE  PrevNode(ns.last[n], ns.prev[n], b.Nodes[n]) \in OptPoint
      BY <2>1, PrevNodeType DEF NodeStorage, NodeMap, OptPoint
    <2> QED
      BY <2>1 DEF nodeStore, NodeStorage, NodeMap, OptPoint
  <1>2. podStore(ps, b.Pods) \in PodStorage
    <2>1. ASSUME NEW p \in Pods, NEW c \in Containers, b.Pods[p][c] # NoPoint
          PROVE  PrevContainer(ps.last[p][c], ps.prev[p][c], Found(ps.prev[p]), b.Pods[p][c])
                    \in OptPoint
      <3>1. b.Pods[p][c] \in MetricsPoint /\ ps.last[p][c] \in OptPoint /\ ps.prev[p][c] \in OptPoint
        BY <2>1 DEF PodStorage, PodMap, PodMetricsPoint, OptPoint
      <3> QED
        BY <3>1, PrevContainerType
    <2>2. \A p \in Pods : podStore(ps, b.Pods).prev[p] \in PodMetricsPoint
      BY <2>1 DEF podStore, PodMetricsPoint, OptPoint
    <2> QED
      BY <2>2 DEF podStore, PodStorage, PodMap
  <1> QED
    BY <1>1, <1>2

(* The gauge's values are natural numbers: finitely many names. *)
LEMMA GaugeTypes ==
    ASSUME NEW ns, NEW ps
    PROVE  NodePoints(ns) \in Nat /\ ContainerPoints(ps) \in Nat
  <1>1. IsFiniteSet(Pods \X Containers)
    BY FS_Product, NamesAssumption
  <1>2. IsFiniteSet({pc \in Pods \X Containers : ps.prev[pc[1]][pc[2]] # NoPoint})
    BY <1>1, FS_Subset
  <1>3. IsFiniteSet({n \in Nodes : ns.prev[n] # NoPoint})
    BY FS_Subset, NamesAssumption
  <1> QED
    BY <1>2, <1>3, FS_CardinalityType DEF NodePoints, ContainerPoints

-----------------------------------------------------------------------------
(* A quantity holds any uint64, all but the last digit of a large one       *)
(* (types.go:71-84).                                                        *)
LEMMA QuantityShows ==
    ASSUME NEW val \in UInt64
    PROVE  uint64Quantity(val) \in Quantity /\ Shows(uint64Quantity(val), val)
  <1>1. val \in Nat /\ val <= 2 * MaxInt64 + 1
    BY MaxInt64Assumption DEF UInt64
  <1>2. CASE val > MaxInt64
    <2>1. /\ val \div 10 \in 0..MaxInt64
          /\ 10 * (val \div 10) = val - (val % 10)
      BY <1>1, <1>2, MaxInt64Assumption
    <2>2. uint64Quantity(val) = [amount |-> val \div 10, exponent |-> 1]
      BY <1>2 DEF uint64Quantity
    <2> QED
      BY <1>1, <1>2, <2>1, <2>2, MaxInt64Assumption DEF Quantity, Shows, Value
  <1>3. CASE val <= MaxInt64
    <2>1. uint64Quantity(val) = [amount |-> val, exponent |-> 0]
      BY <1>1, <1>3, MaxInt64Assumption DEF uint64Quantity
    <2> QED
      BY <1>1, <1>3, <2>1, MaxInt64Assumption DEF Quantity, Shows, Value
  <1> QED
    BY <1>1, <1>2, <1>3, MaxInt64Assumption

(* Over a positive window the quotient is not larger than the difference.   *)
LEMMA CpuUsageType ==
    ASSUME NEW last \in MetricsPoint, NEW prev \in MetricsPoint, ~UsageError(last, prev),
           Sub(last.Timestamp, prev.Timestamp) \in Nat \ {0}
    PROVE  CpuUsage(last, prev) \in Quantity
  <1> DEFINE w == Sub(last.Timestamp, prev.Timestamp)
             d == last.CumulativeCpuUsed - prev.CumulativeCpuUsed
  <1>1. d \in UInt64
    BY MaxInt64Assumption DEF UsageError, MetricsPoint, UInt64
  <1>2. d \div w \in UInt64
    <2> HIDE DEF w, d
    <2>1. d \in Nat /\ w \in Nat \ {0} /\ d <= 2 * MaxInt64 + 1
      BY <1>1, MaxInt64Assumption DEF UInt64, w
    <2>2. d \div w \in Nat /\ d \div w <= d
      BY <2>1
    <2> QED
      BY <2>1, <2>2, MaxInt64Assumption DEF UInt64
  <1> QED
    BY <1>2, QuantityShows DEF CpuUsage

(* A usage computed from two points has its type, and over a positive       *)
(* window it is defined (types.go:53-69).                                   *)
LEMMA UsageType ==
    ASSUME NEW last \in MetricsPoint, NEW prev \in MetricsPoint, ~UsageError(last, prev)
    PROVE  resourceUsage(last, prev) \in Usage
  <1>1. Sub(last.Timestamp, prev.Timestamp) \in Int
    BY MaxDurationAssumption DEF Sub, MetricsPoint, Time
  <1>2. CpuUsage(last, prev) \in Quantity \cup {Undefined}
    BY <1>1, CpuUsageType DEF CpuUsage
  <1>3. uint64Quantity(last.MemoryUsage) \in Quantity
    BY QuantityShows DEF MetricsPoint
  <1> QED
    BY <1>1, <1>2, <1>3 DEF resourceUsage, Usage, MetricsPoint

(* With the previous point older, the usage is a number over a positive     *)
(* window.                                                                  *)
LEMMA UsageIsDefined ==
    ASSUME NEW last \in MetricsPoint, NEW prev \in MetricsPoint, ~UsageError(last, prev),
           prev.Timestamp < last.Timestamp
    PROVE  UsageDefined(resourceUsage(last, prev))
  <1>1. Sub(last.Timestamp, prev.Timestamp) \in Nat \ {0}
    BY MaxDurationAssumption DEF Sub, MetricsPoint, Time
  <1>2. CpuUsage(last, prev) \in Quantity
    BY <1>1, CpuUsageType
  <1> QED
    BY <1>1, <1>2, UndefinedAssumption DEF UsageDefined, resourceUsage

(* What GetMetrics computes for a node or a pod has its type, and over the  *)
(* points of a storage where previous points are older it is defined        *)
(* (node.go:40-69, pod.go:48-100).                                          *)
LEMMA NodeResultGood ==
    ASSUME NEW ns \in NodeStorage, NodesOrdered(ns), NEW n \in Nodes
    PROVE  /\ NodeResult(ns, n) \in Usage \cup {NotServed}
           /\ NodeResult(ns, n) # NotServed => UsageDefined(NodeResult(ns, n))
  <1>1. CASE NodeServed(ns, n)
    <2>1. ns.last[n] \in MetricsPoint /\ ns.prev[n] \in MetricsPoint
      BY <1>1 DEF NodeServed, NodeStorage, NodeMap, OptPoint
    <2>2. ~UsageError(ns.last[n], ns.prev[n]) /\ ns.prev[n].Timestamp < ns.last[n].Timestamp
      BY <1>1 DEF NodeServed, NodesOrdered
    <2> QED
      BY <1>1, <2>1, <2>2, UsageType, UsageIsDefined DEF NodeResult
  <1>2. CASE ~NodeServed(ns, n)
    BY <1>2 DEF NodeResult
  <1> QED
    BY <1>1, <1>2

(* The same of a pod, whichever container gives it its time (pod.go:83). *)
LEMMA PodResultGood ==
    ASSUME NEW ps \in PodStorage, PodsOrdered(ps), NEW p \in Pods, NEW m \in PodResults(ps, p)
    PROVE  /\ m \in PodMetrics \cup {NotServed}
           /\ m # NotServed => PodDefined(m)
  <1>1. CASE ~PodServed(ps, p)
    BY <1>1 DEF PodResults
  <1>2. CASE PodServed(ps, p)
    <2> DEFINE S == ServedContainers(ps, p)
               L(c) == ps.last[p][c]
               P(c) == ps.prev[p][c]
    <2>1. ASSUME NEW c \in S
          PROVE  /\ c \in Containers
                 /\ L(c) \in MetricsPoint /\ P(c) \in MetricsPoint
                 /\ ~UsageError(L(c), P(c)) /\ P(c).Timestamp < L(c).Timestamp
      <3>1. c \in Containers /\ L(c) # NoPoint /\ ~UsageError(L(c), P(c))
        BY DEF ServedContainers
      <3>2. P(c) # NoPoint
        BY <1>2, <3>1 DEF PodServed
      <3>3. L(c) \in OptPoint /\ P(c) \in OptPoint
        BY <3>1 DEF PodStorage, PodMap, PodMetricsPoint
      <3> QED
        BY <3>1, <3>2, <3>3 DEF PodsOrdered, OptPoint
    <2>2. ASSUME NEW c \in S
          PROVE  /\ resourceUsage(L(c), P(c)) \in Usage
                 /\ UsageDefined(resourceUsage(L(c), P(c)))
      BY <2>1, UsageType, UsageIsDefined
    <2>3. /\ ContainerUsage(ps, p) \in [Containers -> Usage \cup {NotServed}]
          /\ \A c \in Containers : ContainerUsage(ps, p)[c] # NotServed =>
                c \in S /\ UsageDefined(ContainerUsage(ps, p)[c])
      BY <2>2 DEF ContainerUsage
    <2>4. PICK ti \in PodTimeInfos(ps, p) :
            m = [Timestamp |-> ti.Timestamp, Window |-> ti.Window, Containers |-> ContainerUsage(ps, p)]
      BY <1>2 DEF PodResults
    <2>5. /\ ti.Timestamp \in Time /\ ti.Window \in Int
          /\ S # {} => ti.Window > 0 /\ ti.Timestamp # ZeroTime
      <3>1. CASE S = {}
        BY <3>1 DEF PodTimeInfos, ZeroTime, Time
      <3>2. CASE S # {}
        <4>1. PICK c \in Earliest(ps, p) :
                ti = [Timestamp |-> L(c).Timestamp, Window |-> Sub(L(c).Timestamp, P(c).Timestamp)]
          BY <3>2 DEF PodTimeInfos
        <4>2. c \in S
          BY DEF Earliest
        <4>3. /\ L(c).Timestamp \in Nat /\ P(c).Timestamp \in Nat
              /\ P(c).Timestamp < L(c).Timestamp
          BY <2>1, <4>2 DEF MetricsPoint, Time
        <4>4. Sub(L(c).Timestamp, P(c).Timestamp) \in Nat \ {0}
          BY <4>3, MaxDurationAssumption DEF Sub
        <4> QED
          BY <4>1, <4>3, <4>4 DEF Time, ZeroTime
      <3> QED
        BY <3>1, <3>2
    <2>6. m \in PodMetrics
      BY <2>3, <2>4, <2>5 DEF PodMetrics
    <2>7. PodDefined(m)
      <3>1. m.Containers = ContainerUsage(ps, p) /\ m.Window = ti.Window /\ m.Timestamp = ti.Timestamp
        BY <2>4
      <3> QED
        BY <2>3, <2>5, <3>1 DEF PodDefined
    <2> QED
      BY <2>6, <2>7
  <1> QED
    BY <1>1, <1>2

(* Store keeps the order, whatever it is given (node.go:71, pod.go:102). *)
LEMMA StoreOrdered ==
    ASSUME NEW ns \in NodeStorage, NEW ps \in PodStorage, NEW b \in MetricsBatch
    PROVE  /\ NodesOrdered(nodeStore(ns, b.Nodes))
           /\ PodsOrdered(podStore(ps, b.Pods))
  <1> USE DEF MetricsBatch
  <1>1. ASSUME NEW n \in Nodes, nodeStore(ns, b.Nodes).prev[n] # NoPoint
        PROVE  /\ nodeStore(ns, b.Nodes).last[n] # NoPoint
               /\ nodeStore(ns, b.Nodes).prev[n].Timestamp < nodeStore(ns, b.Nodes).last[n].Timestamp
    <2>1. b.Nodes[n] # NoPoint
      BY <1>1 DEF nodeStore
    <2>2. b.Nodes[n] \in MetricsPoint /\ ns.last[n] \in OptPoint /\ ns.prev[n] \in OptPoint
      BY <2>1 DEF NodeStorage, NodeMap, OptPoint
    <2>3. /\ nodeStore(ns, b.Nodes).last[n] = b.Nodes[n]
          /\ nodeStore(ns, b.Nodes).prev[n] = PrevNode(ns.last[n], ns.prev[n], b.Nodes[n])
      BY <2>1 DEF nodeStore
    <2> QED
      BY <1>1, <2>1, <2>2, <2>3, PrevNodeOlder
  <1>2. ASSUME NEW p \in Pods, NEW c \in Containers, podStore(ps, b.Pods).prev[p][c] # NoPoint
        PROVE  /\ podStore(ps, b.Pods).last[p][c] # NoPoint
               /\ podStore(ps, b.Pods).prev[p][c].Timestamp < podStore(ps, b.Pods).last[p][c].Timestamp
    <2>1. b.Pods[p][c] # NoPoint
      BY <1>2 DEF podStore
    <2>2. b.Pods[p][c] \in MetricsPoint /\ ps.last[p][c] \in OptPoint /\ ps.prev[p][c] \in OptPoint
      BY <2>1 DEF PodStorage, PodMap, PodMetricsPoint, OptPoint
    <2>3. /\ podStore(ps, b.Pods).last[p][c] = b.Pods[p][c]
          /\ podStore(ps, b.Pods).prev[p][c] =
                PrevContainer(ps.last[p][c], ps.prev[p][c], Found(ps.prev[p]), b.Pods[p][c])
      BY <2>1 DEF podStore
    <2> QED
      BY <1>2, <2>1, <2>2, <2>3, PrevContainerOlder
  <1>3. NodesOrdered(nodeStore(ns, b.Nodes))
    BY <1>1 DEF NodesOrdered
  <1>4. PodsOrdered(podStore(ps, b.Pods))
    BY <1>2 DEF PodsOrdered
  <1> QED
    BY <1>3, <1>4

-----------------------------------------------------------------------------
(* The inductive invariant: types and the order of the points, from which   *)
(* the definedness of each answer follows at the moment it is given.        *)
IndInv == TypeOK /\ PrevBeforeLast /\ AnswersDefined

(* The empty storage satisfies it (storage.go:36). *)
LEMMA InitIndInv ==
    Init => IndInv
  <1> SUFFICES ASSUME Init PROVE IndInv
    OBVIOUS
  <1>1. nodes \in NodeStorage /\ pods \in PodStorage
    BY DEF Init, NodeStorage, PodStorage, NodeMap, PodMap, PodMetricsPoint, OptPoint,
           NoNodes, NoPods, NoContainers
  <1>2. NoReply \in Reply
    BY DEF NoReply, Reply, AnswerTo, NoNodeAnswer, NoPodAnswer
  <1>3. TypeOK
    BY <1>1, <1>2 DEF Init, TypeOK
  <1>4. PrevBeforeLast
    BY DEF Init, PrevBeforeLast, NodesOrdered, PodsOrdered, NoNodes, NoPods, NoContainers
  <1>5. AnswersDefined
    BY DEF Init, AnswersDefined, NoReply, AnswerTo, NoNodeAnswer, NoPodAnswer
  <1> QED
    BY <1>3, <1>4, <1>5 DEF IndInv

(* An answer that is well typed and defined may be given to a reader. *)
ReplyGood(a) ==
    /\ a \in Reply
    /\ \A n \in Nodes : a.nodes[n] # NotServed => UsageDefined(a.nodes[n])
    /\ \A p \in Pods : a.pods[p] # NotServed => PodDefined(a.pods[p])

(* AnswersDefined says just that of all readers. *)
LEMMA GoodReplies ==
    AnswersDefined /\ reply \in [Readers -> Reply] <=>
        reply \in [Readers -> Reply] /\ \A r \in Readers : ReplyGood(reply[r])
  BY DEF AnswersDefined, ReplyGood

(* Giving one reader such an answer keeps the invariant (storage.go:42-58). *)
LEMMA SetReply ==
    ASSUME IndInv, NEW r \in Readers, NEW a, ReplyGood(a),
           reply' = [reply EXCEPT ![r] = a], UNCHANGED <<nodes, pods, pointsStored>>
    PROVE  IndInv'
  <1>1. reply' \in [Readers -> Reply]
    BY DEF IndInv, TypeOK, ReplyGood
  <1>2. \A q \in Readers : ReplyGood(reply'[q])
    BY GoodReplies DEF IndInv, TypeOK
  <1>3. TypeOK' /\ PrevBeforeLast'
    BY <1>1 DEF IndInv, TypeOK, PrevBeforeLast
  <1>4. AnswersDefined'
    BY <1>2 DEF AnswersDefined, ReplyGood
  <1> QED
    BY <1>3, <1>4 DEF IndInv

(* Having no answer counts as one. *)
LEMMA NoReplyGood ==
    ReplyGood(NoReply)
  BY DEF ReplyGood, NoReply, Reply, AnswerTo, NoNodeAnswer, NoPodAnswer

(* Every operation of the storage keeps the invariant (storage.go:42-65). *)
LEMMA NextIndInv ==
    IndInv /\ [Next]_vars => IndInv'
  <1> SUFFICES ASSUME IndInv, [Next]_vars PROVE IndInv'
    OBVIOUS
  <1>0. nodes \in NodeStorage /\ pods \in PodStorage /\ NodesOrdered(nodes) /\ PodsOrdered(pods)
    BY DEF IndInv, TypeOK, PrevBeforeLast
  <1>1. ASSUME NEW b \in Batches, Store(b) PROVE IndInv'
    <2>1. b \in MetricsBatch
      BY BatchesAssumption
    <2>2. nodes' \in NodeStorage /\ pods' \in PodStorage
      BY <1>0, <1>1, <2>1, StoreTypes DEF Store
    <2>3. NodesOrdered(nodes') /\ PodsOrdered(pods')
      BY <1>0, <1>1, <2>1, StoreOrdered DEF Store
    <2>4. pointsStored' \in [node : Nat, container : Nat]
      BY <1>1, GaugeTypes DEF Store
    <2>5. TypeOK'
      BY <1>1, <2>2, <2>4 DEF Store, IndInv, TypeOK
    <2>6. PrevBeforeLast'
      BY <2>3 DEF PrevBeforeLast
    <2>7. AnswersDefined'
      BY <1>1 DEF Store, IndInv, AnswersDefined
    <2> QED
      BY <2>5, <2>6, <2>7 DEF IndInv
  <1>2. ASSUME NEW r \in Readers, Ready(r) PROVE IndInv'
    <2> DEFINE a == AnswerTo("Ready", {}, HasPrevNode(nodes) \/ HasPrevPod(pods),
                             NoNodeAnswer, NoPodAnswer)
    <2>1. ReplyGood(a)
      BY DEF ReplyGood, Reply, AnswerTo, NoNodeAnswer, NoPodAnswer, HasPrevNode, HasPrevPod
    <2>2. reply' = [reply EXCEPT ![r] = a] /\ UNCHANGED <<nodes, pods, pointsStored>>
      BY <1>2 DEF Ready, Answer
    <2> QED
      BY <2>1, <2>2, SetReply
  <1>3. ASSUME NEW r \in Readers, NEW names \in SUBSET Nodes, GetNodeMetrics(r, names)
        PROVE  IndInv'
    <2> DEFINE a == AnswerTo("GetNodeMetrics", names, FALSE, NodeAnswer(nodes, names), NoPodAnswer)
    <2>1. /\ NodeAnswer(nodes, names) \in [Nodes -> Usage \cup {NotServed}]
          /\ \A n \in Nodes : NodeAnswer(nodes, names)[n] # NotServed =>
                UsageDefined(NodeAnswer(nodes, names)[n])
      BY <1>0, NodeResultGood DEF NodeAnswer
    <2>2. ReplyGood(a)
      BY <2>1 DEF ReplyGood, Reply, AnswerTo, NoPodAnswer
    <2>3. reply' = [reply EXCEPT ![r] = a] /\ UNCHANGED <<nodes, pods, pointsStored>>
      BY <1>3 DEF GetNodeMetrics, Answer
    <2> QED
      BY <2>2, <2>3, SetReply
  <1>4. ASSUME NEW r \in Readers, NEW names \in SUBSET Pods, GetPodMetrics(r, names)
        PROVE  IndInv'
    <2>1. PICK answer \in PodAnswers(pods, names) :
            Answer(r, AnswerTo("GetPodMetrics", names, FALSE, NoNodeAnswer, answer))
      BY <1>4 DEF GetPodMetrics
    <2> DEFINE a == AnswerTo("GetPodMetrics", names, FALSE, NoNodeAnswer, answer)
    <2>2. /\ answer \in [Pods -> PodMetrics \cup {NotServed}]
          /\ \A p \in Pods : answer[p] # NotServed => PodDefined(answer[p])
      <3>1. ASSUME NEW p \in Pods
            PROVE  /\ answer[p] \in PodMetrics \cup {NotServed}
                   /\ answer[p] # NotServed => PodDefined(answer[p])
        <4>1. answer[p] \in PodResults(pods, p) \/ answer[p] = NotServed
          BY DEF PodAnswers
        <4> QED
          BY <1>0, <4>1, PodResultGood
      <3>2. answer = [p \in Pods |-> answer[p]]
        BY DEF PodAnswers
      <3> QED
        BY <3>1, <3>2
    <2>3. ReplyGood(a)
      BY <2>2 DEF ReplyGood, Reply, AnswerTo, NoNodeAnswer
    <2>4. reply' = [reply EXCEPT ![r] = a] /\ UNCHANGED <<nodes, pods, pointsStored>>
      BY <2>1 DEF Answer
    <2> QED
      BY <2>3, <2>4, SetReply
  <1>5. ASSUME NEW r \in Readers, Done(r) PROVE IndInv'
    BY <1>5, NoReplyGood, SetReply DEF Done
  <1>6. CASE UNCHANGED vars
    BY <1>6 DEF vars, IndInv, TypeOK, PrevBeforeLast, AnswersDefined
  <1> QED
    BY <1>1, <1>2, <1>3, <1>4, <1>5, <1>6 DEF Next

(* The storage's maps, its gauge and its answers keep their types. *)
THEOREM StorageTypeCorrect ==
    Spec => []TypeOK
  <1>1. IndInv => TypeOK
    BY DEF IndInv
  <1> QED
    BY InitIndInv, NextIndInv, <1>1, PTL DEF Spec

(* For any batches, every previous point is strictly older than the last    *)
(* one of the same name, the fact resourceUsage divides by (types.go:60).   *)
THEOREM StoragePrevBeforeLast ==
    Spec => []PrevBeforeLast
  <1>1. IndInv => PrevBeforeLast
    BY DEF IndInv
  <1> QED
    BY InitIndInv, NextIndInv, <1>1, PTL DEF Spec

(* Every usage ever answered was computed over a positive window and is a   *)
(* number: no query divides by zero or converts a negative quotient         *)
(* (types.go:61).                                                           *)
THEOREM StorageAnswersDefined ==
    Spec => []AnswersDefined
  <1>1. IndInv => AnswersDefined
    BY DEF IndInv
  <1> QED
    BY InitIndInv, NextIndInv, <1>1, PTL DEF Spec

(* Whatever is stored, the memory of a served node or container is shown as *)
(* an int64, exactly or without its last digit (types.go:71-84).            *)
THEOREM StorageQuantitiesFit ==
    Spec => []QuantitiesFit
  <1>1. ASSUME TypeOK PROVE QuantitiesFit
    <2>1. ASSUME NEW n \in Nodes, NodeServed(nodes, n)
          PROVE  Shows(NodeResult(nodes, n).Memory, nodes.last[n].MemoryUsage)
      <3>1. nodes.last[n].MemoryUsage \in UInt64
        BY <1>1, <2>1 DEF TypeOK, NodeServed, NodeStorage, NodeMap, OptPoint, MetricsPoint
      <3>2. NodeResult(nodes, n).Memory = uint64Quantity(nodes.last[n].MemoryUsage)
        BY <2>1 DEF NodeResult, resourceUsage
      <3> QED
        BY <3>1, <3>2, QuantityShows
    <2>2. ASSUME NEW p \in Pods, NEW c \in ServedContainers(pods, p)
          PROVE  Shows(ContainerUsage(pods, p)[c].Memory, pods.last[p][c].MemoryUsage)
      <3>1. c \in Containers /\ pods.last[p][c] # NoPoint
        BY DEF ServedContainers
      <3>2. pods.last[p][c].MemoryUsage \in UInt64
        BY <1>1, <3>1 DEF TypeOK, PodStorage, PodMap, PodMetricsPoint, OptPoint, MetricsPoint
      <3>3. ContainerUsage(pods, p)[c].Memory = uint64Quantity(pods.last[p][c].MemoryUsage)
        BY <3>1 DEF ContainerUsage, resourceUsage
      <3> QED
        BY <3>2, <3>3, QuantityShows
    <2> QED
      BY <2>1, <2>2 DEF QuantitiesFit
  <1> QED
    BY StorageTypeCorrect, <1>1, PTL
=============================================================================
