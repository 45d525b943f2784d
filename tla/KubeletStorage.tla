--------------------------- MODULE KubeletStorage ---------------------------
(***************************************************************************)
(* The storage fed by kubelets that report what they measured.  Containers *)
(* and nodes start, stop and restart at any time; the kubelet measures now *)
(* and then and answers a scrape with its latest sample, so that a scrape  *)
(* may repeat a sample, miss a whole life, or fail and leave a gap.        *)
(*                                                                         *)
(* Queries are absent: by Storage!Linearizable an answer is computed from  *)
(* one state of nodes and pods, so the properties speak of every answer    *)
(* that could be given in a state.                                         *)
(***************************************************************************)
EXTENDS StorageData

CONSTANTS
    Epoch,     \* the first moment, more than MaxDuration after the zero time
    MaxClock,  \* the last moment explored
    Rates,     \* cores a container or node may use while it runs
    Capacity,  \* the cores there are
    Clusters   \* the nodes and pods that may exist together

(* What is explored is shorter than the 292 years of a time.Duration, and   *)
(* no counter outgrows its uint64 in that time.                             *)
ASSUME EpochAssumption ==
    /\ Epoch \in Nat /\ MaxClock \in Nat
    /\ MaxDuration < Epoch
    /\ Epoch <= MaxClock /\ MaxClock - Epoch <= MaxDuration

ASSUME RatesAssumption ==
    /\ Capacity \in Nat /\ Rates \subseteq 0..Capacity
    /\ Capacity * (MaxClock - Epoch) \in UInt64

ASSUME ClustersAssumption == Clusters \subseteq SUBSET (Nodes \cup Pods)

VARIABLES
    cluster,     \* the nodes and pods there are
    clock,
    boot,        \* when each node booted
    run,         \* when each container started, or ZeroTime while it does not run
    nodeSample,  \* the kubelet's latest measurement of its node
    sample,      \* and of each container
    nodes, pods  \* the storage

vars == <<cluster, clock, boot, run, nodeSample, sample, nodes, pods>>
environment == <<cluster, clock, boot, run, nodeSample, sample>>
storage == <<nodes, pods>>

Init ==
    /\ cluster \in Clusters
    /\ clock = Epoch
    /\ boot = [n \in Nodes |-> Epoch]
    /\ run = [p \in Pods |-> [c \in Containers |-> ZeroTime]]
    /\ nodeSample = NoNodes
    /\ sample = NoPods
    /\ nodes = [last |-> NoNodes, prev |-> NoNodes]
    /\ pods = [last |-> NoPods, prev |-> NoPods]

-----------------------------------------------------------------------------
(* The cluster *)

Tick ==
    /\ clock < MaxClock
    /\ clock' = clock + 1
    /\ UNCHANGED <<boot, run, nodeSample, sample, cluster, storage>>

(* A reboot loses the kubelet's sample and resets the node's CPU counter;   *)
(* the decoder never sets a node's start time, so that nothing tells.       *)
Reboot(n) ==
    /\ boot' = [boot EXCEPT ![n] = clock]
    /\ nodeSample' = [nodeSample EXCEPT ![n] = NoPoint]
    /\ UNCHANGED <<clock, run, sample, cluster, storage>>

Start(p, c) ==
    /\ run[p][c] = ZeroTime
    /\ run' = [run EXCEPT ![p][c] = clock]
    /\ UNCHANGED <<clock, boot, nodeSample, sample, cluster, storage>>

(* The sample of a stopped container stays until the kubelet drops it or    *)
(* measures the container's next life.                                      *)
Stop(p, c) ==
    /\ run[p][c] # ZeroTime
    /\ run' = [run EXCEPT ![p][c] = ZeroTime]
    /\ UNCHANGED <<clock, boot, nodeSample, sample, cluster, storage>>

Forget(p, c) ==
    /\ run[p][c] = ZeroTime
    /\ sample[p][c] # NoPoint
    /\ sample' = [sample EXCEPT ![p][c] = NoPoint]
    /\ UNCHANGED <<clock, boot, run, nodeSample, cluster, storage>>

(* What is measured now of something that started at start, at a constant   *)
(* rate since the sample s of the same life or since its start.             *)
Measured(s, sameLife, start, reported, rate) ==
    [StartTime         |-> reported,
     Timestamp         |-> clock,
     CumulativeCpuUsed |-> IF sameLife
                           THEN s.CumulativeCpuUsed + rate * (clock - s.Timestamp)
                           ELSE rate * (clock - start),
     MemoryUsage       |-> 1]

MeasureNode(n) ==
    /\ \E rate \in Rates :
        nodeSample' = [nodeSample EXCEPT
            ![n] = Measured(nodeSample[n], nodeSample[n] # NoPoint, boot[n], ZeroTime, rate)]
    /\ UNCHANGED <<clock, boot, run, sample, cluster, storage>>

MeasureContainer(p, c) ==
    /\ run[p][c] # ZeroTime
    /\ \E rate \in Rates :
        LET s == sample[p][c]
        IN  sample' = [sample EXCEPT
                ![p][c] = Measured(s, s # NoPoint /\ s.StartTime = run[p][c],
                                   run[p][c], run[p][c], rate)]
    /\ UNCHANGED <<clock, boot, run, nodeSample, cluster, storage>>

-----------------------------------------------------------------------------
(* decodeBatch: a node whose counter is zero is dropped, and so is a pod of  *)
(* which a single container's counter is zero.                               *)
DecodedNode(s) == IF s # NoPoint /\ s.CumulativeCpuUsed # 0 THEN s ELSE NoPoint

DecodedPod(s) ==
    IF \A c \in Containers : s[c] # NoPoint => s[c].CumulativeCpuUsed # 0
    THEN s ELSE NoContainers

(* One scrape and the Store of its batch.  The nodes and pods in answered   *)
(* are those of the kubelets that answered in time.                         *)
Scrape(answered) ==
    /\ nodes' = nodeStore(nodes, [n \in Nodes |->
                    IF n \in answered THEN DecodedNode(nodeSample[n]) ELSE NoPoint])
    /\ pods' = podStore(pods, [p \in Pods |->
                    IF p \in answered THEN DecodedPod(sample[p]) ELSE NoContainers])
    /\ UNCHANGED environment

Next ==
    \/ Tick
    \/ \E n \in Nodes \cap cluster : Reboot(n) \/ MeasureNode(n)
    \/ \E p \in Pods \cap cluster, c \in Containers :
        Start(p, c) \/ Stop(p, c) \/ Forget(p, c) \/ MeasureContainer(p, c)
    \/ \E answered \in SUBSET cluster : Scrape(answered)

Spec == Init /\ [][Next]_vars

-----------------------------------------------------------------------------
Stored(p, c) == pods.last[p][c] # NoPoint /\ pods.prev[p][c] # NoPoint

(* "Points timestamp should proceed the corresponding points from last and  *)
(* have same start time (no restart between them)" (pod.go:42).             *)
SameStartTime ==
    \A p \in Pods, c \in Containers : Stored(p, c) =>
        pods.prev[p][c].StartTime = pods.last[p][c].StartTime

(* However scrapes and restarts interleave, no restart lies between the two *)
(* points of a container and the later one's counter is not below the       *)
(* earlier one's, unless the earlier one is the zero point that Store       *)
(* (pod.go:134) reads for a container its previous pod lacks.               *)
NoRestartInWindow ==
    \A p \in Pods, c \in Containers :
        Stored(p, c) /\ pods.prev[p][c] # ZeroPoint =>
            LET last == pods.last[p][c]
                prev == pods.prev[p][c]
            IN  /\ last.StartTime = prev.StartTime
                /\ last.StartTime <= prev.Timestamp
                /\ last.CumulativeCpuUsed >= prev.CumulativeCpuUsed

(* A pod that is served shows every container its kubelet reported: with    *)
(* genuine samples resourceUsage (types.go:53) rejects no container.        *)
ServedPodIsComplete ==
    \A p \in Pods : PodServed(pods, p) =>
        ServedContainers(pods, p) = {c \in Containers : pods.last[p][c] # NoPoint}

(* No node or container is ever shown to use more cores than exist, although *)
(* reboots of a node, which reset its counter, go unnoticed when the counter *)
(* has grown past its old value (node.go:83, types.go:57).                   *)
UsageWithinCapacity ==
    /\ \A n \in Nodes : NodeServed(nodes, n) => Value(NodeResult(nodes, n).Cpu) <= Capacity
    /\ \A p \in Pods : PodServed(pods, p) =>
        \A c \in ServedContainers(pods, p) : Value(ContainerUsage(pods, p)[c].Cpu) <= Capacity

(* From one scrape to the next, the timestamp shown for a pod or a node does *)
(* not go back, although the pod's is the earliest of a changing set of      *)
(* containers (pod.go:83).                                                   *)
TimestampsAdvance ==
    [][/\ \A n \in Nodes : NodeServed(nodes, n) /\ NodeServed(nodes', n) =>
            NodeResult(nodes, n).Timestamp <= NodeResult(nodes', n).Timestamp
       /\ \A p \in Pods : PodServed(pods, p) /\ PodServed(pods', p) =>
            \A before \in PodTimeInfos(pods, p), after \in PodTimeInfos(pods', p) :
                before.Timestamp <= after.Timestamp]_vars
=============================================================================
