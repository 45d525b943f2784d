--------------------------- MODULE AtomicStorage ----------------------------
(***************************************************************************)
(* What the storage promises its callers: Store replaces the points of     *)
(* nodes and pods in one step, and a query is answered from one state.     *)
(* Module Storage, which has the lock and the separate steps, implements   *)
(* this specification.                                                     *)
(***************************************************************************)
EXTENDS StorageData

CONSTANTS
    Readers,  \* the goroutines of API requests and probes
    Batches   \* the batches a scrape may deliver

ASSUME BatchesAssumption == Batches \subseteq MetricsBatch

VARIABLES
    nodes,         \* nodeStorage
    pods,          \* podStorage
    pointsStored,  \* the gauge, per label
    reply          \* the answer each reader holds, or NoReply

vars == <<nodes, pods, pointsStored, reply>>

NoReply == AnswerTo("none", {}, FALSE, NoNodeAnswer, NoPodAnswer)

Init ==
    /\ nodes = [last |-> NoNodes, prev |-> NoNodes]
    /\ pods = [last |-> NoPods, prev |-> NoPods]
    /\ pointsStored = [node |-> 0, container |-> 0]
    /\ reply = [r \in Readers |-> NoReply]

-----------------------------------------------------------------------------
Store(batch) ==
    /\ nodes' = nodeStore(nodes, batch.Nodes)
    /\ pods' = podStore(pods, batch.Pods)
    /\ pointsStored' = [node |-> NodePoints(nodes'), container |-> ContainerPoints(pods')]
    /\ UNCHANGED reply

Answer(r, answer) ==
    /\ reply[r] = NoReply
    /\ reply' = [reply EXCEPT ![r] = answer]
    /\ UNCHANGED <<nodes, pods, pointsStored>>

Ready(r) ==
    Answer(r, AnswerTo("Ready", {}, HasPrevNode(nodes) \/ HasPrevPod(pods),
                       NoNodeAnswer, NoPodAnswer))

GetNodeMetrics(r, names) ==
    Answer(r, AnswerTo("GetNodeMetrics", names, FALSE, NodeAnswer(nodes, names), NoPodAnswer))

GetPodMetrics(r, names) ==
    \E answer \in PodAnswers(pods, names) :
        Answer(r, AnswerTo("GetPodMetrics", names, FALSE, NoNodeAnswer, answer))

(* The caller uses the answer and may ask again. *)
Done(r) ==
    /\ reply[r] # NoReply
    /\ reply' = [reply EXCEPT ![r] = NoReply]
    /\ UNCHANGED <<nodes, pods, pointsStored>>

Next ==
    \/ \E batch \in Batches : Store(batch)
    \/ \E r \in Readers :
        \/ Ready(r)
        \/ \E names \in SUBSET Nodes : GetNodeMetrics(r, names)
        \/ \E names \in SUBSET Pods : GetPodMetrics(r, names)
        \/ Done(r)

Spec == Init /\ [][Next]_vars

-----------------------------------------------------------------------------
Reply ==
    [op    : {"none", "Ready", "GetNodeMetrics", "GetPodMetrics"},
     names : SUBSET (Nodes \cup Pods),
     ready : BOOLEAN,
     nodes : [Nodes -> Usage \cup {NotServed}],
     pods  : [Pods -> PodMetrics \cup {NotServed}]]

(* The types of the storage's maps, its gauge and the answers it gave. *)
TypeOK ==
    /\ nodes \in NodeStorage
    /\ pods \in PodStorage
    /\ pointsStored \in [node : Nat, container : Nat]
    /\ reply \in [Readers -> Reply]

(* Whatever batches arrive, with repeated, older or missing points, a       *)
(* previous point belongs to a name that has a last one and is strictly     *)
(* older than it: "Points timestamp should proceed the corresponding points *)
(* from last" (node.go:36, pod.go:42), on which resourceUsage's division by *)
(* the window rests.                                                        *)
PrevBeforeLast == NodesOrdered(nodes) /\ PodsOrdered(pods)

(* Every usage any caller ever holds was computed over a positive window,   *)
(* so resourceUsage (types.go:61) never converted an infinite or negative   *)
(* quotient; and a pod's own window is positive whenever it shows a         *)
(* container.                                                               *)
AnswersDefined ==
    \A r \in Readers :
        /\ \A n \in Nodes : reply[r].nodes[n] # NotServed => UsageDefined(reply[r].nodes[n])
        /\ \A p \in Pods : reply[r].pods[p] # NotServed => PodDefined(reply[r].pods[p])

(* Usage that needs all 64 bits is served as an int64 that is neither       *)
(* negative nor ten times too small or too large: a larger value has lost   *)
(* its last decimal digit and nothing else, a smaller one is exact          *)
(* (types.go:71-84).                                                        *)
QuantitiesFit ==
    /\ \A n \in Nodes : NodeServed(nodes, n) =>
        Shows(NodeResult(nodes, n).Memory, nodes.last[n].MemoryUsage)
    /\ \A p \in Pods : PodServed(pods, p) => \A c \in ServedContainers(pods, p) :
        Shows(ContainerUsage(pods, p)[c].Memory, pods.last[p][c].MemoryUsage)
=============================================================================
