------------------------------ MODULE Storage -------------------------------
(***************************************************************************)
(* The storage with its RWMutex (pkg/storage/storage.go): Store replaces   *)
(* the points of the nodes and then those of the pods, and queries read    *)
(* them one map entry at a time, so that only the lock keeps a query from  *)
(* seeing half of a Store.                                                 *)
(*                                                                         *)
(* The lock is not a variable of its own.  Store, called only by the       *)
(* server's scrape loop, waits for it or holds it unless storePc is        *)
(* "idle"; a reader holds it in stage "reading" and waits for it in stage  *)
(* "blocked".  As in package sync, a waiting Lock keeps new readers out,   *)
(* and Unlock admits every reader that waits.                              *)
(***************************************************************************)
EXTENDS StorageData

CONSTANTS Readers, Batches

ASSUME StorageBatchesAssumption == Batches \subseteq MetricsBatch

ASSUME PodNamesAssumption == "none" \notin Pods

VARIABLES
    nodes,         \* nodeStorage
    pods,          \* podStorage
    pointsStored,  \* the gauge, per label
    storePc,       \* where the call of Store is: "idle", "locking", "nodes", "pods"
    batch,         \* its argument
    reader         \* the call each reader is in

vars == <<nodes, pods, pointsStored, storePc, batch, reader>>

NoBatch == [Nodes |-> NoNodes, Pods |-> NoPods]

NoTime == [Timestamp |-> ZeroTime, Window |-> 0]

NothingServed == [c \in Containers |-> NotServed]

(* The state of a call.  todo holds what is left to look up; pod, left, cms *)
(* and ti are the variables of the loop over a pod's containers.            *)
InCall(stage, op, names, todo) ==
    [stage |-> stage, op |-> op, names |-> names, todo |-> todo,
     pod   |-> "none", left |-> {}, cms |-> NothingServed, ti |-> NoTime,
     ready |-> FALSE,
     nodes |-> NoNodeAnswer,
     pods  |-> NoPodAnswer]

NoCall == InCall("idle", "none", {}, {})

Init ==
    /\ nodes = [last |-> NoNodes, prev |-> NoNodes]
    /\ pods = [last |-> NoPods, prev |-> NoPods]
    /\ pointsStored = [node |-> 0, container |-> 0]
    /\ storePc = "idle"
    /\ batch = NoBatch
    /\ reader = [r \in Readers |-> NoCall]

data == <<nodes, pods, pointsStored>>
store == <<storePc, batch>>

-----------------------------------------------------------------------------
(* Store *)

(* The call, up to the point where Lock has announced itself. *)
StoreCall(b) ==
    /\ storePc = "idle"
    /\ storePc' = "locking"
    /\ batch' = b
    /\ UNCHANGED <<data, reader>>

(* Mutant: Lock does not wait for the readers that are in. *)
LockAtOnce ==
    /\ storePc = "locking"
    /\ storePc' = "nodes"
    /\ UNCHANGED <<data, batch, reader>>

Lock ==
    /\ storePc = "locking"
    /\ \A r \in Readers : reader[r].stage # "reading"
    /\ storePc' = "nodes"
    /\ UNCHANGED <<data, batch, reader>>

StoreNodes ==
    /\ storePc = "nodes"
    /\ nodes' = nodeStore(nodes, batch.Nodes)
    /\ pointsStored' = [pointsStored EXCEPT !.node = NodePoints(nodes')]
    /\ storePc' = "pods"
    /\ UNCHANGED <<pods, batch, reader>>

(* The readers that Unlock lets in. *)
Unlock ==
    reader' = [r \in Readers |-> IF reader[r].stage = "blocked"
                                 THEN [reader[r] EXCEPT !.stage = "reading"]
                                 ELSE reader[r]]

StorePods ==
    /\ storePc = "pods"
    /\ pods' = podStore(pods, batch.Pods)
    /\ pointsStored' = [pointsStored EXCEPT !.container = ContainerPoints(pods')]
    /\ storePc' = "idle"
    /\ batch' = NoBatch
    /\ Unlock
    /\ UNCHANGED nodes

-----------------------------------------------------------------------------
(* Queries *)

(* Mutant: a waiting Lock does not keep new readers out. *)
RLockStageReadersFirst == IF storePc \in {"idle", "locking"} THEN "reading" ELSE "blocked"

(* RLock: a reader gets in unless Store holds the lock or waits for it. *)
RLockStage == IF storePc = "idle" THEN "reading" ELSE "blocked"

Advance(r, rd) ==
    /\ reader' = [reader EXCEPT ![r] = rd]
    /\ UNCHANGED <<data, store>>

Call(r, op, names, todo) ==
    /\ reader[r].stage = "idle"
    /\ Advance(r, InCall(RLockStage, op, names, todo))

Ready(r) == Call(r, "Ready", {}, {"nodes.prev"})

GetNodeMetrics(r, names) == Call(r, "GetNodeMetrics", names, names)

GetPodMetrics(r, names) == Call(r, "GetPodMetrics", names, names)

Reading(r, op) == reader[r].stage = "reading" /\ reader[r].op = op

(* len(s.nodes.prev) != 0 || len(s.pods.prev) != 0, one map after the other. *)
ReadNodesPrev(r) ==
    /\ Reading(r, "Ready")
    /\ "nodes.prev" \in reader[r].todo
    /\ Advance(r, [reader[r] EXCEPT
            !.ready = HasPrevNode(nodes),
            !.todo = IF HasPrevNode(nodes) THEN {} ELSE {"pods.prev"}])

ReadPodsPrev(r) ==
    /\ Reading(r, "Ready")
    /\ "pods.prev" \in reader[r].todo
    /\ Advance(r, [reader[r] EXCEPT !.ready = HasPrevPod(pods), !.todo = {}])

ReadNode(r) ==
    /\ Reading(r, "GetNodeMetrics")
    /\ \E n \in reader[r].todo :
        Advance(r, [reader[r] EXCEPT
            !.nodes = [@ EXCEPT ![n] = NodeResult(nodes, n)],
            !.todo = @ \ {n}])

(* The next pod is skipped when either map lacks it. *)
SkipPod(r) ==
    /\ Reading(r, "GetPodMetrics")
    /\ reader[r].pod = "none"
    /\ \E p \in reader[r].todo :
        /\ ~(Found(pods.last[p]) /\ Found(pods.prev[p]))
        /\ Advance(r, [reader[r] EXCEPT !.todo = @ \ {p}])

StartPod(r) ==
    /\ Reading(r, "GetPodMetrics")
    /\ reader[r].pod = "none"
    /\ \E p \in reader[r].todo :
        /\ Found(pods.last[p]) /\ Found(pods.prev[p])
        /\ Advance(r, [reader[r] EXCEPT
                !.pod = p,
                !.todo = @ \ {p},
                !.left = {c \in Containers : pods.last[p][c] # NoPoint},
                !.cms = NothingServed,
                !.ti = NoTime])

(* The loop over the containers of the last point, in any order.  It ends   *)
(* at one without a previous point, skips one whose usage is an error, and  *)
(* otherwise takes its usage and, if earlier, its time.                     *)
InLoop(r) ==
    /\ Reading(r, "GetPodMetrics")
    /\ reader[r].pod # "none"

(* Mutant: the latest time is taken. *)
LaterTime(ti, u) ==
    IF ti.Timestamp = ZeroTime \/ ti.Timestamp < u.Timestamp
    THEN [Timestamp |-> u.Timestamp, Window |-> u.Window]
    ELSE ti

EarlierTime(ti, u) ==
    IF ti.Timestamp = ZeroTime \/ ti.Timestamp > u.Timestamp
    THEN [Timestamp |-> u.Timestamp, Window |-> u.Window]
    ELSE ti

(* Mutant: the loop does not end there but looks again. *)
ContainerMissingAgain(r) ==
    /\ InLoop(r)
    /\ \E c \in reader[r].left : pods.prev[reader[r].pod][c] = NoPoint
    /\ Advance(r, reader[r])

ContainerMissing(r) ==
    /\ InLoop(r)
    /\ \E c \in reader[r].left : pods.prev[reader[r].pod][c] = NoPoint
    /\ Advance(r, [reader[r] EXCEPT !.pod = "none"])

SkipContainer(r) ==
    /\ InLoop(r)
    /\ \E c \in reader[r].left :
        /\ pods.prev[reader[r].pod][c] # NoPoint
        /\ UsageError(pods.last[reader[r].pod][c], pods.prev[reader[r].pod][c])
        /\ Advance(r, [reader[r] EXCEPT !.left = @ \ {c}])

AddContainer(r) ==
    /\ InLoop(r)
    /\ \E c \in reader[r].left :
        LET last == pods.last[reader[r].pod][c]
            prev == pods.prev[reader[r].pod][c]
        IN  /\ prev # NoPoint
            /\ ~UsageError(last, prev)
            /\ Advance(r, [reader[r] EXCEPT
                    !.left = @ \ {c},
                    !.cms = [@ EXCEPT ![c] = resourceUsage(last, prev)],
                    !.ti = EarlierTime(@, resourceUsage(last, prev))])

FinishPod(r) ==
    /\ InLoop(r)
    /\ reader[r].left = {}
    /\ Advance(r, [reader[r] EXCEPT
            !.pods = [@ EXCEPT ![reader[r].pod] = [Timestamp  |-> reader[r].ti.Timestamp,
                                                   Window     |-> reader[r].ti.Window,
                                                   Containers |-> reader[r].cms]],
            !.pod = "none"])

(* Mutant: the call returns after any lookup. *)
RUnlockEarly(r) ==
    /\ reader[r].stage = "reading"
    /\ reader[r].pod = "none"
    /\ Advance(r, [reader[r] EXCEPT !.stage = "return"])

(* The deferred RUnlock; the call returns. *)
RUnlock(r) ==
    /\ reader[r].stage = "reading"
    /\ reader[r].todo = {}
    /\ reader[r].pod = "none"
    /\ Advance(r, [reader[r] EXCEPT !.stage = "return"])

Done(r) ==
    /\ reader[r].stage = "return"
    /\ Advance(r, NoCall)

-----------------------------------------------------------------------------
StoreStep == Lock \/ StoreNodes \/ StorePods

ReadStep(r) ==
    \/ ReadNodesPrev(r) \/ ReadPodsPrev(r)
    \/ ReadNode(r)
    \/ SkipPod(r) \/ StartPod(r)
    \/ ContainerMissing(r) \/ SkipContainer(r) \/ AddContainer(r) \/ FinishPod(r)
    \/ RUnlock(r)

Next ==
    \/ \E b \in Batches : StoreCall(b)
    \/ StoreStep
    \/ \E r \in Readers :
        \/ Ready(r)
        \/ \E names \in SUBSET Nodes : GetNodeMetrics(r, names)
        \/ \E names \in SUBSET Pods : GetPodMetrics(r, names)
        \/ ReadStep(r)
        \/ Done(r)

(* A goroutine that can run is eventually run by Go's scheduler.  Nothing   *)
(* obliges a caller to call.                                                *)
Fairness == WF_vars(StoreStep) /\ \A r \in Readers : WF_vars(ReadStep(r))

Spec == Init /\ [][Next]_vars /\ Fairness

-----------------------------------------------------------------------------
(* The storage's maps as a caller can observe them: a Store takes effect    *)
(* when it replaces the nodes, and its second half is already accounted for *)
(* while the lock hides that it is missing.  A query is answered when it    *)
(* returns.                                                                 *)
podsSeen == IF storePc = "pods" THEN podStore(pods, batch.Pods) ELSE pods

gaugeSeen ==
    [pointsStored EXCEPT !.container =
        IF storePc = "pods" THEN ContainerPoints(podsSeen) ELSE pointsStored.container]

ReplyOf(rd) ==
    IF rd.stage = "return" THEN AnswerTo(rd.op, rd.names, rd.ready, rd.nodes, rd.pods)
    ELSE AnswerTo("none", {}, FALSE, NoNodeAnswer, NoPodAnswer)

replySeen == [r \in Readers |-> ReplyOf(reader[r])]

Atomic == INSTANCE AtomicStorage
            WITH pods <- podsSeen, pointsStored <- gaugeSeen, reply <- replySeen

(* The storage behaves like one whose Store and queries are single steps:   *)
(* no answer mixes the points of two scrapes, and the loop of GetMetrics    *)
(* computes the declared result in whatever order Go walks the map          *)
(* (storage.go:42-65, pod.go:66-85).                                        *)
Linearizable == Atomic!Spec

Stages == {"idle", "blocked", "reading", "return"}

ReaderState ==
    [stage : Stages,
     op    : {"none", "Ready", "GetNodeMetrics", "GetPodMetrics"},
     names : SUBSET (Nodes \cup Pods),
     todo  : SUBSET (Nodes \cup Pods \cup {"nodes.prev", "pods.prev"}),
     pod   : Pods \cup {"none"},
     left  : SUBSET Containers,
     cms   : [Containers -> Usage \cup {NotServed}],
     ti    : [Timestamp : Time, Window : Int],
     ready : BOOLEAN,
     nodes : [Nodes -> Usage \cup {NotServed}],
     pods  : [Pods -> PodMetrics \cup {NotServed}]]

(* The types of the maps, of Store's call and of each reader's call. *)
TypeOK ==
    /\ nodes \in NodeStorage
    /\ pods \in PodStorage
    /\ pointsStored \in [node : Nat, container : Nat]
    /\ storePc \in {"idle", "locking", "nodes", "pods"}
    /\ batch \in MetricsBatch
    /\ storePc # "idle" => batch \in Batches
    /\ reader \in [Readers -> ReaderState]

(* No reader is inside the maps while Store replaces them (storage.go:60). *)
ExclusiveStore ==
    storePc \in {"nodes", "pods"} => \A r \in Readers : reader[r].stage # "reading"

(* How far a query has come when the maps are ns and ps. *)
Pending(rd) ==
    /\ rd.pod = "none"
    /\ ~rd.ready
    /\ rd.nodes = NoNodeAnswer
    /\ rd.pods = NoPodAnswer
    /\ \/ rd.op = "Ready" /\ rd.names = {} /\ rd.todo = {"nodes.prev"}
       \/ rd.op = "GetNodeMetrics" /\ rd.names \subseteq Nodes /\ rd.todo = rd.names
       \/ rd.op = "GetPodMetrics" /\ rd.names \subseteq Pods /\ rd.todo = rd.names

ReadyProgress(rd, ns, ps) ==
    /\ rd.names = {}
    /\ rd.pod = "none"
    /\ rd.nodes = NoNodeAnswer
    /\ rd.pods = NoPodAnswer
    /\ \/ rd.todo = {"nodes.prev"} /\ ~rd.ready
       \/ rd.todo = {"pods.prev"} /\ ~rd.ready /\ ~HasPrevNode(ns)
       \/ rd.todo = {} /\ rd.ready = (HasPrevNode(ns) \/ HasPrevPod(ps))

NodeProgress(rd, ns) ==
    /\ rd.names \subseteq Nodes
    /\ rd.todo \subseteq rd.names
    /\ rd.pod = "none"
    /\ ~rd.ready
    /\ rd.nodes = NodeAnswer(ns, rd.names \ rd.todo)
    /\ rd.pods = NoPodAnswer

(* The containers of p that the loop has visited and shows. *)
Shown(ps, p, left) ==
    {c \in Containers \ left :
        ps.last[p][c] # NoPoint /\ ~UsageError(ps.last[p][c], ps.prev[p][c])}

(* The loop over the containers of p: what it has visited is present, and   *)
(* cms and ti are the answer so far.                                        *)
LoopProgress(ps, p, left, cms, ti) ==
    /\ Found(ps.last[p]) /\ Found(ps.prev[p])
    /\ \A c \in left : ps.last[p][c] # NoPoint
    /\ \A c \in Containers \ left : ps.last[p][c] # NoPoint => ps.prev[p][c] # NoPoint
    /\ cms = [c \in Containers |-> IF c \in Shown(ps, p, left)
                                   THEN resourceUsage(ps.last[p][c], ps.prev[p][c])
                                   ELSE NotServed]
    /\ IF Shown(ps, p, left) = {} THEN ti = NoTime
       ELSE \E c \in Shown(ps, p, left) :
                /\ \A d \in Shown(ps, p, left) :
                    ps.last[p][c].Timestamp <= ps.last[p][d].Timestamp
                /\ ti = [Timestamp |-> ps.last[p][c].Timestamp,
                         Window    |-> Sub(ps.last[p][c].Timestamp, ps.prev[p][c].Timestamp)]

PodProgress(rd, ps) ==
    /\ rd.names \subseteq Pods
    /\ rd.todo \subseteq rd.names
    /\ ~rd.ready
    /\ rd.nodes = NoNodeAnswer
    /\ \A p \in Pods :
        IF p \in rd.names \ (rd.todo \cup {rd.pod}) THEN rd.pods[p] \in PodResults(ps, p)
        ELSE rd.pods[p] = NotServed
    /\ rd.pod # "none" =>
        /\ rd.pod \in rd.names \ rd.todo
        /\ LoopProgress(ps, rd.pod, rd.left, rd.cms, rd.ti)

ReaderGood(rd, ns, ps, pc) ==
    /\ rd.stage = "idle" => rd = NoCall
    /\ rd.stage = "blocked" => pc # "idle" /\ Pending(rd)
    /\ rd.stage = "reading" =>
        \/ rd.op = "Ready" /\ ReadyProgress(rd, ns, ps)
        \/ rd.op = "GetNodeMetrics" /\ NodeProgress(rd, ns)
        \/ rd.op = "GetPodMetrics" /\ PodProgress(rd, ps)
    /\ rd.stage = "return" => rd.op # "none"

(* A reader's partial answer is the answer of the maps as they are now for  *)
(* the names it has dealt with, however Store and other queries interleave: *)
(* the maps do not change under it (storage.go:42-58).                      *)
ReadersSeeOneStore == \A r \in Readers : ReaderGood(reader[r], nodes, pods, storePc)

(* A Store that was called returns, however many queries keep arriving. *)
StoreReturns == (storePc = "locking") ~> (storePc = "idle")

(* A query that was called returns, however often Store is called. *)
QueryReturns ==
    \A r \in Readers :
        (reader[r].stage \in {"blocked", "reading"}) ~> (reader[r].stage = "return")
=============================================================================
