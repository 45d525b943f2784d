------------------------------- MODULE Decode -------------------------------
(***************************************************************************)
(* decodeBatch (pkg/scraper/client/resource/decode.go): the series of a    *)
(* kubelet's answer are applied one by one, in the order they come, to the *)
(* points of the node and of the containers they name, and incomplete      *)
(* points are dropped at the end.                                          *)
(*                                                                         *)
(* Series come in any order, repeated or missing; the text they are parsed *)
(* from is left out.  A value is what the conversion to the point's unit   *)
(* makes of it, so that 0 is also a value too small for the unit.          *)
(***************************************************************************)
EXTENDS StorageData

CONSTANTS
    Values,       \* of the counters and memory sizes reported
    Stamps,       \* times: explicit timestamps and start times
    DefaultTime,  \* when the request was sent, for series without timestamp
    Unreported    \* no such series yet

ASSUME DecodeAssumption ==
    /\ Values \subseteq UInt64
    /\ Stamps \cup {DefaultTime} \subseteq Time \ {ZeroTime}
    /\ Unreported \notin Nat

VARIABLES
    parser,        \* "parse", "done" or "failed"
    nodePoint,     \* the node's point, node in the source
    points,        \* the containers' points, pods in the source
    res,           \* the batch returned
    nodeReported,  \* history: the latest series of each kind, for the node
    reported       \* and for each container

decodeVars == <<parser, nodePoint, points, res, nodeReported, reported>>

NoSeries == [cpu |-> Unreported, mem |-> Unreported, start |-> Unreported, cpuTime |-> Unreported]

EmptyBatch == [node |-> NoPoint, pods |-> NoPods]

DecodeInit ==
    /\ parser = "parse"
    /\ nodePoint = ZeroPoint
    /\ points = NoPods
    /\ res = EmptyBatch
    /\ nodeReported = NoSeries
    /\ reported = [p \in Pods |-> [c \in Containers |-> NoSeries]]

-----------------------------------------------------------------------------
(* A series has a timestamp or gets the default one. *)
SeriesTimes == Stamps \cup {DefaultTime}

(* Mutant: a new point is made instead of changing the one there is. *)
WithCpuAnew(point, value, time) ==
    [ZeroPoint EXCEPT !.CumulativeCpuUsed = value, !.Timestamp = time]

WithCpu(point, value, time) == [point EXCEPT !.CumulativeCpuUsed = value, !.Timestamp = time]

WithMem(point, value, time) == [point EXCEPT !.MemoryUsage = value, !.Timestamp = time]

(* The timestamp of a start time series is not used. *)
WithStart(point, time) == [point EXCEPT !.StartTime = time]

parseNodeCpuUsageMetrics(value, time) ==
    /\ parser = "parse"
    /\ nodePoint' = WithCpu(nodePoint, value, time)
    /\ nodeReported' = [nodeReported EXCEPT !.cpu = value, !.cpuTime = time]
    /\ UNCHANGED <<parser, points, res, reported>>

parseNodeMemUsageMetrics(value, time) ==
    /\ parser = "parse"
    /\ nodePoint' = WithMem(nodePoint, value, time)
    /\ nodeReported' = [nodeReported EXCEPT !.mem = value]
    /\ UNCHANGED <<parser, points, res, reported>>

(* The point of a container, made when a series first names it. *)
PointOf(p, c) == IF points[p][c] = NoPoint THEN ZeroPoint ELSE points[p][c]

parseContainerCpuMetrics(p, c, value, time) ==
    /\ parser = "parse"
    /\ points' = [points EXCEPT ![p][c] = WithCpu(PointOf(p, c), value, time)]
    /\ reported' = [reported EXCEPT ![p][c] = [@ EXCEPT !.cpu = value, !.cpuTime = time]]
    /\ UNCHANGED <<parser, nodePoint, res, nodeReported>>

parseContainerMemMetrics(p, c, value, time) ==
    /\ parser = "parse"
    /\ points' = [points EXCEPT ![p][c] = WithMem(PointOf(p, c), value, time)]
    /\ reported' = [reported EXCEPT ![p][c] = [@ EXCEPT !.mem = value]]
    /\ UNCHANGED <<parser, nodePoint, res, nodeReported>>

parseContainerStartTimeMetrics(p, c, time) ==
    /\ parser = "parse"
    /\ points' = [points EXCEPT ![p][c] = WithStart(PointOf(p, c), time)]
    /\ reported' = [reported EXCEPT ![p][c] = [@ EXCEPT !.start = time]]
    /\ UNCHANGED <<parser, nodePoint, res, nodeReported>>

(* The parser meets a line it cannot read; the whole answer is lost. *)
ParseFails ==
    /\ parser = "parse"
    /\ parser' = "failed"
    /\ UNCHANGED <<nodePoint, points, res, nodeReported, reported>>

-----------------------------------------------------------------------------
CompleteNode(point) ==
    point.Timestamp # ZeroTime /\ point.CumulativeCpuUsed # 0 /\ point.MemoryUsage # 0

(* Mutant: an incomplete container is left out, the rest of its pod kept. *)
checkContainerMetricsEach(pod) ==
    [c \in Containers |->
        IF pod[c] # NoPoint /\ (pod[c].CumulativeCpuUsed = 0 \/ pod[c].MemoryUsage = 0)
        THEN NoPoint ELSE pod[c]]

(* One incomplete container drops its pod. *)
checkContainerMetrics(pod) ==
    IF \E c \in Containers :
        /\ pod[c] \notin {NoPoint, ZeroPoint}
        /\ pod[c].CumulativeCpuUsed = 0 \/ pod[c].MemoryUsage = 0
    THEN NoContainers
    ELSE [c \in Containers |-> IF pod[c] = ZeroPoint THEN NoPoint ELSE pod[c]]

(* EOF: the complete points make the batch. *)
decodeBatch ==
    /\ parser = "parse"
    /\ parser' = "done"
    /\ res' = [node |-> IF CompleteNode(nodePoint) THEN nodePoint ELSE NoPoint,
               pods |-> [p \in Pods |-> checkContainerMetrics(points[p])]]
    /\ UNCHANGED <<nodePoint, points, nodeReported, reported>>

DecodeNext ==
    \/ \E value \in Values, time \in SeriesTimes :
        \/ parseNodeCpuUsageMetrics(value, time)
        \/ parseNodeMemUsageMetrics(value, time)
        \/ \E p \in Pods, c \in Containers :
            \/ parseContainerCpuMetrics(p, c, value, time)
            \/ parseContainerMemMetrics(p, c, value, time)
    \/ \E p \in Pods, c \in Containers, time \in Stamps :
        parseContainerStartTimeMetrics(p, c, time)
    \/ ParseFails
    \/ decodeBatch

DecodeSpec == DecodeInit /\ [][DecodeNext]_decodeVars

-----------------------------------------------------------------------------
(* A point says what the latest series of each kind said. *)
Says(point, series) ==
    /\ point.CumulativeCpuUsed = series.cpu
    /\ point.MemoryUsage = series.mem
    /\ point.StartTime = IF series.start = Unreported THEN ZeroTime ELSE series.start
    /\ point.Timestamp # ZeroTime

(* In whatever order the series came, every point of the batch carries the  *)
(* latest value of each of its series and a time, although no code checks a *)
(* container's timestamp (decode.go:95, 193), and nothing is returned when  *)
(* parsing failed.                                                          *)
EverySeriesCounts ==
    /\ res.node # NoPoint => Says(res.node, nodeReported)
    /\ \A p \in Pods, c \in Containers :
        res.pods[p][c] # NoPoint => Says(res.pods[p][c], reported[p][c])
    /\ parser # "done" => res = EmptyBatch

Named(p, c) == reported[p][c] # NoSeries

CompleteContainer(p, c) ==
    reported[p][c].cpu \notin {0, Unreported} /\ reported[p][c].mem \notin {0, Unreported}

(* A pod is returned with all the containers any series named, and exactly  *)
(* when each of them reported CPU and memory: a pod's usage is never the    *)
(* sum of some of its containers (decode.go:188-202).                       *)
PodIsWholeOrAbsent ==
    parser = "done" =>
        \A p \in Pods :
            LET named == {c \in Containers : Named(p, c)}
                returned == {c \in Containers : res.pods[p][c] # NoPoint}
            IN  returned = IF \A c \in named : CompleteContainer(p, c) THEN named ELSE {}

(* "If CPU and Memory was measured at different time it should equal CPU    *)
(* time to allow accurate CPU calculation" (types.go:45).                   *)
TimestampIsCpuTime ==
    /\ res.node # NoPoint => res.node.Timestamp = nodeReported.cpuTime
    /\ \A p \in Pods, c \in Containers :
        res.pods[p][c] # NoPoint => res.pods[p][c].Timestamp = reported[p][c].cpuTime
=============================================================================
