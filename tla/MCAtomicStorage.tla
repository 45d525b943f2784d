-------------------------- MODULE MCAtomicStorage ---------------------------
(* One node and one pod of two containers, with points chosen so that every *)
(* branch of the two Store functions is taken: times 11 to 14 lie more than *)
(* MaxDuration after the zero time, and a container is fresh at age 2.      *)
EXTENDS AtomicStorage

(* The largest int64, the next value and the largest uint64. *)
MemoryAt == <<12, 13, 25>>

Point(start, ts, cpu) ==
    [StartTime |-> start, Timestamp |-> ts, CumulativeCpuUsed |-> cpu,
     MemoryUsage |-> MemoryAt[ts - 11]]

NodePointsOffered == {Point(0, 12, 1), Point(0, 13, 25), Point(0, 14, 2)}

ContainerPointsOffered ==
    {Point(11, 12, 1),  \* younger than FreshMin
     Point(11, 13, 2),  \* fresh
     Point(11, 14, 4),  \* neither
     Point(13, 14, 1),  \* restarted, younger than FreshMin
     Point(0, 14, 3),   \* no start time reported
     Point(14, 13, 1)}  \* start time after the measurement

SidecarPointsOffered == {Point(11, 12, 2), Point(11, 14, 1), Point(12, 13, 1)}

MCBatches ==
    {[Nodes |-> [n \in Nodes |-> np],
      Pods  |-> [p \in Pods |-> [c \in Containers |-> IF c = "c1" THEN c1 ELSE c2]]] :
        np \in NodePointsOffered \cup {NoPoint},
        c1 \in ContainerPointsOffered \cup {NoPoint},
        c2 \in SidecarPointsOffered \cup {NoPoint}}
=============================================================================
