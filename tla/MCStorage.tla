----------------------------- MODULE MCStorage ------------------------------
(* Two nodes and a pod of two containers; the batches differ in every point *)
(* so that an answer mixing two of them shows.                              *)
EXTENDS Storage

Point(start, ts, cpu) ==
    [StartTime |-> start, Timestamp |-> ts, CumulativeCpuUsed |-> cpu, MemoryUsage |-> 1]

Batch(node, c1, c2) ==
    [Nodes |-> [n \in Nodes |-> node],
     Pods  |-> [p \in Pods |-> [c \in Containers |-> IF c = "c1" THEN c1 ELSE c2]]]

MCBatches ==
    {Batch(Point(0, 12, 1), Point(11, 12, 1), Point(11, 12, 1)),
     Batch(Point(0, 13, 2), Point(11, 13, 2), Point(11, 14, 3)),
     Batch(Point(0, 14, 3), Point(11, 14, 4), Point(11, 14, 0))}
=============================================================================
