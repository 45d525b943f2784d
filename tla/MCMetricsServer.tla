--------------------------- MODULE MCMetricsServer ---------------------------
(***************************************************************************)
(* Two interchangeable nodes.                                              *)
(***************************************************************************)
EXTENDS MetricsServer, TLC

Symmetry == Permutations(Nodes)
=============================================================================
