-------------------------- MODULE MCKubeletStorage --------------------------
(* Containers are interchangeable. *)
EXTENDS KubeletStorage, TLC

ContainerSymmetry == Permutations(Containers)
=============================================================================
