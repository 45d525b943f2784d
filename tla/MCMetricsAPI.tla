---------------------------- MODULE MCMetricsAPI ----------------------------
(* The objects of the model of MetricsAPI, and selectors of one and of two   *)
(* terms, for a value and for another one.                                   *)
EXTENDS MetricsAPI

MCNodes == {<<0, 1>>}
MCPods == {<<1, 2>>, <<2, 1>>}

Term(field, equal, value) == [field |-> field, equal |-> equal, value |-> value]

MCFieldSelectors == {{}, {Term(2, FALSE, 1)}, {Term(1, TRUE, 2), Term(2, TRUE, 1)}}
=============================================================================
