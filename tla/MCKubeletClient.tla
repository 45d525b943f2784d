--------------------------- MODULE MCKubeletClient --------------------------
(* Nodes whose addresses are reported in another order than the preferred    *)
(* one, with two of one type, with none that is known, and without a port.   *)
EXTENDS KubeletClient

Reported(type, address) == [Type |-> type, Address |-> address]

MCNodeStatuses ==
    {[Addresses |-> <<Reported("ExternalIP", 1), Reported("InternalIP", 2), Reported("InternalIP", 3)>>,
      Port |-> 2],
     [Addresses |-> <<Reported("ExternalDNS", 4), Reported("ExternalIP", 5)>>, Port |-> 0],
     [Addresses |-> <<Reported("ExternalDNS", 6)>>, Port |-> 2]}

MCPriority == <<"Hostname", "InternalIP", "ExternalIP">>
=============================================================================
