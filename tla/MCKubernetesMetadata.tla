----------------------- MODULE MCKubernetesMetadata -----------------------
(***************************************************************************)
(* A small instance of KubernetesMetadata: a pod with the port of its      *)
(* service and another one, and a pod of the host network.                 *)
(***************************************************************************)
EXTENDS KubernetesMetadata, TLC

CONSTANTS web, hostA, svc, ip1, ip2

MCNameOf == [q \in {web, hostA} |-> q]

MCIpOf == web :> ip1 @@ hostA :> ip2

MCTcpPorts == web :> {80, 81} @@ hostA :> {80}

MCServicePort == svc :> 80
=============================================================================
