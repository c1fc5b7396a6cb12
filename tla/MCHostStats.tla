---------------------------- MODULE MCHostStats ----------------------------
(***************************************************************************)
(* Small instances of HostStats: one interface with a history at the start *)
(* of the agent, and a virtual device that shares its MAC address.         *)
(***************************************************************************)
EXTENDS HostStats

CONSTANTS eth0, eth1, veth, eni0, eni1

MCNames == {eth0, eth1, veth}

MCIsVirtual == [n \in MCNames |-> n = veth]

MCBoot == eth0 :> [eni |-> eni0, count |-> 2]
=============================================================================
