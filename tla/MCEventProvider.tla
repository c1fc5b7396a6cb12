-------------------------- MODULE MCEventProvider --------------------------
(***************************************************************************)
(* Instances of EventProvider for TLC.                                     *)
(***************************************************************************)
EXTENDS EventProviderInvariant, TLC

\* The NAT resolver is off.
MCNoNat == {[f \in {} |-> NoContext]}

\* The NAT resolver knows nothing, or that one flow is seen as another.
MCOneNat == MCNoNat \cup {[f \in {g} |-> h] : g, h \in Flows}

\* CPUs, sockets and flows are only told apart by name.
MCCpuSymmetry == Permutations(Cpus)
MCFlowSymmetry == Permutations(Flows)
MCSockFlowSymmetry == Permutations(Socks) \cup Permutations(Flows)
=============================================================================
