--------------------------- MODULE MCProvisioning ---------------------------
(***************************************************************************)
(* Two provisioning requests whose ids derive the same VM identifier, on   *)
(* one or two hosts.                                                       *)
(***************************************************************************)
EXTENDS Provisioning, TLC

\* Both ids agree modulo 2,000,000,000.
MCVmidOf == [s \in Servers |-> 100]
MCVmIds == {100}

\* Requests are interchangeable: their ids derive the same identifier.
MCSymmetry == Permutations(Servers) \cup Permutations(Hosts)

==============================================================================
