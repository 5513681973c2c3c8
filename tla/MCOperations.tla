---------------------------- MODULE MCOperations ----------------------------
(***************************************************************************)
(* One server from its order on, and a few requests about it, at once or   *)
(* one after the other.                                                    *)
(***************************************************************************)
EXTENDS Operations, TLC

MCVmidOf == [s \in Servers |-> 100]
MCVmIds == {100}

\* One command of each kind of effect and saved status.
MCPower == {"start", "stop", "suspend"}
MCAllKinds == AllKinds
MCKinds == MCPower \cup {"extend", "refresh", "upgrade", "password"}

MCSerialKinds == {"stop", "extend", "refresh", "upgrade"}

\* Requests that did not come yet are interchangeable.
MCSymmetry == Permutations(Ops)

==============================================================================
