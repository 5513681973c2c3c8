------------------------------ MODULE MCExpiry ------------------------------
(***************************************************************************)
(* One server from its order past its expiry, a request or two about it,   *)
(* and the nights in between.                                              *)
(***************************************************************************)
EXTENDS Expiry

MCVmidOf == [s \in Servers |-> 100]
MCVmIds == {100}

\* What the worker can undo or be confused by: the days, and a saved status.
MCKinds == {"extend", "start"}
MCExtend == {"extend"}

==============================================================================
