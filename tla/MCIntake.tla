------------------------------ MODULE MCIntake ------------------------------
(***************************************************************************)
(* A default plan, the default host and one of the admin's, on new tables  *)
(* or used ones, with two customers and an admin.                          *)
(***************************************************************************)
EXTENDS Intake, TLC

CONSTANTS basic, default, pve

MCPlans == {basic}
MCHosts == {default, pve}
MCNobody == {}
MCSpecs == {"built in", "new"}

\* Plans that run on the admin's host, one of them as the built-in one but for
\* that; hosts with a node.
MCOffers ==
    [k \in Keys |-> IF k \in Plans
                    THEN [spec: Specs, host: {pve}]
                    ELSE {[spec |-> "new", host |-> None]}]

MCSymmetry == Permutations(Requests) \cup Permutations(Accounts)

==============================================================================
