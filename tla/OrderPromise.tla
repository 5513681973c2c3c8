---------------------------- MODULE OrderPromise ----------------------------
(***************************************************************************)
(* What provisioning promises a customer, without its steps: how an order  *)
(* is listed, whether a machine exists for it, and the answer it got.      *)
(***************************************************************************)
EXTENDS FiniteSets

CONSTANT Orders

VARIABLES
    listed,     \* how the server appears in the customer's list
    machines,   \* the orders a machine exists for
    reply       \* the answer to the order: "due" once the order is complete and
                \* success about to be answered, "lost" when none will come

vars == <<listed, machines, reply>>

Init ==
    /\ listed = [o \in Orders |-> "absent"]
    /\ machines = {}
    /\ reply = [o \in Orders |-> "none"]

Place(o) ==
    /\ listed[o] = "absent" /\ reply[o] = "none"
    /\ listed' = [listed EXCEPT ![o] = "waiting"]
    /\ UNCHANGED <<machines, reply>>

\* Nobody has told the customer, or is about to, that the machine is there.
Open(o) == listed[o] \in {"waiting", "failed"} /\ reply[o] \notin {"due", "accepted"}

\* Machines are built for listed orders only, perhaps after they were given up.
Build(o) ==
    /\ Open(o)
    /\ machines' = machines \cup {o}
    /\ UNCHANGED <<listed, reply>>

\* The machine of a live order is never removed, answered or not, nor that of
\* one whose success is due or was answered.
Remove(o) ==
    /\ Open(o)
    /\ machines' = machines \ {o}
    /\ UNCHANGED <<listed, reply>>

\* An order is complete only with a machine that exists; the hypervisor may
\* report that machine to be in error.
Complete(o) ==
    /\ listed[o] = "waiting" /\ o \in machines /\ reply[o] = "none"
    /\ \E l \in {"live", "failed"} : listed' = [listed EXCEPT ![o] = l]
    /\ reply' = [reply EXCEPT ![o] = "due"]
    /\ UNCHANGED machines

\* Success is answered only for an order that was completed.
Accept(o) ==
    /\ reply[o] = "due"
    /\ reply' = [reply EXCEPT ![o] = "accepted"]
    /\ UNCHANGED <<listed, machines>>

GiveUp(o) ==
    /\ listed[o] = "waiting" /\ reply[o] = "none"
    /\ listed' = [listed EXCEPT ![o] = "failed"]
    /\ UNCHANGED <<machines, reply>>

Refuse(o) ==
    /\ listed[o] # "live" /\ reply[o] = "none"
    /\ reply' = [reply EXCEPT ![o] = "refused"]
    /\ UNCHANGED <<listed, machines>>

\* A crash loses the answers of many orders at once, those already due included:
\* the customer finds a live server in the list that nobody told of.
Lose(lost) ==
    /\ \A o \in lost : reply[o] \in {"none", "due"}
    /\ reply' = [o \in Orders |-> IF o \in lost THEN "lost" ELSE reply[o]]
    /\ UNCHANGED <<listed, machines>>

Next ==
    \/ \E o \in Orders :
          \/ Place(o) \/ Build(o) \/ Remove(o)
          \/ Complete(o) \/ Accept(o) \/ GiveUp(o) \/ Refuse(o)
    \/ \E lost \in SUBSET Orders : Lose(lost)

Spec == Init /\ [][Next]_vars

==============================================================================
