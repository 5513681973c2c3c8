----------------------------- MODULE ServerStore -----------------------------
(***************************************************************************)
(* The state every request handler shares: the servers table, the catalog  *)
(* of Proxmox hosts, and the virtual machines that exist on those hosts.   *)
(* The hypervisor is not part of src/; it is modelled from the requests    *)
(* infrastructure/clients/proxmox.py sends it and the answers it expects.  *)
(***************************************************************************)
EXTENDS Integers, FiniteSets

CONSTANTS
    Servers,    \* server ids (uuid4), one per provisioning request
    Hosts,      \* ids of Proxmox hosts
    VmIds,      \* numeric VM identifiers
    VmidOf,     \* _generate_vmid: derived from the server id, may collide
    PlanCpu,    \* vcpu and memory of the plan, which always travel together
    PlanDisk,   \* disk_gb of the plan
    PlanDays,   \* default_expire_days of the plan, 0 for NULL
    None        \* Python's None, SQL's NULL

VARIABLES
    db,         \* the servers table: the row of each server, None before its INSERT
    hosts,      \* the host ids present in the proxmox_hosts table
    vms         \* the VM in each slot of each host, None where there is none

storeVars == <<db, hosts, vms>>

Statuses == {"pending", "provisioning", "active", "stopped", "failed", "rolled_back"}

\* What the status endpoint reports, one value per class of words that
\* _map_proxmox_status tells apart; "other" is a word it does not know.
RunStates == {"running", "stopped", "paused", "starting", "error", "other"}

\* The columns the handlers read or write. 0 days is a NULL expire_in_days.
Row == [host: Hosts, status: Statuses, ext: VmIds \cup {None},
        days: Nat, cpu: Nat, disk: Nat]

\* A VM is named vm-<server id>: its owner is the server it was created for.
\* Sizes are 0 while a clone still has those of its template; pw counts the
\* passwords pushed to it, 0 being the one of the template.
VM == [owner: Servers, run: RunStates, cpu: Nat, disk: Nat, pw: Nat]

Slots == Hosts \X VmIds

ASSUME VmidAssumption == VmidOf \in [Servers -> VmIds]
ASSUME PlanAssumption == /\ PlanCpu \in Nat \ {0}
                         /\ PlanDisk \in Nat \ {0}
                         /\ PlanDays \in Nat
ASSUME NoneAssumption == /\ None \notin VmIds
                         /\ None \notin Row
                         /\ None \notin VM
                         /\ None \notin Statuses

StoreTypeOK ==
    /\ db \in [Servers -> Row \cup {None}]
    /\ hosts \in SUBSET Hosts
    /\ vms \in [Slots -> VM \cup {None}]

StoreInit ==
    /\ db = [s \in Servers |-> None]
    /\ hosts = Hosts
    /\ vms = [x \in Slots |-> None]

(***************************************************************************)
(* The table                                                               *)
(***************************************************************************)

\* The entity a provisioning request builds for a host it resolved.
NewServer(h) == [host |-> h, status |-> "pending", ext |-> None,
                 days |-> PlanDays, cpu |-> PlanCpu, disk |-> PlanDisk]

\* server.status = ..., server.external_id = ...
WithStatus(entity, status) == [entity EXCEPT !.status = status]
WithExt(entity, ext) == [entity EXCEPT !.ext = ext]

\* _apply_server assigns every column, but the ORM emits an UPDATE of those
\* only whose value differs from the row the session loaded.
Column(current, loaded, assigned) == IF assigned = loaded THEN current ELSE assigned

Flush(current, loaded, entity) ==
    [host   |-> Column(current.host, loaded.host, entity.host),
     status |-> Column(current.status, loaded.status, entity.status),
     ext    |-> Column(current.ext, loaded.ext, entity.ext),
     days   |-> Column(current.days, loaded.days, entity.days),
     cpu    |-> Column(current.cpu, loaded.cpu, entity.cpu),
     disk   |-> Column(current.disk, loaded.disk, entity.disk)]

(***************************************************************************)
(* Reading the hypervisor                                                  *)
(***************************************************************************)

\* _map_proxmox_status; None when the word is unknown.
MapProxmoxStatus(run) ==
    CASE run = "running" -> "active"
      [] run \in {"stopped", "paused"} -> "stopped"
      [] run = "starting" -> "provisioning"
      [] run = "error" -> "failed"
      [] OTHER -> None

WithRun(vm, run) == [vm EXCEPT !.run = run]
WithPw(vm, pw) == [vm EXCEPT !.pw = pw]
WithSizes(vm, cpu, disk) == [vm EXCEPT !.cpu = cpu, !.disk = disk]

SlotOf(s, h) == <<h, VmidOf[s]>>

\* Some VM was created for s and still exists.
HasVm(s) == \E x \in Slots : vms[x] # None /\ vms[x].owner = s

\* The VM of s is where the host and the external_id of r say it is.
NamesOwnVm(r, s) ==
    /\ r.ext # None
    /\ vms[<<r.host, r.ext>>] # None
    /\ vms[<<r.host, r.ext>>].owner = s

(***************************************************************************)
(* What others do to the shared state                                      *)
(***************************************************************************)

\* An admin registers a host (or a restart seeds the default one again).
AddHost(h) ==
    /\ h \notin hosts
    /\ hosts' = hosts \cup {h}
    /\ UNCHANGED <<db, vms>>

\* An admin deletes a host; nothing checks that no server refers to it.
DeleteHost(h) ==
    /\ h \in hosts
    /\ hosts' = hosts \ {h}
    /\ UNCHANGED <<db, vms>>

\* A VM changes state on its own: its guest powers off, an operator pauses it.
Drift(x, run) ==
    /\ vms[x] # None
    /\ vms[x].run # run
    /\ vms' = [vms EXCEPT ![x] = WithRun(@, run)]
    /\ UNCHANGED <<db, hosts>>

==============================================================================
