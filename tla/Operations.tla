----------------------------- MODULE Operations -----------------------------
(***************************************************************************)
(* The requests about a server that exists already: power control, expiry  *)
(* extension, refresh, upgrade and password reset.  Each runs in a worker  *)
(* thread of its own, next to the others and to the provisioning sagas.    *)
(* Each reads the row, talks to Proxmox, and saves every column of the     *)
(* entity it read at the start.                                            *)
(***************************************************************************)
EXTENDS Provisioning

CONSTANTS
    Ops,        \* requests, one handler thread each
    Kinds,      \* the endpoints in use
    AddCpu,     \* what the upgrade bundle adds to vcpu and memory
    AddDisk,    \* what it adds to disk_gb
    MoreDays,   \* additional_days of an extension
    Serial      \* TRUE: customers wait for one answer before the next request

VARIABLES
    op,         \* what each request is, and for which server; None before it comes
    at,         \* the call its handler is about to make, or how it ended
    copy,       \* the Server entity its handler read
    sess,       \* the row its open database session has loaded, None if closed
    billed,     \* how many rows of server_upgrades each server has
    granted     \* the days added by extensions that were saved, answered or not

opVars == <<op, at, copy, sess, billed, granted>>
allVars == <<vars, opVars>>

\* Each power command: the state it asks Proxmox for and the status it saves.
Power == [start    |-> [run |-> "running", status |-> "active"],
          stop     |-> [run |-> "stopped", status |-> "stopped"],
          reboot   |-> [run |-> "running", status |-> "active"],
          reset    |-> [run |-> "running", status |-> "active"],
          shutdown |-> [run |-> "stopped", status |-> "stopped"],
          suspend  |-> [run |-> "paused",  status |-> "stopped"],
          resume   |-> [run |-> "running", status |-> "active"]]

AllKinds == DOMAIN Power \cup {"extend", "refresh", "upgrade", "password"}

Steps == {"power", "read", "check", "push", "resize", "password",
          "save", "record"}

\* At "answer" all is saved and only the response is left to build; "done" was
\* answered with success, "failed" with an error, "lost" not at all.
Answers == {"done", "failed", "lost"}

ASSUME KindsAssumption == Kinds \subseteq AllKinds
ASSUME BundleAssumption == AddCpu \in Nat /\ AddDisk \in Nat
ASSUME DaysAssumption == MoreDays \in Nat \ {0}     \* gt=0 in the schema
ASSUME SerialAssumption == Serial \in BOOLEAN

OpsTypeOK ==
    /\ TypeOK
    /\ op \in [Ops -> [kind: Kinds, srv: Servers] \cup {None}]
    /\ at \in [Ops -> {"idle", "answer"} \cup Steps \cup Answers]
    /\ copy \in [Ops -> Row \cup {None}]
    /\ sess \in [Ops -> Row \cup {None}]
    /\ billed \in [Servers -> Nat]
    /\ granted \in [Servers -> Nat]

OpsInit ==
    /\ Init
    /\ op = [o \in Ops |-> None]
    /\ at = [o \in Ops |-> "idle"]
    /\ copy = [o \in Ops |-> None]
    /\ sess = [o \in Ops |-> None]
    /\ billed = [s \in Servers |-> 0]
    /\ granted = [s \in Servers |-> 0]

\* Handlers with a call still to make, and those and the ones about to answer.
Active == {o \in Ops : at[o] \in Steps}
Busy == {o \in Ops : at[o] \in Steps \cup {"answer"}}

Srv(o) == op[o].srv
Kind(o) == op[o].kind

\* The VM a handler talks to, by the host and the external_id it read.
Slot(o) == <<copy[o].host, copy[o].ext>>
Vm(o) == vms[Slot(o)]

WithDays(entity, days) == [entity EXCEPT !.days = days]
Resized(entity, cpu, disk) == [entity EXCEPT !.cpu = cpu, !.disk = disk]

\* An accepted change of the VM a handler talks to.
SetVm(o, vm) == vms' = [vms EXCEPT ![Slot(o)] = vm]

\* The handler goes on to its next call with this entity, or it answers, or ends.
GoOn(o, step, entity) ==
    /\ at' = [at EXCEPT ![o] = step]
    /\ op' = [op EXCEPT ![o] = IF step \in Answers THEN None ELSE @]
    /\ copy' = [copy EXCEPT ![o] = IF step \in Steps THEN entity ELSE None]

(***************************************************************************)
(* Reading the row, and refusing what cannot be done                       *)
(***************************************************************************)

\* What the customer of a server that is used serially waits for.
Quiet(s) == pc[s] \in Ends /\ \A o \in Busy : Srv(o) # s

Arrives(o, kind, s, step, entity) ==
    /\ at[o] = "idle"
    /\ Serial => Quiet(s)
    /\ op' = [op EXCEPT ![o] = [kind |-> kind, srv |-> s]]
    /\ at' = [at EXCEPT ![o] = step]
    /\ copy' = [copy EXCEPT ![o] = entity]
    /\ UNCHANGED <<vars, sess, billed, granted>>

FirstCall(kind) ==
    CASE kind \in DOMAIN Power -> "power"
      [] kind = "refresh" -> "read"
      [] kind = "upgrade" -> "check"
      [] kind = "password" -> "password"

\* Without an external_id or a registered host nothing is sent or written; a
\* host read after the row is as good as one read with it.
BeginOnVm(o, kind, s) ==
    /\ kind \in Kinds \ {"extend"}
    /\ db[s] # None /\ db[s].ext # None
    /\ db[s].host \in hosts
    /\ Arrives(o, kind, s, FirstCall(kind), db[s])

\* Mutant of BeginExtend: the days replace those the server had.
ExtendFromZero(o, s) ==
    /\ "extend" \in Kinds
    /\ db[s] # None
    /\ Arrives(o, "extend", s, "save", WithDays(db[s], MoreDays))

BeginExtend(o, s) ==
    /\ "extend" \in Kinds
    /\ db[s] # None
    /\ Arrives(o, "extend", s, "save", WithDays(db[s], db[s].days + MoreDays))

(***************************************************************************)
(* Calls to Proxmox                                                        *)
(***************************************************************************)

\* Proxmox accepts a power command and carries it out, now or never.
PowerCall(o) ==
    /\ at[o] = "power"
    /\ Vm(o) # None
    /\ \E run \in {Vm(o).run, Power[Kind(o)].run} : SetVm(o, WithRun(Vm(o), run))
    /\ GoOn(o, "save", WithStatus(copy[o], Power[Kind(o)].status))
    /\ UNCHANGED <<db, hosts, sagaVars, sess, billed, granted>>

\* Mutant of ReadVm: a word the mapping does not know is saved as it comes out.
ReadUnmapped(o, cpuKnown, diskKnown, sameIp) ==
    /\ at[o] = "read"
    /\ Vm(o) # None
    /\ GoOn(o, "save", WithStatus(copy[o], MapProxmoxStatus(Vm(o).run)))
    /\ UNCHANGED <<vars, sess, billed, granted>>

\* refresh: run state and config are two reads; a VM that changes its run state
\* between them has changed it before or after this step.  A word that maps to no
\* status, or a config entry that is missing or no integer, changes nothing, and
\* an entity that differs in nothing, primary_ip included, is not saved.
ReadVm(o, cpuKnown, diskKnown, sameIp) ==
    /\ at[o] = "read"
    /\ Vm(o) # None
    /\ LET mapped == MapProxmoxStatus(Vm(o).run)
           synced == Resized(IF mapped = None THEN copy[o] ELSE WithStatus(copy[o], mapped),
                             IF cpuKnown THEN Vm(o).cpu ELSE copy[o].cpu,
                             IF diskKnown THEN Vm(o).disk ELSE copy[o].disk)
       IN  GoOn(o, IF sameIp /\ synced = copy[o] THEN "answer" ELSE "save", synced)
    /\ UNCHANGED <<vars, sess, billed, granted>>

\* upgrade: the status Proxmox reports, the one in the row if it says nothing
\* known or cannot be reached, must be STOPPED.
MapUpgradeStatus(run) ==
    CASE run = "running" -> "active"
      [] run = "stopped" -> "stopped"
      [] OTHER -> None

CurrentStatus(o, answer) ==
    IF MapUpgradeStatus(answer) = None THEN copy[o].status ELSE MapUpgradeStatus(answer)

CheckStopped(o, answer) ==
    /\ at[o] = "check"
    /\ answer \in StatusAnswers(Slot(o))
    /\ IF CurrentStatus(o, answer) = "stopped"
       THEN GoOn(o, "push", WithStatus(copy[o], "stopped"))
       ELSE GoOn(o, "failed", copy[o])
    /\ UNCHANGED <<vars, sess, billed, granted>>

\* Mutant of Push: the bundle's increments are sent as if they were sizes.
PushIncrements(o) ==
    /\ at[o] = "push"
    /\ Vm(o) # None
    /\ SetVm(o, WithSizes(Vm(o), AddCpu, AddDisk))
    /\ GoOn(o, IF AddDisk = 0 THEN "save" ELSE "resize",
            Resized(copy[o], copy[o].cpu + AddCpu, copy[o].disk + AddDisk))
    /\ UNCHANGED <<db, hosts, sagaVars, sess, billed, granted>>

\* upgrade, update_resources: the absolute sizes computed from the entity.
Push(o) ==
    /\ at[o] = "push"
    /\ Vm(o) # None
    /\ SetVm(o, WithSizes(Vm(o), copy[o].cpu + AddCpu, copy[o].disk + AddDisk))
    /\ GoOn(o, IF AddDisk = 0 THEN "save" ELSE "resize",
            Resized(copy[o], copy[o].cpu + AddCpu, copy[o].disk + AddDisk))
    /\ UNCHANGED <<db, hosts, sagaVars, sess, billed, granted>>

\* upgrade, resize_disk: "+<add_disk_gb>G" on the disk that was just set.
Resize(o) ==
    /\ at[o] = "resize"
    /\ Vm(o) # None
    /\ SetVm(o, WithSizes(Vm(o), Vm(o).cpu, Vm(o).disk + AddDisk))
    /\ GoOn(o, "save", copy[o])
    /\ UNCHANGED <<db, hosts, sagaVars, sess, billed, granted>>

\* reset password: pushed and returned, never saved.
PushPassword(o, answered) ==
    /\ at[o] = "password"
    /\ Vm(o) # None
    /\ SetVm(o, WithPw(Vm(o), 2))
    /\ GoOn(o, IF answered THEN "answer" ELSE "failed", copy[o])
    /\ UNCHANGED <<db, hosts, sagaVars, sess, billed, granted>>

\* Mutants of CallFails: a failed push, or power command, is swallowed as
\* set_admin_password's failure is in provision.
SwallowPushError(o) ==
    /\ at[o] \in Steps \ {"check", "save", "record"}
    /\ IF at[o] = "push"
       THEN GoOn(o, "save", Resized(copy[o], copy[o].cpu + AddCpu, copy[o].disk + AddDisk))
       ELSE GoOn(o, IF Kind(o) = "refresh" THEN "answer" ELSE "failed", copy[o])
    /\ UNCHANGED <<vars, sess, billed, granted>>

SwallowPowerError(o) ==
    /\ at[o] \in Steps \ {"check", "save", "record"}
    /\ IF at[o] = "power"
       THEN GoOn(o, "save", WithStatus(copy[o], Power[Kind(o)].status))
       ELSE GoOn(o, IF Kind(o) = "refresh" THEN "answer" ELSE "failed", copy[o])
    /\ UNCHANGED <<vars, sess, billed, granted>>

\* A call is refused or gets no answer.  A refresh then answers with what it
\* has read; every other handler lets the exception through.  A request that
\* took effect all the same is that step followed by a failure of the next.
CallFails(o) ==
    /\ at[o] \in Steps \ {"check", "save", "record"}
    /\ GoOn(o, IF Kind(o) = "refresh" THEN "answer" ELSE "failed", copy[o])
    /\ UNCHANGED <<vars, sess, billed, granted>>

(***************************************************************************)
(* ServerRepository.update and record_upgrade                              *)
(***************************************************************************)

OpenSave(o) ==
    /\ at[o] = "save"
    /\ sess[o] = None
    /\ sess' = [sess EXCEPT ![o] = db[Srv(o)]]
    /\ UNCHANGED <<vars, op, at, copy, billed, granted>>

\* An upgrade has its ledger entry still to write, any other handler its answer.
CommitSave(o) ==
    /\ at[o] = "save"
    /\ sess[o] # None
    /\ db' = [db EXCEPT ![Srv(o)] = Flush(@, sess[o], copy[o])]
    /\ sess' = [sess EXCEPT ![o] = None]
    /\ GoOn(o, IF Kind(o) = "upgrade" THEN "record" ELSE "answer", copy[o])
    /\ granted' = IF Kind(o) = "extend" THEN [granted EXCEPT ![Srv(o)] = @ + MoreDays]
                                       ELSE granted
    /\ UNCHANGED <<hosts, vms, sagaVars, billed>>

Record(o) ==
    /\ at[o] = "record"
    /\ billed' = [billed EXCEPT ![Srv(o)] = @ + 1]
    /\ GoOn(o, "answer", copy[o])
    /\ UNCHANGED <<vars, sess, granted>>

\* Mutant of SaveFails: the ledger is written although the row was not saved.
RecordAnyway(o) ==
    /\ at[o] \in {"save", "record"}
    /\ sess' = [sess EXCEPT ![o] = None]
    /\ GoOn(o, IF at[o] = "save" /\ Kind(o) = "upgrade" THEN "record" ELSE "failed", copy[o])
    /\ UNCHANGED <<vars, billed, granted>>

\* The database refuses: nothing is undone.
SaveFails(o) ==
    /\ at[o] \in {"save", "record"}
    /\ sess' = [sess EXCEPT ![o] = None]
    /\ GoOn(o, "failed", copy[o])
    /\ UNCHANGED <<vars, billed, granted>>

\* The response is built from what the use case returned.
Respond(o) ==
    /\ at[o] = "answer"
    /\ GoOn(o, "done", None)
    /\ UNCHANGED <<vars, sess, billed, granted>>

(***************************************************************************)
(* The whole                                                               *)
(***************************************************************************)

OpStep(o) ==
    \/ PowerCall(o)
    \/ \E cpuKnown, diskKnown, sameIp \in BOOLEAN : ReadVm(o, cpuKnown, diskKnown, sameIp)
    \/ \E answer \in RunStates \cup {None} : CheckStopped(o, answer)
    \/ Push(o)
    \/ Resize(o)
    \/ \E answered \in BOOLEAN : PushPassword(o, answered)
    \/ CallFails(o)
    \/ OpenSave(o)
    \/ CommitSave(o)
    \/ Record(o)
    \/ SaveFails(o)
    \/ Respond(o)

\* A crash ends the handlers with the sagas.
CrashAll(sent) ==
    /\ Crash(sent)
    /\ at' = [o \in Ops |-> IF o \in Busy THEN "lost" ELSE at[o]]
    /\ op' = [o \in Ops |-> None]
    /\ copy' = [o \in Ops |-> None]
    /\ sess' = [o \in Ops |-> None]
    /\ UNCHANGED <<billed, granted>>

OpsNext ==
    \/ \E s \in Servers, h \in Hosts : Resolve(s, h) /\ UNCHANGED opVars
    \/ \E s \in Servers : SagaStep(s) /\ UNCHANGED opVars
    \/ Surroundings /\ UNCHANGED opVars
    \/ \E o \in Ops, s \in Servers : BeginExtend(o, s)
    \/ \E o \in Ops, kind \in Kinds, s \in Servers : BeginOnVm(o, kind, s)
    \/ \E o \in Ops : OpStep(o)
    \/ \E sent \in SUBSET Unanswered : CrashAll(sent)

OpsFairness ==
    /\ \A s \in Servers : WF_allVars(SagaStep(s) /\ UNCHANGED opVars)
    /\ \A o \in Ops : WF_allVars(OpStep(o))

OpsSpec == OpsInit /\ [][OpsNext]_allVars /\ OpsFairness

(***************************************************************************)
(* Properties of every interleaving                                        *)
(***************************************************************************)

\* No other server derives the identifier of s.  One that failed keeps the
\* identifier in its row: once another server has got it, a refresh or an
\* upgrade of the failed one is about the VM of the other.
Distinct(s) == \A t \in Servers : VmidOf[t] = VmidOf[s] => t = s

\* At least the sizes ordered; a row or VM that is nowhere larger than another.
Ample(sized) == sized.cpu >= PlanCpu /\ sized.disk >= PlanDisk
Within(sized, other) == sized.cpu <= other.cpu /\ sized.disk <= other.disk

\* Whatever handlers overlap, on whatever stale copies, a server answered with
\* 200 keeps its VM, and neither that VM nor its row ever falls below the sizes
\* ordered (upgrades push sizes computed from a row read long before).
OrderedSizesKept ==
    \A s \in Servers :
        pc[s] = "returned" =>
            /\ HasVm(s)
            /\ Distinct(s) =>
                  /\ Ample(db[s])
                  /\ \A x \in Slots : vms[x] # None /\ vms[x].owner = s => Ample(vms[x])

(***************************************************************************)
(* Properties of servers that are used serially                            *)
(***************************************************************************)

\* With the increments of n upgrades on top of the sizes ordered.
Reached(sized, n) ==
    sized.cpu >= PlanCpu + n * AddCpu /\ sized.disk >= PlanDisk + n * AddDisk

\* No refresh, extension or power command brings a row back that names no VM
\* of its own (PublishedVmExists speaks of the saga alone).
PublishedVmKept ==
    \A s \in Servers : Distinct(s) /\ Published(db[s]) => NamesOwnVm(db[s], s)

\* Upgrades on record for billing are upgrades the VM has, even after pushes
\* whose save was lost, pushes repeated, and refreshes in between (apply reads
\* the row, pushes absolute sizes, saves, and records last).
PaidUpgradesDelivered ==
    \A s \in Servers :
        Distinct(s) /\ billed[s] > 0 =>
            /\ NamesOwnVm(db[s], s)
            /\ Reached(vms[<<db[s].host, db[s].ext>>], billed[s])

\* A row never claims more than the VM has: an upgrade saves after it pushed,
\* a refresh saves what it read, and nothing in between is saved.
RowNeverAhead ==
    \A s \in Servers :
        Distinct(s) /\ db[s] # None /\ NamesOwnVm(db[s], s) =>
            Within(db[s], vms[<<db[s].host, db[s].ext>>])

\* "increasing expire_in_days" (extend_server_expiry.py:8): a row has the days
\* it was ordered with and those of every extension that was saved, whether or
\* not the process lived to answer it.
DaysAsGranted ==
    \A s \in Servers : db[s] # None => db[s].days = PlanDays + granted[s]

(***************************************************************************)
(* The inductive invariant of every interleaving                           *)
(***************************************************************************)

\* What anyone may hold of the row of s, however long ago it was read: the host
\* it was ordered on, and no identifier but the one its saga learnt.
RowOf(s, r) == r.host = ent[s].host /\ r.ext \in {None, ent[s].ext}

\* What overlapping saves leave of the saga's invariant.
ServerInv(s) ==
    /\ EntityInv(s)
    /\ pc[s] \in {"new", "insert"} => db[s] = None
    /\ pc[s] \notin {"new", "insert", "raised", "lost"} => db[s] # None
    /\ db[s] # None => ent[s] # None /\ RowOf(s, db[s])
    /\ pc[s] \in Named \cup {"config"} => OwnVm(s)
    /\ pc[s] = "rollback" /\ ent[s].ext # None => OwnVm(s)

\* What a handler knows of its server.
HandlerInv(o) ==
    o \in Active =>
        /\ op[o] \in [kind: Kinds, srv: Servers] /\ copy[o] # None
        /\ db[Srv(o)] # None /\ RowOf(Srv(o), copy[o])
        /\ IF Kind(o) = "extend" THEN at[o] = "save" ELSE copy[o].ext # None
        /\ at[o] = "power" => Kind(o) \in DOMAIN Power

\* Every copy of the row has the sizes ordered, or more: an upgrade, computed
\* from whichever, pushes no less.
SizesInv(s) ==
    Distinct(s) =>
        /\ db[s] # None => Ample(db[s])
        /\ \A o \in Active : Srv(o) = s => Ample(copy[o])
        /\ ent[s] # None /\ ent[s].ext # None /\ OwnVm(s) => Ample(vms[Target(s)])

\* Only a saga that never learnt its identifier may have its VM created yet.
LateCreateInv == \A r \in late : r[1] = "create" => ent[r[2]].ext = None

OpsInv ==
    /\ OpsTypeOK
    /\ \A s \in Servers : ServerInv(s) /\ SizesInv(s)
    /\ PlacementInv
    /\ LateInv
    /\ LateCreateInv
    /\ \A o \in Ops : HandlerInv(o)

(***************************************************************************)
(* What it adds for customers who wait for their answers                   *)
(***************************************************************************)

\* One handler at a time, and none before the saga has ended; until then the
\* row is the saga's own.
SoloInv(s) ==
    /\ \A o \in Active : Srv(o) = s => pc[s] \in Ends
    /\ \A o, p \in Active : Srv(o) = s /\ Srv(p) = s => o = p
    /\ loaded[s] # None => pc[s] \in Saves /\ loaded[s] = db[s]
    /\ ent[s] # None => ent[s].days = PlanDays
    /\ pc[s] \in Building => db[s].ext = None
    /\ pc[s] \notin Ends =>
          /\ billed[s] = 0 /\ granted[s] = 0
          /\ db[s] # None => db[s].cpu = PlanCpu /\ db[s].disk = PlanDisk
    /\ db[s] # None => db[s].days = PlanDays + granted[s]

\* The copy and the session of the one handler are current.
CurrentInv(o) ==
    /\ sess[o] # None => at[o] = "save" /\ sess[o] = db[Srv(o)]
    /\ o \in Active =>
          /\ at[o] = "read" => Kind(o) = "refresh"
          /\ copy[o].ext = db[Srv(o)].ext
          /\ copy[o].days = db[Srv(o)].days + IF Kind(o) = "extend" THEN MoreDays ELSE 0

\* The VM has the sizes this handler is about to save or has saved.
Pushed(o) == at[o] \in {"resize", "record"} \/ (at[o] = "save" /\ Kind(o) = "upgrade")

\* Row, copy, VM and ledger in step.
DeliveredInv(s) ==
    /\ Published(db[s]) => OwnVm(s)
    /\ db[s] # None => Reached(db[s], billed[s])
    /\ billed[s] > 0 => db[s] # None /\ db[s].ext # None /\ OwnVm(s)
    /\ db[s] # None /\ ent[s].ext # None /\ OwnVm(s) => Within(db[s], vms[Target(s)])
    /\ \A o \in Active : Srv(o) = s =>
          /\ Published(copy[o]) => OwnVm(s)
          /\ Within(db[s], copy[o])
          /\ ent[s].ext # None /\ OwnVm(s) => Within(copy[o], vms[Target(s)])
          /\ Pushed(o) => OwnVm(s) /\ Reached(copy[o], billed[s] + 1)
          /\ at[o] = "record" => Reached(db[s], billed[s] + 1)

\* A destroy given up on belongs to a saga that never saved its identifier.
LateDestroyInv == \A r \in late : r[1] = "destroy" => db[r[2]].ext = None

SerialInv ==
    /\ \A s \in Servers : SoloInv(s) /\ (Distinct(s) => DeliveredInv(s))
    /\ \A o \in Ops : CurrentInv(o)
    /\ LateDestroyInv

(***************************************************************************)
(* What the documentation says and the code does not do                    *)
(***************************************************************************)

\* "upgrades are only allowed while the VM is stopped for safety"
\* (upgrade_server_resources.py:52): where Proxmox answered, it said stopped.
UpgradesOnlyStopped ==
    [][\A o \in Ops, run \in RunStates :
          CheckStopped(o, run) /\ at'[o] = "push" => run = "stopped"]_allVars

\* "Apply an upgrade bundle to an existing server and push changes to Proxmox"
\* (upgrade_server_resources.py:11): what is pushed is what is applied, so that
\* after an upgrade the VM's disk is the disk_gb the row states.
DiskAsRecorded ==
    [][\A o \in Ops : Record(o) => vms[Slot(o)].disk = db[Srv(o)].disk]_allVars

==============================================================================
