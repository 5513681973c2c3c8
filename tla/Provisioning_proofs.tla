------------------------- MODULE Provisioning_proofs -------------------------
(***************************************************************************)
(* Proofs about the provisioning saga, for every number of requests, every *)
(* set of hosts and every derivation of VM identifiers, colliding or not.  *)
(* The inductive invariant SagaInv is shown action by action; what an      *)
(* action leaves alone is dealt with once, in the Frame lemmas.            *)
(***************************************************************************)
EXTENDS Provisioning, TLAPS

(***************************************************************************)
(* The operators of the store                                              *)
(***************************************************************************)

\* Saving an entity over the row it was loaded from writes the entity.
LEMMA FlushUnchanged ==
    ASSUME NEW r \in Row, NEW e \in Row
    PROVE  Flush(r, r, e) = e
BY DEF Flush, Column, Row

\* Assigning an attribute of an entity leaves a row and its other columns alone.
LEMMA EntityAssignments ==
    ASSUME NEW r \in Row
    PROVE  /\ \A st \in Statuses :
                /\ WithStatus(r, st) \in Row
                /\ WithStatus(r, st).status = st
                /\ WithStatus(r, st).host = r.host
                /\ WithStatus(r, st).ext = r.ext
                /\ WithStatus(r, st).cpu = r.cpu
                /\ WithStatus(r, st).disk = r.disk
           /\ \A i \in VmIds :
                /\ WithExt(r, i) \in Row
                /\ WithExt(r, i).ext = i
                /\ WithExt(r, i).host = r.host
                /\ WithExt(r, i).status = r.status
                /\ WithExt(r, i).cpu = r.cpu
                /\ WithExt(r, i).disk = r.disk
BY DEF WithStatus, WithExt, Row

\* A power or password change leaves a VM its owner and its sizes.
LEMMA VmAssignments ==
    ASSUME NEW vm \in VM
    PROVE  /\ \A run \in RunStates :
                /\ WithRun(vm, run) \in VM
                /\ WithRun(vm, run).owner = vm.owner
                /\ WithRun(vm, run).cpu = vm.cpu
                /\ WithRun(vm, run).disk = vm.disk
           /\ \A pw \in Nat :
                /\ WithPw(vm, pw) \in VM
                /\ WithPw(vm, pw).owner = vm.owner
                /\ WithPw(vm, pw).cpu = vm.cpu
                /\ WithPw(vm, pw).disk = vm.disk
BY DEF WithRun, WithPw, VM

\* Writing the sizes leaves a VM its owner.
LEMMA SizesAssigned ==
    ASSUME NEW vm \in VM, NEW cpu \in Nat, NEW disk \in Nat
    PROVE  /\ WithSizes(vm, cpu, disk) \in VM
           /\ WithSizes(vm, cpu, disk).owner = vm.owner
           /\ WithSizes(vm, cpu, disk).cpu = cpu
           /\ WithSizes(vm, cpu, disk).disk = disk
BY DEF WithSizes, VM

\* provision_server names the VM after the server it is for.
LEMMA NewVmIsVm ==
    ASSUME NEW s \in Servers, NEW cloned \in BOOLEAN
    PROVE  NewVm(s, cloned) \in VM /\ NewVm(s, cloned).owner = s
BY PlanAssumption DEF NewVm, VM, RunStates

\* The entity execute builds fits the table.
LEMMA NewServerIsRow == ASSUME NEW h \in Hosts PROVE NewServer(h) \in Row
BY PlanAssumption DEF NewServer, Row, Statuses

\* The derived identifier is a slot of the host of the entity.
LEMMA TargetIsSlot ==
    ASSUME TypeOK, NEW s \in Servers, ent[s] # None
    PROVE  Target(s) \in Slots
BY VmidAssumption DEF TypeOK, Target, SlotOf, Slots, Row

(***************************************************************************)
(* What a step of request s leaves alone                                   *)
(***************************************************************************)

OthersKept(s) ==
    \A t \in Servers : t # s =>
        pc'[t] = pc[t] /\ ent'[t] = ent[t] /\ db'[t] = db[t] /\ loaded'[t] = loaded[t]

OthersVmsKept(s) ==
    \A x \in Slots : vms[x] # None /\ vms[x].owner # s => vms'[x] = vms[x]

\* What holds of a request survives a step of another one.
LEMMA FrameServer ==
    ASSUME SagaInv, NEW s \in Servers, OthersKept(s), OthersVmsKept(s),
           NEW t \in Servers, t # s
    PROVE  EntityInv(t)' /\ RowInv(t)' /\ VmInv(t)'
<1>1. EntityInv(t) /\ RowInv(t) /\ VmInv(t)
  BY DEF SagaInv
<1>2. pc'[t] = pc[t] /\ ent'[t] = ent[t] /\ db'[t] = db[t] /\ loaded'[t] = loaded[t]
  BY DEF OthersKept
<1>3. EntityInv(t)' /\ RowInv(t)'
  BY <1>1, <1>2 DEF EntityInv, RowInv
<1>4. ASSUME OwnVm(t), ent[t] # None PROVE vms'[Target(t)] = vms[Target(t)]
  BY <1>4, TargetIsSlot DEF SagaInv, OwnVm, OthersVmsKept
<1>5. pc[t] # "new" => ent[t] # None
  BY <1>1 DEF EntityInv
<1>6. VmInv(t)'
  BY <1>1, <1>2, <1>4, <1>5 DEF VmInv, OwnVm, Target, SlotOf, Named
<1>7. QED
  BY <1>3, <1>6

\* VMs stay placed as their rows say when a step adds at most its own.
LEMMA FramePlacement ==
    ASSUME SagaInv, NEW s \in Servers, OthersKept(s),
           \A x \in Slots :
              \/ vms'[x] = None
              \/ vms'[x] = vms[x]
              \/ vms'[x].owner = s /\ x = Target(s) /\ pc'[s] \notin Untouched,
           pc[s] \notin Untouched => pc'[s] \notin Untouched,
           pc'[s] \notin Untouched => db'[s] # None /\ ent'[s].host = ent[s].host
    PROVE  PlacementInv'
<1> SUFFICES ASSUME NEW x \in Slots, vms'[x] # None
             PROVE  LET o == vms'[x].owner
                    IN  db'[o] # None /\ pc'[o] \notin Untouched /\ x = SlotOf(o, ent'[o].host)
  BY DEF PlacementInv, Target, SlotOf
<1>1. CASE vms'[x].owner = s /\ x = Target(s) /\ pc'[s] \notin Untouched
  BY <1>1 DEF Target, SlotOf
<1>2. CASE vms'[x] = vms[x]
  <2>1. /\ vms[x].owner \in Servers
        /\ db[vms[x].owner] # None
        /\ pc[vms[x].owner] \notin Untouched
        /\ x = Target(vms[x].owner)
    BY <1>2 DEF SagaInv, PlacementInv, TypeOK, StoreTypeOK, VM
  <2>2. QED
    BY <1>2, <2>1 DEF OthersKept, Target, SlotOf
<1>3. QED
  BY <1>1, <1>2

\* Requests still under way stay accounted for when a step adds only such.
LEMMA FrameLate ==
    ASSUME SagaInv, NEW s \in Servers, OthersKept(s), OthersVmsKept(s),
           \A r \in late' : r \in late \/ Accounted(r)',
           pc[s] \in GivenUp =>
              /\ pc[s] \notin {"raised", "lost"} /\ pc'[s] \in GivenUp
              /\ db'[s] # None /\ ent'[s].host = ent[s].host
    PROVE  LateInv'
<1> SUFFICES ASSUME NEW r \in late PROVE Accounted(r)'
  BY DEF LateInv
<1>1. /\ r[2] \in Servers
      /\ db[r[2]] # None /\ pc[r[2]] \in GivenUp /\ r[3] = ent[r[2]].host
      /\ r[1] = "destroy" => pc[r[2]] \in {"raised", "lost"} /\ OwnVm(r[2])
  BY DEF SagaInv, LateInv, Accounted, TypeOK, Requests
<1>2. CASE r[2] = s
  BY <1>1, <1>2 DEF Accounted
<1>3. CASE r[2] # s
  <2>1. ent[r[2]] # None
    BY <1>1 DEF SagaInv, EntityInv, GivenUp
  <2>2. OwnVm(r[2]) => vms'[Target(r[2])] = vms[Target(r[2])]
    BY <1>1, <1>3, <2>1, TargetIsSlot DEF SagaInv, OwnVm, OthersVmsKept
  <2>3. QED
    BY <1>1, <1>3, <2>2 DEF Accounted, OthersKept, OwnVm, Target, SlotOf
<1>4. QED
  BY <1>2, <1>3

\* What rows show stays there when a step touches no other request's VM.
LEMMA FrameSeen ==
    ASSUME SagaInv, NEW s \in Servers, OthersKept(s), OthersVmsKept(s),
           \A r \in late' : r \in late \/ r[2] = s,
           SeenInv(s)'
    PROVE  \A t \in Servers : SeenInv(t)'
<1> SUFFICES ASSUME NEW t \in Servers, t # s, Published(db'[t])
             PROVE  OwnVm(t)' /\ \A r \in late' : r[2] # t
  BY DEF SeenInv
<1>1. db'[t] = db[t] /\ ent'[t] = ent[t]
  BY DEF OthersKept
<1>2. OwnVm(t) /\ ent[t] # None /\ \A r \in late : r[2] # t
  BY <1>1 DEF SagaInv, SeenInv, RowInv, Published
<1>3. Target(t)' = Target(t) /\ vms'[Target(t)] = vms[Target(t)]
  BY <1>1, <1>2, TargetIsSlot DEF SagaInv, OwnVm, OthersVmsKept, Target, SlotOf
<1>4. QED
  BY <1>2, <1>3 DEF OwnVm

\* A saga that is neither complete nor lost shows no VM yet.
LEMMA Unseen ==
    ASSUME NEW s \in Servers, RowInv(s)', pc'[s] \notin Completed \cup {"lost"}
    PROVE  SeenInv(s)'
BY DEF RowInv, SeenInv

(***************************************************************************)
(* One lemma per action                                                    *)
(***************************************************************************)

\* The entity exists, nothing else does.
LEMMA ResolveKeeps ==
    ASSUME SagaInv, NEW s \in Servers, NEW h \in Hosts, Resolve(s, h)
    PROVE  SagaInv'
<1>1. NewServer(h) \in Row /\ NewServer(h) # None /\ ent'[s] = NewServer(h)
  BY NewServerIsRow, NoneAssumption DEF Resolve, SagaInv, TypeOK
<1>2. TypeOK'
  BY <1>1, EntityAssignments, VmAssignments
  DEF Resolve, storeVars, SagaInv, TypeOK, StoreTypeOK, Statuses, Saves, Calls, Ends, Requests
<1>3. OthersKept(s) /\ OthersVmsKept(s)
  BY DEF Resolve, storeVars, SagaInv, TypeOK, StoreTypeOK, OthersKept, OthersVmsKept
<1>4. EntityInv(s)'
  BY <1>1, NoneAssumption
  DEF Resolve, NewServer, SagaInv, EntityInv, TypeOK, Named
<1>5. RowInv(s)'
  BY <1>1, <1>2, EntityAssignments, NoneAssumption
  DEF Resolve, storeVars, SagaInv, RowInv, Completed, EntityInv, TypeOK, StoreTypeOK, Saves, Building, Statuses
<1>6. VmInv(s)'
  BY <1>1, EntityAssignments, NoneAssumption
  DEF Resolve, storeVars, SagaInv, VmInv, EntityInv, TypeOK, StoreTypeOK, OwnVm, Target, SlotOf, Named, Statuses, Saves
<1>7. PlacementInv'
  BY <1>3
  DEF Resolve, storeVars, SagaInv, PlacementInv, OthersKept, Target, SlotOf, TypeOK, StoreTypeOK, VM, Untouched
<1>8. LateInv'
  BY <1>1, <1>3, <1>4, <1>5, FrameLate, EntityAssignments
  DEF Resolve, storeVars, SagaInv, TypeOK, StoreTypeOK, RowInv, GivenUp, Saves, Statuses
<1>12. \A t \in Servers : SeenInv(t)'
  <2>1. pc'[s] \notin Completed \cup {"lost"}
    BY DEF Resolve, SagaInv, TypeOK, Completed
  <2>2. \A r \in late' : r \in late \/ r[2] = s
    BY DEF Resolve
  <2>3. QED
    BY <1>3, <1>5, <2>1, <2>2, FrameSeen, Unseen
<1>9. QED
  BY <1>2, <1>3, <1>4, <1>5, <1>6, <1>7, <1>8, <1>12, FrameServer DEF SagaInv

\* The row is the entity, and neither VM nor late request exists yet.
LEMMA InsertKeeps ==
    ASSUME SagaInv, NEW s \in Servers, Insert(s)
    PROVE  SagaInv'
<1>1. ent[s] \in Row /\ ent[s] # None
  BY NoneAssumption DEF Insert, SagaInv, EntityInv, TypeOK
<1>2. TypeOK'
  BY <1>1, EntityAssignments, VmAssignments
  DEF Insert, SagaInv, TypeOK, StoreTypeOK, Statuses, Saves, Calls, Ends, Requests
<1>3. OthersKept(s) /\ OthersVmsKept(s)
  BY DEF Insert, SagaInv, TypeOK, StoreTypeOK, OthersKept, OthersVmsKept
<1>4. EntityInv(s)'
  BY <1>1, EntityAssignments, NoneAssumption
  DEF Insert, SagaInv, EntityInv, TypeOK, Named, Statuses, Saves
<1>5. RowInv(s)'
  BY <1>1, <1>2, EntityAssignments, NoneAssumption
  DEF Insert, SagaInv, RowInv, Completed, Published, EntityInv, TypeOK, StoreTypeOK, Saves, Building, Statuses
<1>6. VmInv(s)'
  BY <1>1, EntityAssignments, NoneAssumption
  DEF Insert, SagaInv, VmInv, EntityInv, TypeOK, StoreTypeOK, OwnVm, Target, SlotOf, Named, Statuses, Saves
<1>7. PlacementInv'
  BY <1>1, <1>3, EntityAssignments
  DEF Insert, SagaInv, PlacementInv, OthersKept, Target, SlotOf, TypeOK, StoreTypeOK, VM, Untouched, Statuses
<1>8. LateInv'
  BY <1>1, <1>3, <1>4, <1>5, FrameLate, EntityAssignments
  DEF Insert, SagaInv, TypeOK, StoreTypeOK, RowInv, GivenUp, Saves, Statuses
<1>12. \A t \in Servers : SeenInv(t)'
  <2>1. pc'[s] \notin Completed \cup {"lost"}
    BY DEF Insert, SagaInv, TypeOK, Completed
  <2>2. \A r \in late' : r \in late \/ r[2] = s
    BY DEF Insert
  <2>3. QED
    BY <1>3, <1>5, <2>1, <2>2, FrameSeen, Unseen
<1>9. QED
  BY <1>2, <1>3, <1>4, <1>5, <1>6, <1>7, <1>8, <1>12, FrameServer DEF SagaInv

\* Nothing was written.
LEMMA InsertFailsKeeps ==
    ASSUME SagaInv, NEW s \in Servers, InsertFails(s)
    PROVE  SagaInv'
<1>1. ent[s] \in Row /\ ent[s] # None
  BY NoneAssumption DEF InsertFails, SagaInv, EntityInv, TypeOK
<1>2. TypeOK'
  BY <1>1, EntityAssignments, VmAssignments
  DEF InsertFails, storeVars, SagaInv, TypeOK, StoreTypeOK, Statuses, Saves, Calls, Ends, Requests
<1>3. OthersKept(s) /\ OthersVmsKept(s)
  BY DEF InsertFails, storeVars, SagaInv, TypeOK, StoreTypeOK, OthersKept, OthersVmsKept
<1>4. EntityInv(s)'
  BY <1>1, EntityAssignments, NoneAssumption
  DEF InsertFails, storeVars, SagaInv, EntityInv, TypeOK, Named, Statuses, Saves
<1>5. RowInv(s)'
  BY <1>1, <1>2, EntityAssignments, NoneAssumption
  DEF InsertFails, storeVars, SagaInv, RowInv, Completed, EntityInv, TypeOK, StoreTypeOK, Saves, Building, Statuses
<1>6. VmInv(s)'
  BY <1>1, EntityAssignments, NoneAssumption
  DEF InsertFails, storeVars, SagaInv, VmInv, EntityInv, TypeOK, StoreTypeOK, OwnVm, Target, SlotOf, Named, Statuses, Saves
<1>7. PlacementInv'
  BY <1>3
  DEF InsertFails, storeVars, SagaInv, PlacementInv, OthersKept, Target, SlotOf, TypeOK, StoreTypeOK, VM, Untouched
<1>8. LateInv'
  BY <1>1, <1>3, <1>4, <1>5, FrameLate, EntityAssignments
  DEF InsertFails, storeVars, SagaInv, TypeOK, StoreTypeOK, RowInv, GivenUp, Saves, Statuses
<1>12. \A t \in Servers : SeenInv(t)'
  <2>1. pc'[s] \notin Completed \cup {"lost"}
    BY DEF InsertFails, SagaInv, TypeOK, Completed
  <2>2. \A r \in late' : r \in late \/ r[2] = s
    BY DEF InsertFails
  <2>3. QED
    BY <1>3, <1>5, <2>1, <2>2, FrameSeen, Unseen
<1>9. QED
  BY <1>2, <1>3, <1>4, <1>5, <1>6, <1>7, <1>8, <1>12, FrameServer DEF SagaInv

\* Its own saga alone writes a row here: what a session loaded stays current.
LEMMA OpenSessionKeeps ==
    ASSUME SagaInv, NEW s \in Servers, OpenSession(s)
    PROVE  SagaInv'
<1>1. ent[s] \in Row /\ ent[s] # None
  BY NoneAssumption DEF OpenSession, SagaInv, EntityInv, TypeOK, Saves
<1>2. TypeOK'
  BY <1>1, EntityAssignments, VmAssignments
  DEF OpenSession, storeVars, SagaInv, TypeOK, StoreTypeOK, Statuses, Saves, Calls, Ends, Requests
<1>3. OthersKept(s) /\ OthersVmsKept(s)
  BY DEF OpenSession, storeVars, SagaInv, TypeOK, StoreTypeOK, OthersKept, OthersVmsKept
<1>4. EntityInv(s)'
  BY <1>1, EntityAssignments, NoneAssumption
  DEF OpenSession, storeVars, SagaInv, EntityInv, TypeOK, Named, Statuses, Saves
<1>5. RowInv(s)'
  BY <1>1, <1>2, EntityAssignments, NoneAssumption
  DEF OpenSession, storeVars, SagaInv, RowInv, Completed, EntityInv, TypeOK, StoreTypeOK, Saves, Building, Statuses
<1>6. VmInv(s)'
  BY <1>1, EntityAssignments, NoneAssumption
  DEF OpenSession, storeVars, SagaInv, VmInv, EntityInv, TypeOK, StoreTypeOK, OwnVm, Target, SlotOf, Named, Statuses, Saves
<1>7. PlacementInv'
  
  <2>1. /\ vms' = vms
        /\ pc[s] \notin Untouched => pc'[s] \notin Untouched
        /\ db'[s] # None /\ ent'[s].host = ent[s].host
    BY <1>1, <1>5
    DEF OpenSession, storeVars, SagaInv, TypeOK, RowInv, Untouched, Saves
  <2>2. QED
    BY <1>3, <2>1, FramePlacement
<1>8. LateInv'
  BY <1>1, <1>3, <1>4, <1>5, FrameLate, EntityAssignments
  DEF OpenSession, storeVars, SagaInv, TypeOK, StoreTypeOK, RowInv, GivenUp, Saves, Statuses
<1>12. \A t \in Servers : SeenInv(t)'
  <2>1. pc'[s] \notin Completed \cup {"lost"}
    BY DEF OpenSession, Saves, SagaInv, TypeOK, Completed
  <2>2. \A r \in late' : r \in late \/ r[2] = s
    BY DEF OpenSession
  <2>3. QED
    BY <1>3, <1>5, <2>1, <2>2, FrameSeen, Unseen
<1>9. QED
  BY <1>2, <1>3, <1>4, <1>5, <1>6, <1>7, <1>8, <1>12, FrameServer DEF SagaInv

\* A failed save leaves the row and sends the saga to a handler or out.
LEMMA UpdateFailsKeeps ==
    ASSUME SagaInv, NEW s \in Servers, UpdateFails(s)
    PROVE  SagaInv'
<1>1. ent[s] \in Row /\ ent[s] # None
  BY NoneAssumption DEF UpdateFails, SagaInv, EntityInv, TypeOK, Saves
<1>2. TypeOK'
  BY <1>1, EntityAssignments, VmAssignments
  DEF UpdateFails, storeVars, SagaInv, TypeOK, StoreTypeOK, Statuses, Saves, Calls, Ends, Requests
<1>3. OthersKept(s) /\ OthersVmsKept(s)
  BY DEF UpdateFails, storeVars, SagaInv, TypeOK, StoreTypeOK, OthersKept, OthersVmsKept
<1>4. EntityInv(s)'
  BY <1>1, EntityAssignments, NoneAssumption
  DEF UpdateFails, storeVars, SagaInv, EntityInv, TypeOK, Named, Statuses, Saves
<1>5. RowInv(s)'
  BY <1>1, <1>2, EntityAssignments, NoneAssumption
  DEF UpdateFails, storeVars, SagaInv, RowInv, Completed, EntityInv, TypeOK, StoreTypeOK, Saves, Building, Statuses
<1>6. VmInv(s)'
  BY <1>1, EntityAssignments, NoneAssumption
  DEF UpdateFails, storeVars, SagaInv, VmInv, EntityInv, TypeOK, StoreTypeOK, OwnVm, Target, SlotOf, Named, Statuses, Saves
<1>7. PlacementInv'
  BY <1>1, <1>3, <1>4, <1>5, FramePlacement, EntityAssignments
  DEF UpdateFails, storeVars, SagaInv, TypeOK, StoreTypeOK, RowInv, Untouched, Saves, Statuses
<1>8. LateInv'
  BY <1>1, <1>3, <1>4, <1>5, FrameLate, EntityAssignments
  DEF UpdateFails, storeVars, SagaInv, TypeOK, StoreTypeOK, RowInv, GivenUp, Saves, Statuses
<1>12. \A t \in Servers : SeenInv(t)'
  <2>1. pc'[s] \notin Completed \cup {"lost"}
    BY DEF UpdateFails, Saves, SagaInv, TypeOK, Completed
  <2>2. \A r \in late' : r \in late \/ r[2] = s
    BY DEF UpdateFails
  <2>3. QED
    BY <1>3, <1>5, <2>1, <2>2, FrameSeen, Unseen
<1>9. QED
  BY <1>2, <1>3, <1>4, <1>5, <1>6, <1>7, <1>8, <1>12, FrameServer DEF SagaInv

\* The row becomes the entity.
LEMMA CommitKeeps ==
    ASSUME SagaInv, NEW s \in Servers, Commit(s)
    PROVE  SagaInv'
<1>1. ent[s] \in Row /\ ent[s] # None
  BY NoneAssumption DEF Commit, SagaInv, EntityInv, TypeOK, Saves
<1>0. db' = [db EXCEPT ![s] = ent[s]]
  <2>1. loaded[s] = db[s] /\ db[s] \in Row
    BY NoneAssumption DEF Commit, SagaInv, RowInv, TypeOK, StoreTypeOK
  <2>2. QED
    BY <1>1, <2>1, FlushUnchanged DEF Commit
<1>2. TypeOK'
  BY <1>0, <1>1, EntityAssignments, VmAssignments
  DEF Commit, NextAfter, SagaInv, TypeOK, StoreTypeOK, Statuses, Saves, Calls, Answering, Ends, Requests
<1>3. OthersKept(s) /\ OthersVmsKept(s)
  BY DEF Commit, NextAfter, SagaInv, TypeOK, StoreTypeOK, OthersKept, OthersVmsKept
<1>4. EntityInv(s)'
  BY <1>0, <1>1, EntityAssignments, NoneAssumption
  DEF Commit, NextAfter, SagaInv, EntityInv, TypeOK, Named, Completed, Statuses, Saves
<1>5. RowInv(s)'
  BY <1>0, <1>1, <1>2, EntityAssignments, NoneAssumption
  DEF Commit, NextAfter, SagaInv, RowInv, Published, EntityInv, TypeOK, StoreTypeOK, Saves, Building,
      Completed, Named,
      Statuses
<1>6. VmInv(s)'
  BY <1>0, <1>1, EntityAssignments, NoneAssumption
  DEF Commit, NextAfter, SagaInv, VmInv, EntityInv, TypeOK, StoreTypeOK, OwnVm, Target, SlotOf, Named, Completed, Statuses, Saves
<1>7. PlacementInv'
  
  <2>1. /\ vms' = vms
        /\ pc[s] \notin Untouched => pc'[s] \notin Untouched
        /\ db'[s] # None /\ ent'[s].host = ent[s].host
    BY <1>0, <1>1, EntityAssignments
    DEF Commit, NextAfter, SagaInv, TypeOK, StoreTypeOK, Untouched, Saves, Statuses
  <2>2. QED
    BY <1>3, <2>1, FramePlacement
<1>8. LateInv'
  BY <1>0, <1>1, <1>3, <1>4, <1>5, FrameLate, EntityAssignments
  DEF Commit, NextAfter, SagaInv, TypeOK, StoreTypeOK, RowInv, GivenUp, Saves, Statuses
<1>12. \A t \in Servers : SeenInv(t)'
  <2>1. CASE pc[s] = "ready"
    <3>1. OwnVm(s) /\ \A r \in late : r[2] # s
      BY <2>1 DEF SagaInv, VmInv, Named, LateInv, Accounted, GivenUp
    <3>2. OwnVm(s)'
      BY <2>1, <3>1 DEF Commit, OwnVm, Target, SlotOf
    <3>3. QED
      BY <1>3, <3>1, <3>2, FrameSeen DEF Commit, SeenInv
  <2>2. CASE pc[s] # "ready"
    <3>1. pc'[s] \notin Completed \cup {"lost"}
      BY <2>2 DEF Commit, Saves, NextAfter, SagaInv, TypeOK, Completed
    <3>2. QED
      BY <1>3, <1>5, <3>1, FrameSeen, Unseen DEF Commit
  <2>3. QED
    BY <2>1, <2>2
<1>9. QED
  BY <1>2, <1>3, <1>4, <1>5, <1>6, <1>7, <1>8, <1>12, FrameServer DEF SagaInv

\* A create given up on is the only request its saga ever sent.
LEMMA CreateFailsKeeps ==
    ASSUME SagaInv, NEW s \in Servers, NEW handler \in Handlers, NEW sent \in BOOLEAN, CreateFails(s, handler, sent)
    PROVE  SagaInv'
<1>1. ent[s] \in Row /\ ent[s] # None
  BY NoneAssumption DEF CreateFails, SagaInv, EntityInv, TypeOK
<1>2. TypeOK'
  
  <2>1. late' \in SUBSET Requests
    BY <1>1 DEF CreateFails, SagaInv, TypeOK, Requests, Row
  <2>2. QED
    BY <1>1, <2>1, EntityAssignments
    DEF CreateFails, Caught, Handlers, storeVars, SagaInv, TypeOK, StoreTypeOK, Statuses, Saves, Calls
<1>3. OthersKept(s) /\ OthersVmsKept(s)
  BY DEF CreateFails, Caught, Handlers, storeVars, SagaInv, TypeOK, StoreTypeOK, OthersKept, OthersVmsKept
<1>4. EntityInv(s)'
  BY <1>1, EntityAssignments, NoneAssumption
  DEF CreateFails, Caught, Handlers, storeVars, SagaInv, EntityInv, TypeOK, Named, Statuses, Saves
<1>5. RowInv(s)'
  BY <1>1, <1>2, EntityAssignments, NoneAssumption
  DEF CreateFails, Caught, Handlers, storeVars, SagaInv, RowInv, Completed, EntityInv, TypeOK, StoreTypeOK, Saves, Building, Statuses
<1>6. VmInv(s)'
  BY <1>1, EntityAssignments, NoneAssumption
  DEF CreateFails, Caught, Handlers, storeVars, SagaInv, VmInv, EntityInv, TypeOK, StoreTypeOK, OwnVm, Target, SlotOf, Named, Statuses, Saves
<1>7. PlacementInv'
  BY <1>1, <1>3, <1>4, <1>5, FramePlacement, EntityAssignments
  DEF CreateFails, Caught, Handlers, storeVars, SagaInv, TypeOK, StoreTypeOK, RowInv, Untouched, Saves, Statuses
<1>8. LateInv'
  
  <2>1. \A r \in late' : r \in late \/ Accounted(r)'
    BY <1>1, <1>5, <1>6, EntityAssignments
    DEF CreateFails, Caught, Handlers, storeVars, SagaInv, TypeOK, RowInv, Accounted, GivenUp, Statuses
  <2>2. pc[s] \notin {"raised", "lost"} /\ pc'[s] \in GivenUp
    BY DEF CreateFails, Caught, Handlers, storeVars, SagaInv, TypeOK, GivenUp
  <2>3. db'[s] # None /\ ent'[s].host = ent[s].host
    BY <1>1, EntityAssignments DEF CreateFails, Caught, Handlers, storeVars, SagaInv, TypeOK, RowInv, Statuses
  <2>4. QED
    BY <1>3, <2>1, <2>2, <2>3, FrameLate
<1>12. \A t \in Servers : SeenInv(t)'
  <2>1. pc'[s] \notin Completed \cup {"lost"}
    BY DEF CreateFails, Caught, Handlers, SagaInv, TypeOK, Completed
  <2>2. \A r \in late' : r \in late \/ r[2] = s
    BY DEF CreateFails
  <2>3. QED
    BY <1>3, <1>5, <2>1, <2>2, FrameSeen, Unseen
<1>9. QED
  BY <1>2, <1>3, <1>4, <1>5, <1>6, <1>7, <1>8, <1>12, FrameServer DEF SagaInv

\* Only the status of the entity changes.
LEMMA ReadStatusKeeps ==
    ASSUME SagaInv, NEW s \in Servers, ReadStatus(s)
    PROVE  SagaInv'
<1>1. ent[s] \in Row /\ ent[s] # None
  BY NoneAssumption DEF ReadStatus, SagaInv, EntityInv, TypeOK
<1>0. PICK st \in Statuses : ent' = [ent EXCEPT ![s] = WithStatus(@, st)]
  BY DEF ReadStatus, StatusToSave, MapProxmoxStatus, Statuses
<1>2. TypeOK'
  BY <1>0, <1>1, EntityAssignments, VmAssignments
  DEF ReadStatus, storeVars, SagaInv, TypeOK, StoreTypeOK, Statuses, Saves, Calls, Ends, Requests
<1>3. OthersKept(s) /\ OthersVmsKept(s)
  BY DEF ReadStatus, storeVars, SagaInv, TypeOK, StoreTypeOK, OthersKept, OthersVmsKept
<1>4. EntityInv(s)'
  BY <1>0, <1>1, EntityAssignments, NoneAssumption
  DEF ReadStatus, storeVars, SagaInv, EntityInv, TypeOK, Named, Statuses, Saves
<1>5. RowInv(s)'
  BY <1>0, <1>1, <1>2, EntityAssignments, NoneAssumption
  DEF ReadStatus, storeVars, SagaInv, RowInv, Completed, EntityInv, TypeOK, StoreTypeOK, Saves, Building, Statuses
<1>6. VmInv(s)'
  BY <1>0, <1>1, EntityAssignments, NoneAssumption
  DEF ReadStatus, storeVars, SagaInv, VmInv, EntityInv, TypeOK, StoreTypeOK, OwnVm, Target, SlotOf, Named, Statuses, Saves
<1>7. PlacementInv'
  BY <1>0, <1>1, <1>3, <1>4, <1>5, FramePlacement, EntityAssignments
  DEF ReadStatus, storeVars, SagaInv, TypeOK, StoreTypeOK, RowInv, Untouched, Saves, Statuses
<1>8. LateInv'
  BY <1>0, <1>1, <1>3, <1>4, <1>5, FrameLate, EntityAssignments
  DEF ReadStatus, storeVars, SagaInv, TypeOK, StoreTypeOK, RowInv, GivenUp, Saves, Statuses
<1>12. \A t \in Servers : SeenInv(t)'
  <2>1. pc'[s] \notin Completed \cup {"lost"}
    BY DEF ReadStatus, SagaInv, TypeOK, Completed
  <2>2. \A r \in late' : r \in late \/ r[2] = s
    BY DEF ReadStatus
  <2>3. QED
    BY <1>3, <1>5, <2>1, <2>2, FrameSeen, Unseen
<1>9. QED
  BY <1>2, <1>3, <1>4, <1>5, <1>6, <1>7, <1>8, <1>12, FrameServer DEF SagaInv

\* Nothing is destroyed.
LEMMA RollbackSkipsKeeps ==
    ASSUME SagaInv, NEW s \in Servers, RollbackSkips(s)
    PROVE  SagaInv'
<1>1. ent[s] \in Row /\ ent[s] # None
  BY NoneAssumption DEF RollbackSkips, SagaInv, EntityInv, TypeOK
<1>2. TypeOK'
  BY <1>1, EntityAssignments, VmAssignments
  DEF RollbackSkips, RolledBack, storeVars, SagaInv, TypeOK, StoreTypeOK, Statuses, Saves, Calls, Ends, Requests
<1>3. OthersKept(s) /\ OthersVmsKept(s)
  BY DEF RollbackSkips, RolledBack, storeVars, SagaInv, TypeOK, StoreTypeOK, OthersKept, OthersVmsKept
<1>4. EntityInv(s)'
  BY <1>1, EntityAssignments, NoneAssumption
  DEF RollbackSkips, RolledBack, storeVars, SagaInv, EntityInv, TypeOK, Named, Statuses, Saves
<1>5. RowInv(s)'
  BY <1>1, <1>2, EntityAssignments, NoneAssumption
  DEF RollbackSkips, RolledBack, storeVars, SagaInv, RowInv, Completed, EntityInv, TypeOK, StoreTypeOK, Saves, Building, Statuses
<1>6. VmInv(s)'
  BY <1>1, EntityAssignments, NoneAssumption
  DEF RollbackSkips, RolledBack, storeVars, SagaInv, VmInv, EntityInv, TypeOK, StoreTypeOK, OwnVm, Target, SlotOf, Named, Statuses, Saves
<1>7. PlacementInv'
  BY <1>1, <1>3, <1>4, <1>5, FramePlacement, EntityAssignments
  DEF RollbackSkips, RolledBack, storeVars, SagaInv, TypeOK, StoreTypeOK, RowInv, Untouched, Saves, Statuses
<1>8. LateInv'
  BY <1>1, <1>3, <1>4, <1>5, FrameLate, EntityAssignments
  DEF RollbackSkips, RolledBack, storeVars, SagaInv, TypeOK, StoreTypeOK, RowInv, GivenUp, Saves, Statuses
<1>12. \A t \in Servers : SeenInv(t)'
  <2>1. pc'[s] \notin Completed \cup {"lost"}
    BY DEF RollbackSkips, RolledBack, SagaInv, TypeOK, Completed
  <2>2. \A r \in late' : r \in late \/ r[2] = s
    BY DEF RollbackSkips
  <2>3. QED
    BY <1>3, <1>5, <2>1, <2>2, FrameSeen, Unseen
<1>9. QED
  BY <1>2, <1>3, <1>4, <1>5, <1>6, <1>7, <1>8, <1>12, FrameServer DEF SagaInv

\* The destroy that may still come faces the VM of its own request.
LEMMA RollbackFailsKeeps ==
    ASSUME SagaInv, NEW s \in Servers, NEW sent \in BOOLEAN, RollbackFails(s, sent)
    PROVE  SagaInv'
<1>1. ent[s] \in Row /\ ent[s] # None
  BY NoneAssumption DEF RollbackFails, SagaInv, EntityInv, TypeOK
<1>2. TypeOK'
  BY <1>1, EntityAssignments, VmAssignments
  DEF RollbackFails, CanDestroy, storeVars, SagaInv, TypeOK, StoreTypeOK, Statuses, Saves, Calls, Ends, Requests
<1>3. OthersKept(s) /\ OthersVmsKept(s)
  BY DEF RollbackFails, CanDestroy, storeVars, SagaInv, TypeOK, StoreTypeOK, OthersKept, OthersVmsKept
<1>4. EntityInv(s)'
  BY <1>1, EntityAssignments, NoneAssumption
  DEF RollbackFails, CanDestroy, storeVars, SagaInv, EntityInv, TypeOK, Named, Statuses, Saves
<1>5. RowInv(s)'
  BY <1>1, <1>2, EntityAssignments, NoneAssumption
  DEF RollbackFails, CanDestroy, storeVars, SagaInv, RowInv, Completed, EntityInv, TypeOK, StoreTypeOK, Saves, Building, Statuses
<1>6. VmInv(s)'
  BY <1>1, EntityAssignments, NoneAssumption
  DEF RollbackFails, CanDestroy, storeVars, SagaInv, VmInv, EntityInv, TypeOK, StoreTypeOK, OwnVm, Target, SlotOf, Named, Statuses, Saves
<1>7. PlacementInv'
  BY <1>1, <1>3, <1>4, <1>5, FramePlacement, EntityAssignments
  DEF RollbackFails, CanDestroy, storeVars, SagaInv, TypeOK, StoreTypeOK, RowInv, Untouched, Saves, Statuses
<1>8. LateInv'
  
  <2>1. \A r \in late' : r \in late \/ Accounted(r)'
    BY <1>1, <1>5, <1>6, EntityAssignments
    DEF RollbackFails, CanDestroy, storeVars, SagaInv, TypeOK, RowInv, VmInv, OwnVm, Target, SlotOf, Accounted, GivenUp
  <2>2. pc[s] \notin {"raised", "lost"} /\ pc'[s] \in GivenUp
    BY DEF RollbackFails, CanDestroy, storeVars, SagaInv, TypeOK, GivenUp
  <2>3. db'[s] # None /\ ent'[s].host = ent[s].host
    BY <1>1, EntityAssignments DEF RollbackFails, CanDestroy, storeVars, SagaInv, TypeOK, RowInv
  <2>4. QED
    BY <1>3, <2>1, <2>2, <2>3, FrameLate
<1>12. \A t \in Servers : SeenInv(t)'
  <2>1. pc'[s] \notin Completed \cup {"lost"}
    BY DEF RollbackFails, SagaInv, TypeOK, Completed
  <2>2. \A r \in late' : r \in late \/ r[2] = s
    BY DEF RollbackFails
  <2>3. QED
    BY <1>3, <1>5, <2>1, <2>2, FrameSeen, Unseen
<1>9. QED
  BY <1>2, <1>3, <1>4, <1>5, <1>6, <1>7, <1>8, <1>12, FrameServer DEF SagaInv

\* An empty slot gets the VM of s; no slot of another request changes.
LEMMA CreateKeeps ==
    ASSUME SagaInv, NEW s \in Servers, NEW cloned \in BOOLEAN, Create(s, cloned)
    PROVE  SagaInv'
<1>1. ent[s] \in Row /\ ent[s] # None
  BY NoneAssumption DEF Create, SagaInv, EntityInv, TypeOK
<1>0. Target(s) \in Slots /\ SlotOf(s, ent[s].host) = Target(s) /\ vms[Target(s)] = None
  BY <1>1, TargetIsSlot DEF Create, CreateVm, SagaInv, Target
<1>2. TypeOK'
  BY <1>0, <1>1, EntityAssignments, VmAssignments, NewVmIsVm, VmidAssumption, PlanAssumption
  DEF Create, CreateVm, SagaInv, TypeOK, StoreTypeOK, Statuses, Saves, Calls, Ends
<1>3. OthersKept(s) /\ OthersVmsKept(s)
    <2>1. OthersKept(s)
    BY DEF Create, CreateVm, SagaInv, TypeOK, StoreTypeOK, OthersKept
  <2>2. OthersVmsKept(s)
    BY <1>0, <1>1 DEF Create, CreateVm, SagaInv, TypeOK, StoreTypeOK, OthersVmsKept
  <2>3. QED
    BY <2>1, <2>2
<1>4. EntityInv(s)'
  BY <1>0, <1>1, EntityAssignments, NoneAssumption
  DEF Create, CreateVm, SagaInv, EntityInv, TypeOK, Named, Statuses, Saves
<1>5. RowInv(s)'
  BY <1>0, <1>1, <1>2, EntityAssignments, NoneAssumption
  DEF Create, CreateVm, SagaInv, RowInv, Completed, EntityInv, TypeOK, StoreTypeOK, Saves, Building, Statuses
<1>6. VmInv(s)'
  BY <1>0, <1>1, EntityAssignments, VmAssignments, NewVmIsVm, PlanAssumption, NoneAssumption
  DEF Create, CreateVm, SagaInv, VmInv, EntityInv, TypeOK, StoreTypeOK, OwnVm, Target, SlotOf, Named, Statuses
<1>7. PlacementInv'
    <2>1. ASSUME NEW x \in Slots
        PROVE  \/ vms'[x] = None
               \/ vms'[x] = vms[x]
               \/ vms'[x].owner = s /\ x = Target(s) /\ pc'[s] \notin Untouched
    BY <1>0, <1>1, VmAssignments, NewVmIsVm, PlanAssumption
    DEF Create, CreateVm, SagaInv, TypeOK, StoreTypeOK, Untouched
  <2>2. /\ pc[s] \notin Untouched => pc'[s] \notin Untouched
        /\ pc'[s] \notin Untouched => db'[s] # None /\ ent'[s].host = ent[s].host
    BY <1>0, <1>1, EntityAssignments, VmidAssumption
    DEF Create, CreateVm, SagaInv, TypeOK, RowInv, Untouched, Statuses
  <2>3. QED
    BY <1>3, <2>1, <2>2, FramePlacement
<1>8. LateInv'
  BY <1>0, <1>1, <1>3, <1>4, <1>5, FrameLate, EntityAssignments
  DEF Create, CreateVm, SagaInv, TypeOK, StoreTypeOK, RowInv, GivenUp, Saves, Statuses
<1>12. \A t \in Servers : SeenInv(t)'
  <2>1. pc'[s] \notin Completed \cup {"lost"}
    BY DEF Create, SagaInv, TypeOK, Completed
  <2>2. \A r \in late' : r \in late \/ r[2] = s
    BY DEF Create
  <2>3. QED
    BY <1>3, <1>5, <2>1, <2>2, FrameSeen, Unseen
<1>9. QED
  BY <1>2, <1>3, <1>4, <1>5, <1>6, <1>7, <1>8, <1>12, FrameServer DEF SagaInv

\* The sizes change, the owner does not; the entity names the slot.
LEMMA ConfigureKeeps ==
    ASSUME SagaInv, NEW s \in Servers, Configure(s)
    PROVE  SagaInv'
<1>1. ent[s] \in Row /\ ent[s] # None
  BY NoneAssumption DEF Configure, SagaInv, EntityInv, TypeOK
<1>0. /\ Target(s) \in Slots /\ vms[Target(s)] \in VM /\ vms[Target(s)] # None /\ vms[Target(s)].owner = s
  BY <1>1, TargetIsSlot
  DEF Configure, SagaInv, EntityInv, VmInv, OwnVm, Named, NamedSlot, Target, SlotOf, TypeOK, StoreTypeOK
<1>10. VmidOf[s] \in VmIds /\ VmidOf[s] # None
  BY VmidAssumption, NoneAssumption
<1>11. /\ ent'[s] = WithExt(ent[s], VmidOf[s])
       /\ ent'[s] \in Row /\ ent'[s].ext = VmidOf[s]
       /\ ent'[s].host = ent[s].host /\ ent'[s].status = ent[s].status
       /\ ent'[s].cpu = ent[s].cpu /\ ent'[s].disk = ent[s].disk
  BY <1>1, <1>10, EntityAssignments DEF Configure, SagaInv, TypeOK
<1>2. TypeOK'
  BY <1>0, <1>1, <1>10, <1>11, EntityAssignments, SizesAssigned, NewVmIsVm, VmidAssumption, PlanAssumption
  DEF Configure, SagaInv, TypeOK, StoreTypeOK, Statuses, Saves, Calls, Ends
<1>3. OthersKept(s) /\ OthersVmsKept(s)
    <2>1. OthersKept(s)
    BY DEF Configure, SagaInv, TypeOK, StoreTypeOK, OthersKept
  <2>2. OthersVmsKept(s)
    BY <1>0, <1>1, <1>10, <1>11 DEF Configure, SagaInv, TypeOK, StoreTypeOK, OthersVmsKept
  <2>3. QED
    BY <2>1, <2>2
<1>4. EntityInv(s)'
  BY <1>0, <1>1, <1>10, <1>11, EntityAssignments, NoneAssumption
  DEF Configure, SagaInv, EntityInv, TypeOK, Named, Statuses, Saves
<1>5. RowInv(s)'
  BY <1>0, <1>1, <1>10, <1>11, <1>2, EntityAssignments, NoneAssumption
  DEF Configure, SagaInv, RowInv, Completed, EntityInv, TypeOK, StoreTypeOK, Saves, Building, Statuses
<1>6. VmInv(s)'
    <2>1. Target(s)' = Target(s)
    BY <1>11 DEF Configure, SagaInv, TypeOK, Target, SlotOf
  <2>2. /\ vms'[Target(s)] \in VM /\ vms'[Target(s)].owner = s
        /\ vms'[Target(s)].cpu = PlanCpu /\ vms'[Target(s)].disk = PlanDisk
    <3>1. vms'[Target(s)] = WithSizes(vms[Target(s)], PlanCpu, PlanDisk)
      BY <1>0 DEF Configure, SagaInv, TypeOK, StoreTypeOK
    <3>2. PlanCpu \in Nat /\ PlanDisk \in Nat
      BY PlanAssumption
    <3>3. /\ WithSizes(vms[Target(s)], PlanCpu, PlanDisk) \in VM
          /\ WithSizes(vms[Target(s)], PlanCpu, PlanDisk).owner = vms[Target(s)].owner
          /\ WithSizes(vms[Target(s)], PlanCpu, PlanDisk).cpu = PlanCpu
          /\ WithSizes(vms[Target(s)], PlanCpu, PlanDisk).disk = PlanDisk
      BY <1>0, <3>2, SizesAssigned, Zenon
    <3>4. QED
      BY <1>0, <3>1, <3>3, Zenon
  <2>3. pc'[s] = "password"
    BY DEF Configure, SagaInv, TypeOK
  <2>4. QED
    BY <2>1, <2>2, <2>3, NoneAssumption DEF VmInv, OwnVm
<1>7. PlacementInv'
    <2>1. ASSUME NEW x \in Slots
        PROVE  \/ vms'[x] = None
               \/ vms'[x] = vms[x]
               \/ vms'[x].owner = s /\ x = Target(s) /\ pc'[s] \notin Untouched
    BY <1>0, <1>1, <1>10, <1>11, SizesAssigned, NewVmIsVm, PlanAssumption
    DEF Configure, SagaInv, TypeOK, StoreTypeOK, Untouched
  <2>2. /\ pc[s] \notin Untouched => pc'[s] \notin Untouched
        /\ pc'[s] \notin Untouched => db'[s] # None /\ ent'[s].host = ent[s].host
    BY <1>0, <1>1, <1>10, <1>11, EntityAssignments, VmidAssumption
    DEF Configure, SagaInv, TypeOK, RowInv, Untouched, Statuses
  <2>3. QED
    BY <1>3, <2>1, <2>2, FramePlacement
<1>8. LateInv'
  BY <1>0, <1>1, <1>10, <1>11, <1>3, <1>4, <1>5, FrameLate, EntityAssignments
  DEF Configure, SagaInv, TypeOK, StoreTypeOK, RowInv, GivenUp, Saves, Statuses
<1>12. \A t \in Servers : SeenInv(t)'
  <2>1. pc'[s] \notin Completed \cup {"lost"}
    BY DEF Configure, SagaInv, TypeOK, Completed
  <2>2. \A r \in late' : r \in late \/ r[2] = s
    BY DEF Configure
  <2>3. QED
    BY <1>3, <1>5, <2>1, <2>2, FrameSeen, Unseen
<1>9. QED
  BY <1>2, <1>3, <1>4, <1>5, <1>6, <1>7, <1>8, <1>12, FrameServer DEF SagaInv

\* The VM stays where it is, sized or not.
LEMMA ConfigureFailsKeeps ==
    ASSUME SagaInv, NEW s \in Servers, NEW handler \in Handlers, NEW applied \in BOOLEAN, ConfigureFails(s, handler, applied)
    PROVE  SagaInv'
<1>1. ent[s] \in Row /\ ent[s] # None
  BY NoneAssumption DEF ConfigureFails, SagaInv, EntityInv, TypeOK
<1>0. /\ Target(s) \in Slots /\ vms[Target(s)] \in VM /\ vms[Target(s)] # None /\ vms[Target(s)].owner = s
  BY <1>1, TargetIsSlot
  DEF ConfigureFails, Caught, Handlers, SagaInv, EntityInv, VmInv, OwnVm, Named, NamedSlot, Target, SlotOf, TypeOK, StoreTypeOK
<1>2. TypeOK'
  BY <1>0, <1>1, EntityAssignments, SizesAssigned, NewVmIsVm, VmidAssumption, PlanAssumption
  DEF ConfigureFails, Caught, Handlers, SagaInv, TypeOK, StoreTypeOK, Statuses, Saves, Calls, Ends
<1>3. OthersKept(s) /\ OthersVmsKept(s)
    <2>1. OthersKept(s)
    BY DEF ConfigureFails, Caught, Handlers, SagaInv, TypeOK, StoreTypeOK, OthersKept
  <2>2. OthersVmsKept(s)
    BY <1>0, <1>1 DEF ConfigureFails, Caught, Handlers, SagaInv, TypeOK, StoreTypeOK, OthersVmsKept
  <2>3. QED
    BY <2>1, <2>2
<1>4. EntityInv(s)'
  BY <1>0, <1>1, EntityAssignments, NoneAssumption
  DEF ConfigureFails, Caught, Handlers, SagaInv, EntityInv, TypeOK, Named, Statuses, Saves
<1>5. RowInv(s)'
  BY <1>0, <1>1, <1>2, EntityAssignments, NoneAssumption
  DEF ConfigureFails, Caught, Handlers, SagaInv, RowInv, Completed, EntityInv, TypeOK, StoreTypeOK, Saves, Building, Statuses
<1>6. VmInv(s)'
    <2>1. pc'[s] \in {"delay", "rollback"} /\ ent'[s].ext = None
    BY <1>1, EntityAssignments
    DEF ConfigureFails, Caught, Handlers, SagaInv, EntityInv, TypeOK, Statuses
  <2>2. QED
    BY <2>1 DEF VmInv, Named
<1>7. PlacementInv'
    <2>1. ASSUME NEW x \in Slots
        PROVE  \/ vms'[x] = None
               \/ vms'[x] = vms[x]
               \/ vms'[x].owner = s /\ x = Target(s) /\ pc'[s] \notin Untouched
    BY <1>0, <1>1, SizesAssigned, NewVmIsVm, PlanAssumption
    DEF ConfigureFails, Caught, Handlers, SagaInv, TypeOK, StoreTypeOK, Untouched
  <2>2. /\ pc[s] \notin Untouched => pc'[s] \notin Untouched
        /\ pc'[s] \notin Untouched => db'[s] # None /\ ent'[s].host = ent[s].host
    BY <1>0, <1>1, EntityAssignments, VmidAssumption
    DEF ConfigureFails, Caught, Handlers, SagaInv, TypeOK, RowInv, Untouched, Statuses
  <2>3. QED
    BY <1>3, <2>1, <2>2, FramePlacement
<1>8. LateInv'
  BY <1>0, <1>1, <1>3, <1>4, <1>5, FrameLate, EntityAssignments
  DEF ConfigureFails, Caught, Handlers, SagaInv, TypeOK, StoreTypeOK, RowInv, GivenUp, Saves, Statuses
<1>12. \A t \in Servers : SeenInv(t)'
  <2>1. pc'[s] \notin Completed \cup {"lost"}
    BY DEF ConfigureFails, Caught, Handlers, SagaInv, TypeOK, Completed
  <2>2. \A r \in late' : r \in late \/ r[2] = s
    BY DEF ConfigureFails
  <2>3. QED
    BY <1>3, <1>5, <2>1, <2>2, FrameSeen, Unseen
<1>9. QED
  BY <1>2, <1>3, <1>4, <1>5, <1>6, <1>7, <1>8, <1>12, FrameServer DEF SagaInv

\* At most the password of its own VM changes.
LEMMA SetPasswordKeeps ==
    ASSUME SagaInv, NEW s \in Servers, NEW applied \in BOOLEAN, SetPassword(s, applied)
    PROVE  SagaInv'
<1>1. ent[s] \in Row /\ ent[s] # None
  BY NoneAssumption DEF SetPassword, SagaInv, EntityInv, TypeOK
<1>0. /\ Target(s) \in Slots /\ NamedSlot(s) = Target(s)
      /\ vms[Target(s)] \in VM /\ vms[Target(s)] # None /\ vms[Target(s)].owner = s
  BY <1>1, TargetIsSlot
  DEF SetPassword, SagaInv, EntityInv, VmInv, OwnVm, Named, NamedSlot, Target, SlotOf, TypeOK, StoreTypeOK
<1>2. TypeOK'
  BY <1>0, <1>1, EntityAssignments, VmAssignments, NewVmIsVm, VmidAssumption, PlanAssumption
  DEF SetPassword, SagaInv, TypeOK, StoreTypeOK, Statuses, Saves, Calls, Ends
<1>3. OthersKept(s) /\ OthersVmsKept(s)
    <2>1. OthersKept(s)
    BY DEF SetPassword, SagaInv, TypeOK, StoreTypeOK, OthersKept
  <2>2. OthersVmsKept(s)
    BY <1>0, <1>1 DEF SetPassword, SagaInv, TypeOK, StoreTypeOK, OthersVmsKept
  <2>3. QED
    BY <2>1, <2>2
<1>4. EntityInv(s)'
  BY <1>0, <1>1, EntityAssignments, NoneAssumption
  DEF SetPassword, SagaInv, EntityInv, TypeOK, Named, Statuses, Saves
<1>5. RowInv(s)'
  BY <1>0, <1>1, <1>2, EntityAssignments, NoneAssumption
  DEF SetPassword, SagaInv, RowInv, Completed, EntityInv, TypeOK, StoreTypeOK, Saves, Building, Statuses
<1>6. VmInv(s)'
    <2>1. Target(s)' = Target(s)
    BY <1>1, EntityAssignments, VmidAssumption DEF SetPassword, SagaInv, TypeOK, Target, SlotOf
  <2>2. /\ vms'[Target(s)] \in VM /\ vms'[Target(s)].owner = s
        /\ vms'[Target(s)].cpu = PlanCpu /\ vms'[Target(s)].disk = PlanDisk
    <3>1. vms[Target(s)].cpu = PlanCpu /\ vms[Target(s)].disk = PlanDisk
      BY DEF SetPassword, SagaInv, VmInv, Named
    <3>2. vms'[Target(s)] \in {vms[Target(s)], WithPw(vms[Target(s)], 1)}
      BY <1>0 DEF SetPassword, SagaInv, TypeOK, StoreTypeOK
    <3>3. QED
      BY <1>0, <3>1, <3>2, VmAssignments
  <2>3. pc'[s] = "status"
    BY DEF SetPassword, SagaInv, TypeOK
  <2>4. QED
    BY <2>1, <2>2, <2>3, NoneAssumption DEF VmInv, OwnVm
<1>7. PlacementInv'
    <2>1. ASSUME NEW x \in Slots
        PROVE  \/ vms'[x] = None
               \/ vms'[x] = vms[x]
               \/ vms'[x].owner = s /\ x = Target(s) /\ pc'[s] \notin Untouched
    BY <1>0, <1>1, VmAssignments, NewVmIsVm, PlanAssumption
    DEF SetPassword, SagaInv, TypeOK, StoreTypeOK, Untouched
  <2>2. /\ pc[s] \notin Untouched => pc'[s] \notin Untouched
        /\ pc'[s] \notin Untouched => db'[s] # None /\ ent'[s].host = ent[s].host
    BY <1>0, <1>1, EntityAssignments, VmidAssumption
    DEF SetPassword, SagaInv, TypeOK, RowInv, Untouched, Statuses
  <2>3. QED
    BY <1>3, <2>1, <2>2, FramePlacement
<1>8. LateInv'
  BY <1>0, <1>1, <1>3, <1>4, <1>5, FrameLate, EntityAssignments
  DEF SetPassword, SagaInv, TypeOK, StoreTypeOK, RowInv, GivenUp, Saves, Statuses
<1>12. \A t \in Servers : SeenInv(t)'
  <2>1. pc'[s] \notin Completed \cup {"lost"}
    BY DEF SetPassword, SagaInv, TypeOK, Completed
  <2>2. \A r \in late' : r \in late \/ r[2] = s
    BY DEF SetPassword
  <2>3. QED
    BY <1>3, <1>5, <2>1, <2>2, FrameSeen, Unseen
<1>9. QED
  BY <1>2, <1>3, <1>4, <1>5, <1>6, <1>7, <1>8, <1>12, FrameServer DEF SagaInv

\* The slot an entity names holds its own VM: no other VM is destroyed.
LEMMA RollbackDestroysKeeps ==
    ASSUME SagaInv, NEW s \in Servers, RollbackDestroys(s)
    PROVE  SagaInv'
<1>1. ent[s] \in Row /\ ent[s] # None
  BY NoneAssumption DEF RollbackDestroys, SagaInv, EntityInv, TypeOK
<1>0. /\ Target(s) \in Slots /\ NamedSlot(s) = Target(s)
      /\ vms[Target(s)] \in VM /\ vms[Target(s)] # None /\ vms[Target(s)].owner = s
  BY <1>1, TargetIsSlot
  DEF RollbackDestroys, CanDestroy, RolledBack, SagaInv, EntityInv, VmInv, OwnVm, Named, NamedSlot, Target, SlotOf, TypeOK, StoreTypeOK
<1>2. TypeOK'
  BY <1>0, <1>1, EntityAssignments, VmAssignments, NewVmIsVm, VmidAssumption, PlanAssumption
  DEF RollbackDestroys, CanDestroy, RolledBack, SagaInv, TypeOK, StoreTypeOK, Statuses, Saves, Calls, Ends
<1>3. OthersKept(s) /\ OthersVmsKept(s)
    <2>1. OthersKept(s)
    BY DEF RollbackDestroys, CanDestroy, RolledBack, SagaInv, TypeOK, StoreTypeOK, OthersKept
  <2>2. OthersVmsKept(s)
    BY <1>0, <1>1 DEF RollbackDestroys, CanDestroy, RolledBack, SagaInv, TypeOK, StoreTypeOK, OthersVmsKept
  <2>3. QED
    BY <2>1, <2>2
<1>4. EntityInv(s)'
  BY <1>0, <1>1, EntityAssignments, NoneAssumption
  DEF RollbackDestroys, CanDestroy, RolledBack, SagaInv, EntityInv, TypeOK, Named, Statuses, Saves
<1>5. RowInv(s)'
  BY <1>0, <1>1, <1>2, EntityAssignments, NoneAssumption
  DEF RollbackDestroys, CanDestroy, RolledBack, SagaInv, RowInv, Completed, EntityInv, TypeOK, StoreTypeOK, Saves, Building, Statuses
<1>6. VmInv(s)'
  BY <1>0, <1>1, EntityAssignments, VmAssignments, NewVmIsVm, PlanAssumption, NoneAssumption
  DEF RollbackDestroys, CanDestroy, RolledBack, SagaInv, VmInv, EntityInv, TypeOK, StoreTypeOK, OwnVm, Target, SlotOf, Named, Statuses
<1>7. PlacementInv'
    <2>1. ASSUME NEW x \in Slots
        PROVE  \/ vms'[x] = None
               \/ vms'[x] = vms[x]
               \/ vms'[x].owner = s /\ x = Target(s) /\ pc'[s] \notin Untouched
    BY <1>0, <1>1, VmAssignments, NewVmIsVm, PlanAssumption
    DEF RollbackDestroys, CanDestroy, RolledBack, SagaInv, TypeOK, StoreTypeOK, Untouched
  <2>2. /\ pc[s] \notin Untouched => pc'[s] \notin Untouched
        /\ pc'[s] \notin Untouched => db'[s] # None /\ ent'[s].host = ent[s].host
    BY <1>0, <1>1, EntityAssignments, VmidAssumption
    DEF RollbackDestroys, CanDestroy, RolledBack, SagaInv, TypeOK, RowInv, Untouched, Statuses
  <2>3. QED
    BY <1>3, <2>1, <2>2, FramePlacement
<1>8. LateInv'
  BY <1>0, <1>1, <1>3, <1>4, <1>5, FrameLate, EntityAssignments
  DEF RollbackDestroys, CanDestroy, RolledBack, SagaInv, TypeOK, StoreTypeOK, RowInv, GivenUp, Saves, Statuses
<1>12. \A t \in Servers : SeenInv(t)'
  <2>1. pc'[s] \notin Completed \cup {"lost"}
    BY DEF RollbackDestroys, RolledBack, SagaInv, TypeOK, Completed
  <2>2. \A r \in late' : r \in late \/ r[2] = s
    BY DEF RollbackDestroys
  <2>3. QED
    BY <1>3, <1>5, <2>1, <2>2, FrameSeen, Unseen
<1>9. QED
  BY <1>2, <1>3, <1>4, <1>5, <1>6, <1>7, <1>8, <1>12, FrameServer DEF SagaInv

\* Nothing but the saga's own control point changes.
LEMMA AnswerKeeps ==
    ASSUME SagaInv, NEW s \in Servers, Answer(s)
    PROVE  SagaInv'
<1>1. UNCHANGED <<db, hosts, vms, ent, loaded, late>>
  BY DEF Answer, storeVars
<1>2. \/ pc[s] = "accept" /\ pc'[s] = "returned"
      \/ pc[s] = "refuse" /\ pc'[s] = "errored"
  BY DEF Answer, Answering, SagaInv, TypeOK
<1>3. OthersKept(s) /\ OthersVmsKept(s)
  BY <1>1 DEF Answer, SagaInv, TypeOK, OthersKept, OthersVmsKept
<1>4. TypeOK'
  BY <1>1 DEF Answer, SagaInv, TypeOK, StoreTypeOK, Ends
<1>5. EntityInv(s) /\ RowInv(s) /\ VmInv(s) /\ SeenInv(s)
  BY DEF SagaInv
<1>6. EntityInv(s)' /\ RowInv(s)' /\ VmInv(s)'
  <2>1. OwnVm(s)' <=> OwnVm(s)
    BY <1>1 DEF OwnVm, Target, SlotOf
  <2>2. EntityInv(s)'
    BY <1>1, <1>2, <1>5 DEF EntityInv, Named, Completed
  <2>3. RowInv(s)'
    BY <1>1, <1>2, <1>5 DEF RowInv, Saves, Building, Completed
  <2>4. VmInv(s)'
    BY <1>1, <1>2, <1>5, <2>1 DEF VmInv, Named, Completed, Target, SlotOf
  <2>5. QED
    BY <2>2, <2>3, <2>4
<1>7. \A t \in Servers : SeenInv(t)'
  BY <1>1 DEF SagaInv, SeenInv, OwnVm, Target, SlotOf
<1>8. PlacementInv'
  <2>1. pc[s] \notin Untouched /\ pc'[s] \notin Untouched
    BY <1>2 DEF Untouched
  <2>2. db[s] # None
    BY <1>2, <1>5 DEF RowInv
  <2>3. QED
    BY <1>1, <1>3, <2>1, <2>2, FramePlacement
<1>9. LateInv'
  <2>1. pc[s] \in GivenUp => /\ pc[s] \notin {"raised", "lost"}
                             /\ pc'[s] \in GivenUp /\ db[s] # None
    BY <1>2, <1>5 DEF GivenUp, RowInv
  <2>2. QED
    BY <1>1, <1>3, <2>1, FrameLate
<1>10. QED
  BY <1>3, <1>4, <1>6, <1>7, <1>8, <1>9, FrameServer DEF SagaInv

(***************************************************************************)
(* Steps of the surroundings                                               *)
(***************************************************************************)

\* A create served late fills an empty slot for a request that gave up.
LEMMA LateCreateKeeps ==
    ASSUME SagaInv, NEW s \in Servers, NEW h \in Hosts, NEW cloned \in BOOLEAN,
           LateCreate(s, h, cloned)
    PROVE  SagaInv'
<1>1. /\ db[s] # None /\ pc[s] \in GivenUp /\ h = ent[s].host
  BY DEF LateCreate, SagaInv, LateInv, Accounted
<1>2. ent[s] \in Row /\ ent[s] # None
  BY <1>1 DEF SagaInv, TypeOK, EntityInv, GivenUp
<1>3. Target(s) \in Slots /\ SlotOf(s, h) = Target(s) /\ vms[Target(s)] = None
  BY <1>1, <1>2, TargetIsSlot DEF LateCreate, CreateVm, SagaInv, Target
<1>4. /\ vms' = [vms EXCEPT ![Target(s)] = NewVm(s, cloned)]
      /\ UNCHANGED <<db, hosts, pc, ent, loaded>> /\ late' \in SUBSET late
  BY <1>3 DEF LateCreate, CreateVm
<1>5. TypeOK'
  BY <1>3, <1>4, NewVmIsVm DEF SagaInv, TypeOK, StoreTypeOK
<1>6. OthersKept(s)
  BY <1>4 DEF OthersKept
<1>7. OthersVmsKept(s)
  BY <1>3, <1>4 DEF OthersVmsKept, SagaInv, TypeOK, StoreTypeOK
<1>8. EntityInv(s)' /\ RowInv(s)'
  BY <1>4 DEF SagaInv, EntityInv, RowInv
<1>9. VmInv(s)'
  <2>1. ~OwnVm(s)
    BY <1>3 DEF OwnVm
  <2>2. pc[s] \notin Named \cup {"config"} /\ (pc[s] = "rollback" => ent[s].ext = None)
    BY <2>1 DEF SagaInv, VmInv
  <2>3. QED
    BY <1>4, <2>2 DEF VmInv
<1>10. PlacementInv'
  <2>1. ASSUME NEW x \in Slots
        PROVE  \/ vms'[x] = None
               \/ vms'[x] = vms[x]
               \/ vms'[x].owner = s /\ x = Target(s) /\ pc'[s] \notin Untouched
    BY <1>1, <1>3, <1>4, NewVmIsVm DEF SagaInv, TypeOK, StoreTypeOK, Untouched, GivenUp
  <2>2. QED
    BY <1>1, <1>4, <1>6, <2>1, FramePlacement
<1>11. LateInv'
  <2> SUFFICES ASSUME NEW r \in late PROVE Accounted(r)'
    BY <1>4 DEF LateInv
  <2>1. Accounted(r)
    BY DEF SagaInv, LateInv
  <2>2. OwnVm(r[2]) => OwnVm(r[2])'
    BY <1>3, <1>4 DEF OwnVm, Target, SlotOf, SagaInv, TypeOK, StoreTypeOK
  <2>3. QED
    BY <1>4, <2>1, <2>2 DEF Accounted
<1>12. \A u \in Servers : SeenInv(u)'
  <2>1. ~Published(db[s])
    BY <1>3 DEF SagaInv, SeenInv, OwnVm
  <2>2. QED
    BY <1>4, <1>6, <1>7, <2>1, FrameSeen DEF SeenInv
<1>13. QED
  BY <1>5, <1>6, <1>7, <1>8, <1>9, <1>10, <1>11, <1>12, FrameServer DEF SagaInv

\* A destroy served late removes the VM of the request that sent it.
LEMMA LateDestroyKeeps ==
    ASSUME SagaInv, NEW s \in Servers, NEW h \in Hosts, LateDestroy(s, h)
    PROVE  SagaInv'
<1>1. db[s] # None /\ pc[s] \in {"raised", "lost"} /\ OwnVm(s) /\ h = ent[s].host
  BY DEF LateDestroy, SagaInv, LateInv, Accounted
<1>2. ent[s] \in Row /\ ent[s] # None
  BY <1>1 DEF SagaInv, TypeOK, EntityInv
<1>3. Target(s) \in Slots /\ SlotOf(s, h) = Target(s)
  BY <1>1, <1>2, TargetIsSlot DEF SagaInv, Target
<1>4. /\ vms' = [vms EXCEPT ![Target(s)] = None]
      /\ UNCHANGED <<db, hosts, pc, ent, loaded>>
      /\ late' = late \ {<<"destroy", s, h>>}
  BY <1>3 DEF LateDestroy
<1>5. TypeOK'
  BY <1>3, <1>4 DEF SagaInv, TypeOK, StoreTypeOK
<1>6. OthersKept(s)
  BY <1>4 DEF OthersKept
<1>7. OthersVmsKept(s)
  BY <1>1, <1>3, <1>4 DEF OthersVmsKept, OwnVm, SagaInv, TypeOK, StoreTypeOK
<1>8. EntityInv(s)' /\ RowInv(s)'
  BY <1>4 DEF SagaInv, EntityInv, RowInv
<1>9. VmInv(s)'
  BY <1>1, <1>4 DEF VmInv, Named
<1>10. PlacementInv'
  <2>1. \A x \in Slots : vms'[x] = None \/ vms'[x] = vms[x]
    BY <1>4 DEF SagaInv, TypeOK, StoreTypeOK
  <2>2. QED
    BY <1>1, <1>4, <1>6, <2>1, FramePlacement
<1>11. LateInv'
  <2> SUFFICES ASSUME NEW r \in late, r # <<"destroy", s, h>> PROVE Accounted(r)'
    BY <1>4 DEF LateInv
  <2>1. Accounted(r)
    BY DEF SagaInv, LateInv
  <2>2. ASSUME r[1] = "destroy" PROVE r[2] \in Servers /\ r[2] # s
    BY <1>1, <2>1, <2>2 DEF Accounted, SagaInv, TypeOK, Requests
  <2>3. ASSUME r[1] = "destroy" PROVE OwnVm(r[2])'
    <3>1. OwnVm(r[2]) /\ Target(r[2])' = Target(r[2]) /\ ent[r[2]] # None
      BY <1>4, <2>1, <2>3 DEF Accounted, Target, SlotOf, SagaInv, EntityInv, TypeOK, Requests
    <3>2. vms'[Target(r[2])] = vms[Target(r[2])]
      BY <1>7, <2>2, <2>3, <3>1, TargetIsSlot DEF OthersVmsKept, OwnVm, SagaInv
    <3>3. QED
      BY <3>1, <3>2 DEF OwnVm
  <2>4. QED
    BY <1>4, <2>1, <2>3 DEF Accounted
<1>12. \A u \in Servers : SeenInv(u)'
  <2>1. ~Published(db[s])
    BY DEF LateDestroy, SagaInv, SeenInv
  <2>2. QED
    BY <1>4, <1>6, <1>7, <2>1, FrameSeen DEF SeenInv
<1>13. QED
  BY <1>5, <1>6, <1>7, <1>8, <1>9, <1>10, <1>11, <1>12, FrameServer DEF SagaInv

\* A crash strands every open request where it is.
LEMMA CrashKeeps ==
    ASSUME SagaInv, NEW sent \in SUBSET Unanswered, Crash(sent)
    PROVE  SagaInv'
<1>1. ASSUME NEW t \in Servers
      PROVE  /\ pc'[t] = IF t \in InFlight THEN "lost" ELSE pc[t]
             /\ loaded'[t] = None /\ ent'[t] = ent[t] /\ db'[t] = db[t]
  BY DEF Crash, storeVars
<1>2. vms' = vms /\ hosts' = hosts /\ db' = db /\ ent' = ent
  BY DEF Crash, storeVars
<1>3. ASSUME NEW t \in InFlight, pc[t] = "create" \/ (pc[t] = "rollback" /\ CanDestroy(t))
      PROVE  /\ ent[t] \in Row /\ db[t] # None
             /\ pc[t] = "rollback" => OwnVm(t)
  BY <1>3, NoneAssumption DEF InFlight, SagaInv, TypeOK, EntityInv, RowInv, VmInv, CanDestroy
<1>4. ASSUME NEW r \in Unanswered
      PROVE  /\ r \in Requests
             /\ r[2] \in InFlight /\ r[3] = ent[r[2]].host /\ db[r[2]] # None
             /\ r[1] = "destroy" => OwnVm(r[2])
  <2>1. PICK t \in InFlight :
           \/ pc[t] = "create" /\ r = <<"create", t, ent[t].host>>
           \/ pc[t] = "rollback" /\ CanDestroy(t) /\ r = <<"destroy", t, ent[t].host>>
    BY DEF Unanswered
  <2>2. ent[t].host \in Hosts /\ t \in Servers
    BY <1>3, <2>1 DEF Row, InFlight
  <2>3. QED
    BY <1>3, <2>1, <2>2 DEF Requests
<1>5. TypeOK'
  <2>1. pc' \in [Servers -> {"new", "insert"} \cup Saves \cup Calls \cup Answering \cup Ends]
    BY DEF Crash, Ends, SagaInv, TypeOK
  <2>2. late' \in SUBSET Requests
    BY <1>4 DEF Crash, SagaInv, TypeOK
  <2>3. QED
    BY <1>2, <2>1, <2>2 DEF Crash, SagaInv, TypeOK, StoreTypeOK
<1>6. ASSUME NEW t \in Servers PROVE EntityInv(t)' /\ RowInv(t)' /\ VmInv(t)'
  <2>1. CASE t \in InFlight
    BY <1>1, <1>2, <2>1
    DEF SagaInv, EntityInv, RowInv, VmInv, InFlight, Named, Completed, Building, Ends
  <2>2. CASE t \notin InFlight
    BY <1>1, <1>2, <2>2 DEF SagaInv, EntityInv, RowInv, VmInv, OwnVm, Target, SlotOf, Named
  <2>3. QED
    BY <2>1, <2>2
<1>7. PlacementInv'
  BY <1>1, <1>2 DEF SagaInv, PlacementInv, TypeOK, StoreTypeOK, VM, Target, SlotOf, Untouched
<1>8. LateInv'
  <2> SUFFICES ASSUME NEW r \in late \cup Unanswered PROVE Accounted(r)'
    BY DEF Crash, LateInv
  <2>1. CASE r \in Unanswered
    BY <1>1, <1>2, <1>4, <2>1 DEF Accounted, GivenUp, InFlight, OwnVm, Target, SlotOf
  <2>2. CASE r \in late
    <3>1. Accounted(r) /\ r[2] \in Servers
      BY <2>2 DEF SagaInv, LateInv, TypeOK, Requests
    <3>2. QED
      BY <1>1, <1>2, <3>1 DEF Accounted, GivenUp, InFlight, Ends, OwnVm, Target, SlotOf
  <2>3. QED
    BY <2>1, <2>2
<1>9. ASSUME NEW t \in Servers PROVE SeenInv(t)'
  <2>1. \A r \in Unanswered : r[2] = t => ~Published(db[t])
    <3> SUFFICES ASSUME NEW r \in Unanswered, r[2] = t PROVE ~Published(db[t])
      OBVIOUS
    <3>1. pc[t] \in {"create", "rollback"}
      BY DEF Unanswered, InFlight
    <3>2. QED
      BY <3>1 DEF SagaInv, RowInv, Completed
  <2>2. SeenInv(t) /\ db'[t] = db[t] /\ (OwnVm(t)' <=> OwnVm(t))
    BY <1>2 DEF SagaInv, OwnVm, Target, SlotOf
  <2>3. QED
    BY <1>2, <2>1, <2>2 DEF Crash, SeenInv
<1>10. QED
  BY <1>5, <1>6, <1>7, <1>8, <1>9 DEF SagaInv

\* Hosts come and go: no part of the invariant speaks of them.
LEMMA HostsKeep ==
    ASSUME SagaInv, NEW h \in Hosts, AddHost(h) \/ DeleteHost(h), UNCHANGED sagaVars
    PROVE  SagaInv'
<1>1. UNCHANGED <<db, vms, pc, ent, loaded, late>> /\ hosts' \in SUBSET Hosts
  BY DEF AddHost, DeleteHost, sagaVars, SagaInv, TypeOK, StoreTypeOK
<1>2. TypeOK'
  BY <1>1 DEF SagaInv, TypeOK, StoreTypeOK
<1>3. \A t \in Servers : EntityInv(t)' /\ RowInv(t)' /\ VmInv(t)'
  BY <1>1 DEF SagaInv, EntityInv, RowInv, VmInv, OwnVm, Target, SlotOf
<1>4. PlacementInv'
  BY <1>1 DEF SagaInv, PlacementInv, Target, SlotOf
<1>5. LateInv'
  BY <1>1 DEF SagaInv, LateInv, Accounted, OwnVm, Target, SlotOf
<1>6. \A t \in Servers : SeenInv(t)'
  BY <1>1 DEF SagaInv, SeenInv, OwnVm, Target, SlotOf
<1>7. QED
  BY <1>2, <1>3, <1>4, <1>5, <1>6 DEF SagaInv

\* A VM that changes its run state keeps its slot, its owner and its sizes.
LEMMA DriftKeeps ==
    ASSUME SagaInv, NEW x \in Slots, NEW run \in RunStates, Drift(x, run), UNCHANGED sagaVars
    PROVE  SagaInv'
<1>1. UNCHANGED <<db, hosts, pc, ent, loaded, late>>
  BY DEF Drift, sagaVars
<1>2. vms[x] \in VM /\ vms[x] # None /\ vms' = [vms EXCEPT ![x] = WithRun(vms[x], run)]
  BY DEF Drift, SagaInv, TypeOK, StoreTypeOK
<1>3. /\ WithRun(vms[x], run) \in VM /\ WithRun(vms[x], run) # None
      /\ WithRun(vms[x], run).owner = vms[x].owner
      /\ WithRun(vms[x], run).cpu = vms[x].cpu
      /\ WithRun(vms[x], run).disk = vms[x].disk
  BY <1>2, VmAssignments, NoneAssumption
<1>4. ASSUME NEW y \in Slots
      PROVE  /\ vms'[y] = None <=> vms[y] = None
             /\ vms[y] # None => /\ vms'[y].owner = vms[y].owner
                                /\ vms'[y].cpu = vms[y].cpu
                                /\ vms'[y].disk = vms[y].disk
  BY <1>2, <1>3 DEF SagaInv, TypeOK, StoreTypeOK
<1>5. TypeOK'
  BY <1>1, <1>2, <1>3 DEF SagaInv, TypeOK, StoreTypeOK
<1>6. ASSUME NEW t \in Servers, ent[t] # None
      PROVE  Target(t)' = Target(t) /\ OwnVm(t)' = OwnVm(t) /\ Target(t) \in Slots
  <2>1. Target(t)' = Target(t) /\ Target(t) \in Slots
    BY <1>1, <1>6, TargetIsSlot DEF SagaInv, Target, SlotOf
  <2>2. QED
    BY <1>4, <2>1 DEF OwnVm
<1>7. ASSUME NEW t \in Servers PROVE EntityInv(t)' /\ RowInv(t)' /\ VmInv(t)'
  <2>1. EntityInv(t)' /\ RowInv(t)'
    BY <1>1 DEF SagaInv, EntityInv, RowInv
  <2>2. VmInv(t) /\ (pc[t] # "new" => ent[t] # None)
    BY DEF SagaInv, EntityInv
  <2>3. VmInv(t)'
    BY <1>1, <1>4, <1>6, <2>2 DEF VmInv, OwnVm, Named
  <2>4. QED
    BY <2>1, <2>3
<1>8. PlacementInv'
  BY <1>1, <1>4 DEF SagaInv, PlacementInv, Target, SlotOf
<1>9. LateInv'
  <2> SUFFICES ASSUME NEW r \in late PROVE Accounted(r)'
    BY <1>1 DEF LateInv
  <2>1. Accounted(r) /\ r[2] \in Servers /\ ent[r[2]] # None
    BY DEF SagaInv, LateInv, TypeOK, Requests, Accounted, RowInv
  <2>2. QED
    BY <1>1, <1>6, <2>1 DEF Accounted
<1>10. ASSUME NEW t \in Servers PROVE SeenInv(t)'
  <2>1. SeenInv(t) /\ (db[t] # None => ent[t] # None)
    BY DEF SagaInv, RowInv
  <2>2. QED
    BY <1>1, <1>6, <2>1 DEF SeenInv, Published
<1>11. QED
  BY <1>5, <1>7, <1>8, <1>9, <1>10 DEF SagaInv

(***************************************************************************)
(* The invariant                                                           *)
(***************************************************************************)

\* Before the first request the table and the hosts are empty.
LEMMA InitInv == Init => SagaInv
<1> SUFFICES ASSUME Init PROVE SagaInv
  OBVIOUS
<1>1. TypeOK
  BY DEF Init, StoreInit, TypeOK, StoreTypeOK
<1>2. ASSUME NEW s \in Servers PROVE EntityInv(s) /\ RowInv(s) /\ VmInv(s) /\ SeenInv(s)
  BY DEF Init, StoreInit, EntityInv, RowInv, Published, VmInv, SeenInv, Named, Completed, Building
<1>3. PlacementInv /\ LateInv
  BY DEF Init, StoreInit, PlacementInv, LateInv
<1>4. QED
  BY <1>1, <1>2, <1>3 DEF SagaInv

\* Every call of a saga keeps the invariant.
LEMMA SagaStepKeeps ==
    ASSUME SagaInv, NEW s \in Servers, SagaStep(s)
    PROVE  SagaInv'
<1>1. CASE Insert(s)
  BY <1>1, InsertKeeps
<1>2. CASE InsertFails(s)
  BY <1>2, InsertFailsKeeps
<1>3. CASE OpenSession(s)
  BY <1>3, OpenSessionKeeps
<1>4. CASE Commit(s)
  BY <1>4, CommitKeeps
<1>5. CASE UpdateFails(s)
  BY <1>5, UpdateFailsKeeps
<1>6. CASE \E cloned \in BOOLEAN : Create(s, cloned)
  BY <1>6, CreateKeeps
<1>7. CASE \E handler \in Handlers, sent \in BOOLEAN : CreateFails(s, handler, sent)
  BY <1>7, CreateFailsKeeps
<1>8. CASE Configure(s)
  BY <1>8, ConfigureKeeps
<1>9. CASE \E handler \in Handlers, applied \in BOOLEAN : ConfigureFails(s, handler, applied)
  BY <1>9, ConfigureFailsKeeps
<1>10. CASE \E applied \in BOOLEAN : SetPassword(s, applied)
  BY <1>10, SetPasswordKeeps
<1>11. CASE ReadStatus(s)
  BY <1>11, ReadStatusKeeps
<1>12. CASE RollbackSkips(s)
  BY <1>12, RollbackSkipsKeeps
<1>13. CASE RollbackDestroys(s)
  BY <1>13, RollbackDestroysKeeps
<1>14. CASE \E sent \in BOOLEAN : RollbackFails(s, sent)
  BY <1>14, RollbackFailsKeeps
<1>15. CASE Answer(s)
  BY <1>15, AnswerKeeps
<1>16. QED
  BY <1>1, <1>2, <1>3, <1>4, <1>5, <1>6, <1>7, <1>8, <1>9, <1>10, <1>11, <1>12, <1>13, <1>14,
     <1>15
  DEF SagaStep

\* Every step of the system keeps the invariant.
LEMMA NextKeeps == SagaInv /\ [Next]_vars => SagaInv'
<1> SUFFICES ASSUME SagaInv, [Next]_vars PROVE SagaInv'
  OBVIOUS
<1>1. CASE \E s \in Servers, h \in Hosts : Resolve(s, h)
  BY <1>1, ResolveKeeps
<1>2. CASE \E s \in Servers : SagaStep(s)
  BY <1>2, SagaStepKeeps
<1>3. CASE \E sent \in SUBSET Unanswered : Crash(sent)
  BY <1>3, CrashKeeps
<1>4. CASE Surroundings
  <2>1. CASE \E s \in Servers, h \in Hosts, cloned \in BOOLEAN : LateCreate(s, h, cloned)
    BY <2>1, LateCreateKeeps
  <2>2. CASE \E s \in Servers, h \in Hosts : LateDestroy(s, h)
    BY <2>2, LateDestroyKeeps
  <2>3. CASE \E h \in Hosts : (AddHost(h) \/ DeleteHost(h)) /\ UNCHANGED sagaVars
    BY <2>3, HostsKeep
  <2>4. CASE \E x \in Slots, run \in RunStates : Drift(x, run) /\ UNCHANGED sagaVars
    BY <2>4, DriftKeeps
  <2>5. QED
    BY <1>4, <2>1, <2>2, <2>3, <2>4 DEF Surroundings
<1>5. CASE UNCHANGED vars
  <2>1. UNCHANGED <<db, hosts, vms, pc, ent, loaded, late>>
    BY <1>5 DEF vars, storeVars, sagaVars
  <2>2. TypeOK'
    BY <2>1 DEF SagaInv, TypeOK, StoreTypeOK
  <2>3. \A t \in Servers : EntityInv(t)' /\ RowInv(t)' /\ VmInv(t)'
    BY <2>1 DEF SagaInv, EntityInv, RowInv, VmInv, OwnVm, Target, SlotOf
  <2>4. PlacementInv' /\ LateInv'
    BY <2>1 DEF SagaInv, PlacementInv, LateInv, Accounted, OwnVm, Target, SlotOf
  <2>5. \A t \in Servers : SeenInv(t)'
    BY <2>1 DEF SagaInv, SeenInv, OwnVm, Target, SlotOf
  <2>6. QED
    BY <2>2, <2>3, <2>4, <2>5 DEF SagaInv
<1>6. QED
  BY <1>1, <1>2, <1>3, <1>4, <1>5 DEF Next

\* Each part of SagaInv survives every step, from an empty table on.
THEOREM SagaInvariant == Spec => []SagaInv
BY InitInv, NextKeeps, PTL DEF Spec

\* Rows, VMs, entities and abandoned requests always have their shape: in
\* particular every external_id is one a server id derives.
THEOREM TypeCorrect == Spec => []TypeOK
<1>1. SagaInv => TypeOK
  BY DEF SagaInv
<1>2. QED
  BY <1>1, SagaInvariant, PTL

\* The row of a complete request names its sized VM.
LEMMA CompletedRow ==
    ASSUME SagaInv, NEW s \in Servers, pc[s] \in Completed
    PROVE  /\ NamesOwnVm(db[s], s)
           /\ vms[<<db[s].host, db[s].ext>>].cpu = db[s].cpu
           /\ vms[<<db[s].host, db[s].ext>>].disk = db[s].disk
<1>1. EntityInv(s) /\ RowInv(s) /\ VmInv(s)
  BY DEF SagaInv
<1>2. db[s] = ent[s] /\ ent[s] # None /\ ent[s].ext = VmidOf[s] /\ OwnVm(s)
  BY <1>1 DEF EntityInv, RowInv, VmInv, Named, Completed
<1>3. VmidOf[s] # None
  BY VmidAssumption, NoneAssumption
<1>4. ent[s].cpu = vms[Target(s)].cpu /\ ent[s].disk = vms[Target(s)].disk
  BY <1>1, <1>2 DEF EntityInv, VmInv, Named, Completed
<1>5. QED
  BY <1>2, <1>3, <1>4 DEF NamesOwnVm, OwnVm, Target, SlotOf

\* A row that shows an external_id and no failure names a VM of its own, for
\* any number of requests and any collision of identifiers.
THEOREM PublishedVms == Spec => []PublishedVmExists
<1>1. SagaInv => PublishedVmExists
  <2> SUFFICES ASSUME SagaInv, NEW s \in Servers, Published(db[s]) PROVE NamesOwnVm(db[s], s)
    BY DEF PublishedVmExists
  <2>1. db[s].host = ent[s].host /\ db[s].ext = VmidOf[s] /\ db[s].ext # None /\ OwnVm(s)
    BY DEF SagaInv, RowInv, SeenInv, Published
  <2>2. QED
    BY <2>1 DEF NamesOwnVm, OwnVm, Target, SlotOf
<1>2. QED
  BY <1>1, SagaInvariant, PTL

\* Success is answered for a VM of the ordered size that the row names.
THEOREM AcceptedOrders == Spec => []AcceptedAsOrdered
<1>1. SagaInv => AcceptedAsOrdered
  BY CompletedRow DEF AcceptedAsOrdered, Completed
<1>2. QED
  BY <1>1, SagaInvariant, PTL

\* No VM, present or still to come from an abandoned request, lacks a row.
THEOREM VmsHaveRows == Spec => []EveryVmHasRow
<1>1. SagaInv => EveryVmHasRow
  <2> SUFFICES ASSUME SagaInv PROVE EveryVmHasRow
    OBVIOUS
  <2>1. ASSUME NEW x \in Slots, vms[x] # None
        PROVE  db[vms[x].owner] # None /\ db[vms[x].owner].host = x[1]
    <3>1. vms[x].owner \in Servers
      BY <2>1 DEF SagaInv, TypeOK, StoreTypeOK, VM
    <3>2. QED
      BY <2>1, <3>1 DEF SagaInv, PlacementInv, RowInv, Target, SlotOf
  <2>2. ASSUME NEW r \in late PROVE db[r[2]] # None /\ db[r[2]].host = r[3]
    BY DEF SagaInv, LateInv, Accounted, RowInv, TypeOK, Requests
  <2>3. QED
    BY <2>1, <2>2 DEF EveryVmHasRow
<1>2. QED
  BY <1>1, SagaInvariant, PTL

(***************************************************************************)
(* What a step may destroy                                                 *)
(***************************************************************************)

\* A VM that was changed in place is still there.
LEMMA AssignmentsAreVms ==
    ASSUME NEW vm \in VM
    PROVE  /\ \A run \in RunStates : WithRun(vm, run) # None
           /\ WithPw(vm, 1) # None
           /\ WithSizes(vm, PlanCpu, PlanDisk) # None
           /\ \A s \in Servers, cloned \in BOOLEAN : NewVm(s, cloned) # None
<1>1. PlanCpu \in Nat /\ PlanDisk \in Nat
  BY PlanAssumption
<1>2. WithSizes(vm, PlanCpu, PlanDisk) \in VM
  BY <1>1, SizesAssigned
<1>3. QED
  BY <1>2, VmAssignments, NewVmIsVm, NoneAssumption

\* Only a rollback and an abandoned destroy empty a slot.
LEMMA DestroyStep ==
    ASSUME SagaInv, [Next]_vars, NEW x \in Slots, vms[x] # None, vms'[x] = None
    PROVE  MayLose(vms[x].owner, x)
<1>1. vms[x] \in VM /\ vms[x].owner \in Servers /\ x = Target(vms[x].owner)
  BY DEF SagaInv, TypeOK, StoreTypeOK, PlacementInv, VM
<1>2. CASE \E s \in Servers, h \in Hosts : Resolve(s, h)
  BY <1>2 DEF Resolve, storeVars
<1>3. ASSUME NEW s \in Servers, SagaStep(s) PROVE MayLose(vms[x].owner, x)
  <2>1. CASE vms' = vms
    BY <2>1
  <2>2. CASE \E cloned \in BOOLEAN : Create(s, cloned)
    BY <2>2 DEF Create, CreateVm, SagaInv, TypeOK, StoreTypeOK
  <2>3. CASE Configure(s)
    BY <1>1, <2>3, AssignmentsAreVms DEF Configure, SagaInv, TypeOK, StoreTypeOK
  <2>4. CASE \E handler \in Handlers, applied \in BOOLEAN : ConfigureFails(s, handler, applied)
    BY <1>1, <2>4, AssignmentsAreVms DEF ConfigureFails, SagaInv, TypeOK, StoreTypeOK
  <2>5. CASE \E applied \in BOOLEAN : SetPassword(s, applied)
    BY <1>1, <2>5, AssignmentsAreVms DEF SetPassword, SagaInv, TypeOK, StoreTypeOK
  <2>6. CASE RollbackDestroys(s)
    <3>1. x = NamedSlot(s)
      BY <2>6 DEF RollbackDestroys, SagaInv, TypeOK, StoreTypeOK
    <3>2. ent[s].ext = VmidOf[s] /\ OwnVm(s)
      BY <2>6, NoneAssumption
      DEF RollbackDestroys, CanDestroy, SagaInv, EntityInv, VmInv
    <3>3. vms[x].owner = s
      BY <3>1, <3>2 DEF OwnVm, NamedSlot, Target, SlotOf
    <3>4. ~Published(db[s])
      BY <2>6 DEF RollbackDestroys, SagaInv, RowInv, Completed
    <3>5. QED
      BY <2>6, <3>3, <3>4 DEF RollbackDestroys, MayLose
  <2>7. QED
    BY <1>3, <2>1, <2>2, <2>3, <2>4, <2>5, <2>6
    DEF SagaStep, Insert, InsertFails, OpenSession, Commit, UpdateFails, CreateFails,
        ReadStatus, RollbackSkips, RollbackFails, Answer, storeVars
<1>4. CASE \E sent \in SUBSET Unanswered : Crash(sent)
  BY <1>4 DEF Crash, storeVars
<1>5. CASE Surroundings
  <2>1. CASE \E s \in Servers, h \in Hosts, cloned \in BOOLEAN : LateCreate(s, h, cloned)
    BY <2>1 DEF LateCreate, CreateVm, SagaInv, TypeOK, StoreTypeOK
  <2>2. ASSUME NEW s \in Servers, NEW h \in Hosts, LateDestroy(s, h)
        PROVE  MayLose(vms[x].owner, x)
    <3>1. <<"destroy", s, h>> \in late /\ x = SlotOf(s, h)
      BY <2>2 DEF LateDestroy, SagaInv, TypeOK, StoreTypeOK
    <3>2. pc[s] \in {"raised", "lost"} /\ OwnVm(s) /\ h = ent[s].host
      BY <3>1 DEF SagaInv, LateInv, Accounted
    <3>3. vms[x].owner = s
      BY <3>1, <3>2 DEF OwnVm, Target
    <3>4. ~Published(db[s])
      BY <3>1 DEF SagaInv, SeenInv
    <3>5. QED
      BY <3>1, <3>2, <3>3, <3>4 DEF MayLose, SlotOf
  <2>3. CASE \E h \in Hosts : (AddHost(h) \/ DeleteHost(h)) /\ UNCHANGED sagaVars
    BY <2>3 DEF AddHost, DeleteHost
  <2>4. CASE \E y \in Slots, run \in RunStates : Drift(y, run) /\ UNCHANGED sagaVars
    BY <1>1, <2>4, AssignmentsAreVms DEF Drift, SagaInv, TypeOK, StoreTypeOK
  <2>5. QED
    BY <1>5, <2>1, <2>2, <2>3, <2>4 DEF Surroundings
<1>6. CASE UNCHANGED vars
  BY <1>6 DEF vars, storeVars
<1>7. QED
  BY <1>2, <1>3, <1>4, <1>5, <1>6 DEF Next

\* Only the rollback of a VM's own request, now or late, removes it, and never
\* once its row shows it, whatever identifiers collide.
THEOREM OwnDestroys == Spec => DestroysOnlyItsOwn
<1>1. SagaInv /\ [Next]_vars =>
         [\A x \in Slots : vms[x] # None /\ vms'[x] = None => MayLose(vms[x].owner, x)]_vars
  BY DestroyStep
<1>2. QED
  BY <1>1, SagaInvariant, PTL DEF Spec, DestroysOnlyItsOwn

==============================================================================
