----------------------- MODULE ProvisioningRefinement -----------------------
(***************************************************************************)
(* The saga implements OrderPromise: each of its steps is a step of the    *)
(* promise, or does not show to the customer.                              *)
(***************************************************************************)
EXTENDS Provisioning_proofs

\* How request t shows to its customer does not change.
SameView(t) ==
    Listed(t)' = Listed(t) /\ (HasVm(t)' <=> HasVm(t)) /\ Reply(t)' = Reply(t)

OthersSame(s) == \A t \in Servers : t # s => SameView(t)

(***************************************************************************)
(* The mapped variables when one order changes                             *)
(***************************************************************************)

\* The list changes for one order when one row changes.
LEMMA ListedChange ==
    ASSUME NEW s \in Servers, OthersSame(s), NEW l, Listed(s)' = l
    PROVE  [t \in Servers |-> Listed(t)]' = [[t \in Servers |-> Listed(t)] EXCEPT ![s] = l]
BY DEF OthersSame, SameView

\* The answers change for one order when one saga moves.
LEMMA ReplyChange ==
    ASSUME NEW s \in Servers, OthersSame(s), NEW r, Reply(s)' = r
    PROVE  [t \in Servers |-> Reply(t)]' = [[t \in Servers |-> Reply(t)] EXCEPT ![s] = r]
BY DEF OthersSame, SameView

\* The list depends on the table alone.
LEMMA ListedSame ==
    ASSUME NEW s \in Servers, OthersSame(s), Listed(s)' = Listed(s)
    PROVE  [t \in Servers |-> Listed(t)]' = [t \in Servers |-> Listed(t)]
BY DEF OthersSame, SameView

\* The answers depend on the sagas' control points alone.
LEMMA ReplySame ==
    ASSUME NEW s \in Servers, OthersSame(s), Reply(s)' = Reply(s)
    PROVE  [t \in Servers |-> Reply(t)]' = [t \in Servers |-> Reply(t)]
BY DEF OthersSame, SameView

\* The machines depend on the hypervisor alone.
LEMMA MachinesSame ==
    ASSUME NEW s \in Servers, OthersSame(s), HasVm(s)' <=> HasVm(s)
    PROVE  {t \in Servers : HasVm(t)}' = {t \in Servers : HasVm(t)}
BY DEF OthersSame, SameView

\* A step that changes nothing a customer sees.
LEMMA ToStutter ==
    ASSUME NEW s \in Servers, OthersSame(s), SameView(s)
    PROVE  UNCHANGED Promise!vars
BY ListedSame, ReplySame, MachinesSame DEF SameView, Promise!vars

\* A step that lists a new order.
LEMMA ToPlace ==
    ASSUME NEW s \in Servers, OthersSame(s),
           Listed(s) = "absent", Listed(s)' = "waiting",
           HasVm(s)' <=> HasVm(s), Reply(s) = "none", Reply(s)' = Reply(s)
    PROVE  Promise!Next
<1>1. Promise!Place(s)
  BY ListedChange, ReplySame, MachinesSame DEF Promise!Place
<1>2. QED
  BY <1>1 DEF Promise!Next

\* A step after which a machine exists for a listed order.
LEMMA ToBuild ==
    ASSUME NEW s \in Servers, OthersSame(s),
           Listed(s) \in {"waiting", "failed"}, Listed(s)' = Listed(s),
           HasVm(s)', Reply(s) \notin {"due", "accepted"}, Reply(s)' = Reply(s)
    PROVE  Promise!Next
<1>1. {t \in Servers : HasVm(t)}' = {t \in Servers : HasVm(t)} \cup {s}
  BY DEF OthersSame, SameView
<1>2. Promise!Build(s)
  BY <1>1, ListedSame, ReplySame DEF Promise!Build, Promise!Open
<1>3. QED
  BY <1>2 DEF Promise!Next

\* A step after which an order given up, or waiting, has no machine.
LEMMA ToRemove ==
    ASSUME NEW s \in Servers, OthersSame(s),
           Listed(s) \in {"waiting", "failed"}, Listed(s)' = Listed(s),
           ~HasVm(s)', Reply(s) \notin {"due", "accepted"}, Reply(s)' = Reply(s)
    PROVE  Promise!Next
<1>1. {t \in Servers : HasVm(t)}' = {t \in Servers : HasVm(t)} \ {s}
  BY DEF OthersSame, SameView
<1>2. Promise!Remove(s)
  BY <1>1, ListedSame, ReplySame DEF Promise!Remove, Promise!Open
<1>3. QED
  BY <1>2 DEF Promise!Next

\* A step that lists the machine, with the answer still to come.
LEMMA ToComplete ==
    ASSUME NEW s \in Servers, OthersSame(s),
           Listed(s) = "waiting", Listed(s)' \in {"live", "failed"},
           HasVm(s), HasVm(s)', Reply(s) = "none", Reply(s)' = "due"
    PROVE  Promise!Next
<1>1. Promise!Complete(s)
  BY ListedChange, ReplyChange, MachinesSame DEF Promise!Complete
<1>2. QED
  BY <1>1 DEF Promise!Next

\* A step that answers with success.
LEMMA ToAccept ==
    ASSUME NEW s \in Servers, OthersSame(s), Listed(s)' = Listed(s),
           HasVm(s)' <=> HasVm(s), Reply(s) = "due", Reply(s)' = "accepted"
    PROVE  Promise!Next
<1>1. Promise!Accept(s)
  BY ListedSame, ReplyChange, MachinesSame DEF Promise!Accept
<1>2. QED
  BY <1>1 DEF Promise!Next

\* A step that lists an order as failed.
LEMMA ToGiveUp ==
    ASSUME NEW s \in Servers, OthersSame(s),
           Listed(s) = "waiting", Listed(s)' = "failed",
           HasVm(s)' <=> HasVm(s), Reply(s) = "none", Reply(s)' = Reply(s)
    PROVE  Promise!Next
<1>1. Promise!GiveUp(s)
  BY ListedChange, ReplySame, MachinesSame DEF Promise!GiveUp
<1>2. QED
  BY <1>1 DEF Promise!Next

\* A step that answers an order not listed as live with an error.
LEMMA ToRefuse ==
    ASSUME NEW s \in Servers, OthersSame(s),
           Listed(s) # "live", Listed(s)' = Listed(s),
           HasVm(s)' <=> HasVm(s), Reply(s) = "none", Reply(s)' = "refused"
    PROVE  Promise!Next
<1>1. Promise!Refuse(s)
  BY ListedSame, ReplyChange, MachinesSame DEF Promise!Refuse
<1>2. QED
  BY <1>1 DEF Promise!Next

(***************************************************************************)
(* How the steps of the saga show                                          *)
(***************************************************************************)

\* Until a saga ends or gives up, its row is listed as waiting.
LEMMA RowWaiting ==
    ASSUME SagaInv, NEW s \in Servers, pc[s] \in Building
    PROVE  Listed(s) = "waiting"
BY DEF SagaInv, RowInv, Listed, Building

\* Only a complete saga, or one that died, may be listed as live.
LEMMA RowNotLive ==
    ASSUME SagaInv, NEW s \in Servers, pc[s] \notin Completed \cup {"lost"}
    PROVE  Listed(s) # "live"
BY DEF SagaInv, RowInv, Listed, Published

\* A step that touches neither rows nor VMs shows at most in an answer.
LEMMA QuietStep ==
    ASSUME SagaInv, NEW s \in Servers, OthersKept(s), db' = db, vms' = vms
    PROVE  OthersSame(s) /\ Listed(s)' = Listed(s) /\ (HasVm(s)' <=> HasVm(s))
BY DEF OthersKept, OthersSame, SameView, Listed, HasVm, Reply

\* A step that changes no owner shows nothing but what the row shows.
LEMMA OwnersKept ==
    ASSUME \A x \in Slots :
              /\ vms'[x] = None <=> vms[x] = None
              /\ vms[x] # None => vms'[x].owner = vms[x].owner
    PROVE  \A t \in Servers : HasVm(t)' <=> HasVm(t)
BY DEF HasVm

\* A VM put into an empty slot adds a machine for its owner only.
LEMMA VmAdded ==
    ASSUME SagaInv, NEW s \in Servers, NEW y \in Slots, NEW cloned \in BOOLEAN,
           vms[y] = None, vms' = [vms EXCEPT ![y] = NewVm(s, cloned)]
    PROVE  HasVm(s)' /\ \A t \in Servers : t # s => (HasVm(t)' <=> HasVm(t))
<1>1. NewVm(s, cloned) # None /\ NewVm(s, cloned).owner = s
  BY NewVmIsVm, NoneAssumption
<1>2. vms'[y] = NewVm(s, cloned) /\ \A x \in Slots : x # y => vms'[x] = vms[x]
  BY DEF SagaInv, TypeOK, StoreTypeOK
<1>3. QED
  BY <1>1, <1>2 DEF HasVm

\* Emptying the slot of a VM removes the machine of its owner only.
LEMMA VmRemoved ==
    ASSUME SagaInv, NEW s \in Servers, ent[s] # None, OwnVm(s),
           vms' = [vms EXCEPT ![Target(s)] = None]
    PROVE  ~HasVm(s)' /\ \A t \in Servers : t # s => (HasVm(t)' <=> HasVm(t))
<1>1. Target(s) \in Slots
  BY TargetIsSlot DEF SagaInv
<1>2. vms'[Target(s)] = None /\ \A x \in Slots : x # Target(s) => vms'[x] = vms[x]
  BY <1>1 DEF SagaInv, TypeOK, StoreTypeOK
<1>3. \A x \in Slots : vms[x] # None /\ vms[x].owner = s => x = Target(s)
  BY DEF SagaInv, PlacementInv
<1>4. QED
  BY <1>2, <1>3 DEF HasVm, OwnVm

Shows == Promise!Next \/ UNCHANGED Promise!vars

\* Resolving plan and host is not seen by the customer.
LEMMA ResolveShows ==
    ASSUME SagaInv, NEW s \in Servers, NEW h \in Hosts, Resolve(s, h)
    PROVE  Shows
<1>1. OthersKept(s) /\ db' = db /\ vms' = vms
  BY DEF Resolve, storeVars, SagaInv, TypeOK, OthersKept
<1>2. Reply(s)' = Reply(s)
  BY DEF Resolve, SagaInv, TypeOK, Reply
<1>3. QED
  BY <1>1, <1>2, QuietStep, ToStutter DEF SameView, Shows

\* The INSERT places the order.
LEMMA InsertShows ==
    ASSUME SagaInv, NEW s \in Servers, Insert(s)
    PROVE  Shows
<1>1. OthersKept(s) /\ vms' = vms
  BY DEF Insert, SagaInv, TypeOK, StoreTypeOK, OthersKept
<1>2. OthersSame(s) /\ (HasVm(s)' <=> HasVm(s))
  BY <1>1 DEF OthersKept, OthersSame, SameView, Listed, HasVm, Reply
<1>3. db[s] = None /\ ent[s] \in Row /\ ent[s] # None /\ ent[s].ext = None /\ ent[s].status = "pending"
  BY NoneAssumption DEF Insert, SagaInv, TypeOK, EntityInv, RowInv
<1>4. Listed(s) = "absent" /\ Listed(s)' = "waiting"
  BY <1>3 DEF Insert, Listed, SagaInv, TypeOK, StoreTypeOK
<1>5. Reply(s) = "none" /\ Reply(s)' = "none"
  BY DEF Insert, SagaInv, TypeOK, Reply
<1>6. QED
  BY <1>2, <1>4, <1>5, ToPlace DEF Shows

\* A failed INSERT refuses the order.
LEMMA InsertFailsShows ==
    ASSUME SagaInv, NEW s \in Servers, InsertFails(s)
    PROVE  Shows
<1>1. OthersKept(s) /\ db' = db /\ vms' = vms
  BY DEF InsertFails, storeVars, SagaInv, TypeOK, OthersKept
<1>2. Reply(s) = "none" /\ Reply(s)' = "refused"
  BY DEF InsertFails, SagaInv, TypeOK, Reply
<1>3. Listed(s) # "live"
  BY RowNotLive DEF InsertFails, Completed
<1>4. QED
  BY <1>1, <1>2, <1>3, QuietStep, ToRefuse DEF Shows

\* Loading a row is not seen.
LEMMA OpenSessionShows ==
    ASSUME SagaInv, NEW s \in Servers, OpenSession(s)
    PROVE  Shows
<1>1. db' = db /\ vms' = vms /\ pc' = pc /\ \A t \in Servers : SameView(t)
  BY DEF OpenSession, storeVars, SameView, Listed, HasVm, Reply
<1>2. QED
  BY <1>1, ToStutter DEF OthersSame, Shows

\* A failed save refuses the order or is not seen.
LEMMA UpdateFailsShows ==
    ASSUME SagaInv, NEW s \in Servers, UpdateFails(s)
    PROVE  Shows
<1>1. OthersKept(s) /\ db' = db /\ vms' = vms
  BY DEF UpdateFails, storeVars, SagaInv, TypeOK, OthersKept
<1>2. Reply(s) = "none" /\ Reply(s)' \in {"none", "refused"}
  BY DEF UpdateFails, SagaInv, TypeOK, Reply, Saves
<1>3. Listed(s) # "live"
  BY RowNotLive DEF UpdateFails, Saves, Completed
<1>4. QED
  BY <1>1, <1>2, <1>3, QuietStep, ToRefuse, ToStutter DEF SameView, Shows

\* Each save shows what the entity has become; the answer is still to come.
LEMMA CommitShows ==
    ASSUME SagaInv, NEW s \in Servers, Commit(s)
    PROVE  Shows
<1>1. ent[s] \in Row /\ ent[s] # None /\ db' = [db EXCEPT ![s] = ent[s]]
  <2>1. ent[s] \in Row /\ ent[s] # None
    BY NoneAssumption DEF Commit, SagaInv, EntityInv, TypeOK, Saves
  <2>2. loaded[s] = db[s] /\ db[s] \in Row
    BY NoneAssumption DEF Commit, SagaInv, RowInv, TypeOK, StoreTypeOK
  <2>3. QED
    BY <2>1, <2>2, FlushUnchanged DEF Commit
<1>2. OthersKept(s) /\ vms' = vms /\ db'[s] = ent[s]
  BY <1>1 DEF Commit, SagaInv, TypeOK, StoreTypeOK, OthersKept
<1>3. OthersSame(s) /\ (HasVm(s)' <=> HasVm(s))
  BY <1>2 DEF OthersKept, OthersSame, SameView, Listed, HasVm, Reply
<1>4. pc'[s] = NextAfter[pc[s]] /\ EntityInv(s) /\ RowInv(s) /\ VmInv(s)
  BY DEF Commit, SagaInv, TypeOK
<1>5. CASE pc[s] = "mark"
  <2>1. Listed(s) = "waiting"
    BY <1>5, RowWaiting DEF Building
  <2>2. Listed(s)' = "waiting"
    BY <1>1, <1>2, <1>4, <1>5 DEF EntityInv, Listed
  <2>3. Reply(s)' = Reply(s)
    BY <1>4, <1>5 DEF Reply, NextAfter
  <2>4. QED
    BY <1>3, <2>1, <2>2, <2>3, ToStutter DEF SameView, Shows
<1>6. CASE pc[s] = "ready"
  <2>1. Listed(s) = "waiting"
    BY <1>6, RowWaiting DEF Building
  <2>2. ent[s].ext = VmidOf[s] /\ VmidOf[s] # None
    BY <1>4, <1>6, VmidAssumption, NoneAssumption DEF EntityInv, Named
  <2>3. Listed(s)' \in {"live", "failed"}
    BY <1>1, <1>2, <2>2 DEF Listed
  <2>4. HasVm(s)
    BY <1>1, <1>4, <1>6, TargetIsSlot DEF SagaInv, VmInv, Named, OwnVm, HasVm
  <2>5. Reply(s) = "none" /\ Reply(s)' = "due"
    BY <1>4, <1>6 DEF Reply, NextAfter
  <2>6. QED
    BY <1>3, <2>1, <2>3, <2>4, <2>5, ToComplete DEF Shows
<1>7. CASE pc[s] = "delay"
  <2>1. Listed(s) = "waiting"
    BY <1>7, RowWaiting DEF Building
  <2>2. Listed(s)' = "failed"
    BY <1>1, <1>2, <1>4, <1>7 DEF EntityInv, Listed
  <2>3. Reply(s) = "none" /\ Reply(s)' = "none"
    BY <1>4, <1>7 DEF Reply, NextAfter
  <2>4. QED
    BY <1>3, <2>1, <2>2, <2>3, ToGiveUp DEF Shows
<1>8. CASE pc[s] = "undo"
  <2>1. Listed(s) = "waiting"
    BY <1>8, RowWaiting DEF Building
  <2>2. Listed(s)' = "failed"
    BY <1>1, <1>2, <1>4, <1>8 DEF EntityInv, Listed
  <2>3. Reply(s) = "none" /\ Reply(s)' = "none"
    BY <1>4, <1>8 DEF Reply, NextAfter
  <2>4. QED
    BY <1>3, <2>1, <2>2, <2>3, ToGiveUp DEF Shows
<1>9. CASE pc[s] = "fail"
  <2>1. Listed(s) = "failed"
    BY <1>4, <1>9 DEF RowInv, Listed
  <2>2. Listed(s)' = "failed"
    BY <1>1, <1>2, <1>4, <1>9 DEF EntityInv, Listed
  <2>3. Reply(s)' = Reply(s)
    BY <1>4, <1>9 DEF Reply, NextAfter
  <2>4. QED
    BY <1>3, <2>1, <2>2, <2>3, ToStutter DEF SameView, Shows
<1>10. QED
  BY <1>5, <1>6, <1>7, <1>8, <1>9 DEF Commit, Saves

\* Creating the VM builds the machine.
LEMMA CreateShows ==
    ASSUME SagaInv, NEW s \in Servers, NEW cloned \in BOOLEAN, Create(s, cloned)
    PROVE  Shows
<1>1. ent[s] # None /\ SlotOf(s, ent[s].host) \in Slots
  BY TargetIsSlot DEF Create, SagaInv, EntityInv, Target
<1>2. HasVm(s)' /\ \A t \in Servers : t # s => (HasVm(t)' <=> HasVm(t))
  BY <1>1, VmAdded DEF Create, CreateVm
<1>3. OthersSame(s) /\ Listed(s)' = Listed(s)
  BY <1>2 DEF Create, SagaInv, TypeOK, OthersSame, SameView, Listed, Reply
<1>4. Listed(s) = "waiting"
  BY RowWaiting DEF Create, Building
<1>5. Reply(s) = "none" /\ Reply(s)' = "none"
  BY DEF Create, SagaInv, TypeOK, Reply
<1>6. QED
  BY <1>2, <1>3, <1>4, <1>5, ToBuild DEF Shows

\* A create without an answer is not seen yet.
LEMMA CreateFailsShows ==
    ASSUME SagaInv, NEW s \in Servers, NEW handler \in Handlers, NEW sent \in BOOLEAN,
           CreateFails(s, handler, sent)
    PROVE  Shows
<1>1. db' = db /\ vms' = vms
  BY DEF CreateFails, storeVars
<1>2. OthersKept(s)
  BY DEF CreateFails, Caught, storeVars, SagaInv, TypeOK, OthersKept
<1>3. Reply(s)' = Reply(s)
  BY DEF CreateFails, Caught, Handlers, SagaInv, TypeOK, Reply
<1>4. QED
  BY <1>1, <1>2, <1>3, QuietStep, ToStutter DEF SameView, Shows

\* Writing the sizes is not seen.
LEMMA ConfigureShows ==
    ASSUME SagaInv, NEW s \in Servers, Configure(s)
    PROVE  Shows
<1>1. ASSUME NEW x \in Slots
      PROVE  /\ vms'[x] = None <=> vms[x] = None
             /\ vms[x] # None => vms'[x].owner = vms[x].owner
  <2>1. PlanCpu \in Nat /\ PlanDisk \in Nat /\ (vms[x] # None => vms[x] \in VM)
    BY PlanAssumption DEF SagaInv, TypeOK, StoreTypeOK
  <2>2. vms[x] # None =>
           /\ WithSizes(vms[x], PlanCpu, PlanDisk) # None
           /\ WithSizes(vms[x], PlanCpu, PlanDisk).owner = vms[x].owner
           /\ WithPw(vms[x], 1) # None /\ WithPw(vms[x], 1).owner = vms[x].owner
    BY <2>1, AssignmentsAreVms, VmAssignments, SizesAssigned
  <2>3. QED
    BY <2>2 DEF Configure, SagaInv, TypeOK, StoreTypeOK
<1>2. \A t \in Servers : HasVm(t)' <=> HasVm(t)
  BY <1>1, OwnersKept
<1>3. OthersSame(s) /\ Listed(s)' = Listed(s)
  BY <1>2 DEF Configure, SagaInv, TypeOK, OthersSame, SameView, Listed, Reply
<1>4. Reply(s)' = Reply(s)
  BY DEF Configure, SagaInv, TypeOK, Reply
<1>5. QED
  BY <1>2, <1>3, <1>4, ToStutter DEF SameView, Shows

\* Nor is failing to write them.
LEMMA ConfigureFailsShows ==
    ASSUME SagaInv, NEW s \in Servers, NEW handler \in Handlers, NEW applied \in BOOLEAN, ConfigureFails(s, handler, applied)
    PROVE  Shows
<1>1. ASSUME NEW x \in Slots
      PROVE  /\ vms'[x] = None <=> vms[x] = None
             /\ vms[x] # None => vms'[x].owner = vms[x].owner
  <2>1. PlanCpu \in Nat /\ PlanDisk \in Nat /\ (vms[x] # None => vms[x] \in VM)
    BY PlanAssumption DEF SagaInv, TypeOK, StoreTypeOK
  <2>2. vms[x] # None =>
           /\ WithSizes(vms[x], PlanCpu, PlanDisk) # None
           /\ WithSizes(vms[x], PlanCpu, PlanDisk).owner = vms[x].owner
           /\ WithPw(vms[x], 1) # None /\ WithPw(vms[x], 1).owner = vms[x].owner
    BY <2>1, AssignmentsAreVms, VmAssignments, SizesAssigned
  <2>3. QED
    BY <2>2 DEF ConfigureFails, Caught, Handlers, SagaInv, TypeOK, StoreTypeOK
<1>2. \A t \in Servers : HasVm(t)' <=> HasVm(t)
  BY <1>1, OwnersKept
<1>3. OthersSame(s) /\ Listed(s)' = Listed(s)
  BY <1>2 DEF ConfigureFails, Caught, Handlers, SagaInv, TypeOK, OthersSame, SameView, Listed, Reply
<1>4. Reply(s)' = Reply(s)
  BY DEF ConfigureFails, Caught, Handlers, SagaInv, TypeOK, Reply
<1>5. QED
  BY <1>2, <1>3, <1>4, ToStutter DEF SameView, Shows

\* Nor is the password.
LEMMA SetPasswordShows ==
    ASSUME SagaInv, NEW s \in Servers, NEW applied \in BOOLEAN, SetPassword(s, applied)
    PROVE  Shows
<1>1. ASSUME NEW x \in Slots
      PROVE  /\ vms'[x] = None <=> vms[x] = None
             /\ vms[x] # None => vms'[x].owner = vms[x].owner
  <2>1. PlanCpu \in Nat /\ PlanDisk \in Nat /\ (vms[x] # None => vms[x] \in VM)
    BY PlanAssumption DEF SagaInv, TypeOK, StoreTypeOK
  <2>2. vms[x] # None =>
           /\ WithSizes(vms[x], PlanCpu, PlanDisk) # None
           /\ WithSizes(vms[x], PlanCpu, PlanDisk).owner = vms[x].owner
           /\ WithPw(vms[x], 1) # None /\ WithPw(vms[x], 1).owner = vms[x].owner
    BY <2>1, AssignmentsAreVms, VmAssignments, SizesAssigned
  <2>3. QED
    BY <2>2 DEF SetPassword, SagaInv, TypeOK, StoreTypeOK
<1>2. \A t \in Servers : HasVm(t)' <=> HasVm(t)
  BY <1>1, OwnersKept
<1>3. OthersSame(s) /\ Listed(s)' = Listed(s)
  BY <1>2 DEF SetPassword, SagaInv, TypeOK, OthersSame, SameView, Listed, Reply
<1>4. Reply(s)' = Reply(s)
  BY DEF SetPassword, SagaInv, TypeOK, Reply
<1>5. QED
  BY <1>2, <1>3, <1>4, ToStutter DEF SameView, Shows

\* Nor is reading the status.
LEMMA ReadStatusShows ==
    ASSUME SagaInv, NEW s \in Servers, ReadStatus(s)
    PROVE  Shows
<1>1. db' = db /\ vms' = vms
  BY DEF ReadStatus, storeVars
<1>2. OthersKept(s)
  BY DEF ReadStatus, storeVars, SagaInv, TypeOK, OthersKept
<1>3. Reply(s)' = Reply(s)
  BY DEF ReadStatus, SagaInv, TypeOK, Reply
<1>4. QED
  BY <1>1, <1>2, <1>3, QuietStep, ToStutter DEF SameView, Shows

\* A rollback that destroys nothing is not seen yet.
LEMMA RollbackSkipsShows ==
    ASSUME SagaInv, NEW s \in Servers, RollbackSkips(s)
    PROVE  Shows
<1>1. db' = db /\ vms' = vms
  BY DEF RollbackSkips, RolledBack, storeVars
<1>2. OthersKept(s)
  BY DEF RollbackSkips, RolledBack, storeVars, SagaInv, TypeOK, OthersKept
<1>3. Reply(s)' = Reply(s)
  BY DEF RollbackSkips, RolledBack, SagaInv, TypeOK, Reply
<1>4. QED
  BY <1>1, <1>2, <1>3, QuietStep, ToStutter DEF SameView, Shows

\* A rollback that fails refuses the order.
LEMMA RollbackFailsShows ==
    ASSUME SagaInv, NEW s \in Servers, NEW sent \in BOOLEAN, RollbackFails(s, sent)
    PROVE  Shows
<1>1. db' = db /\ vms' = vms
  BY DEF RollbackFails, storeVars
<1>2. OthersKept(s)
  BY DEF RollbackFails, storeVars, SagaInv, TypeOK, OthersKept
<1>3. Reply(s) = "none" /\ Reply(s)' = "refused"
  BY DEF RollbackFails, SagaInv, TypeOK, Reply
<1>4. Listed(s) # "live"
  BY RowNotLive DEF RollbackFails, Completed
<1>5. QED
  BY <1>1, <1>2, <1>3, <1>4, QuietStep, ToRefuse DEF Shows

\* A rollback that destroys removes the machine of its own order.
LEMMA RollbackDestroysShows ==
    ASSUME SagaInv, NEW s \in Servers, RollbackDestroys(s)
    PROVE  Shows
<1>1. ent[s] # None /\ OwnVm(s) /\ NamedSlot(s) = Target(s)
  BY NoneAssumption
  DEF RollbackDestroys, CanDestroy, SagaInv, EntityInv, VmInv, NamedSlot, Target, SlotOf
<1>2. ~HasVm(s)' /\ \A t \in Servers : t # s => (HasVm(t)' <=> HasVm(t))
  BY <1>1, VmRemoved DEF RollbackDestroys
<1>3. OthersSame(s) /\ Listed(s)' = Listed(s)
  BY <1>2 DEF RollbackDestroys, RolledBack, SagaInv, TypeOK, OthersSame, SameView, Listed, Reply
<1>4. Listed(s) = "waiting"
  BY RowWaiting DEF RollbackDestroys, Building
<1>5. Reply(s) = "none" /\ Reply(s)' = "none"
  BY DEF RollbackDestroys, RolledBack, SagaInv, TypeOK, Reply
<1>6. QED
  BY <1>2, <1>3, <1>4, <1>5, ToRemove DEF Shows

\* The answer of a complete saga accepts the order, that of any other refuses it.
LEMMA AnswerShows ==
    ASSUME SagaInv, NEW s \in Servers, Answer(s)
    PROVE  Shows
<1>1. db' = db /\ vms' = vms /\ OthersKept(s)
  BY DEF Answer, storeVars, SagaInv, TypeOK, OthersKept
<1>2. OthersSame(s) /\ Listed(s)' = Listed(s) /\ (HasVm(s)' <=> HasVm(s))
  BY <1>1, QuietStep
<1>3. CASE pc[s] = "accept"
  <2>1. Reply(s) = "due" /\ Reply(s)' = "accepted"
    BY <1>3 DEF Answer, SagaInv, TypeOK, Reply
  <2>2. QED
    BY <1>2, <2>1, ToAccept DEF Shows
<1>4. CASE pc[s] = "refuse"
  <2>1. Reply(s) = "none" /\ Reply(s)' = "refused"
    BY <1>4 DEF Answer, SagaInv, TypeOK, Reply
  <2>2. Listed(s) # "live"
    BY <1>4, RowNotLive DEF Completed
  <2>3. QED
    BY <1>2, <2>1, <2>2, ToRefuse DEF Shows
<1>5. QED
  BY <1>3, <1>4 DEF Answer, Answering

\* A request that gave up is listed as waiting or failed, and not accepted.
LEMMA LateView ==
    ASSUME SagaInv, NEW r \in late
    PROVE  /\ r[2] \in Servers /\ ent[r[2]] # None
           /\ Listed(r[2]) \in {"waiting", "failed"}
           /\ Reply(r[2]) \notin {"due", "accepted"}
<1>1. r[2] \in Servers /\ db[r[2]] # None /\ pc[r[2]] \in GivenUp
  BY DEF SagaInv, LateInv, Accounted, TypeOK, Requests
<1>2. RowInv(r[2]) /\ ~Published(db[r[2]])
  BY <1>1 DEF SagaInv, SeenInv
<1>3. QED
  BY <1>1, <1>2 DEF RowInv, Published, GivenUp, Listed, Reply

\* A create served late builds the machine of an order given up.
LEMMA LateCreateShows ==
    ASSUME SagaInv, NEW s \in Servers, NEW h \in Hosts, NEW cloned \in BOOLEAN,
           LateCreate(s, h, cloned)
    PROVE  Shows
<1>1. Listed(s) \in {"waiting", "failed"} /\ Reply(s) \notin {"due", "accepted"}
  BY LateView DEF LateCreate
<1>2. SlotOf(s, h) \in Slots
  BY VmidAssumption DEF SlotOf, Slots
<1>3. HasVm(s)' /\ \A t \in Servers : t # s => (HasVm(t)' <=> HasVm(t))
  BY <1>2, VmAdded DEF LateCreate, CreateVm
<1>4. OthersSame(s) /\ Listed(s)' = Listed(s) /\ Reply(s)' = Reply(s)
  BY <1>3 DEF LateCreate, OthersSame, SameView, Listed, Reply
<1>5. QED
  BY <1>1, <1>3, <1>4, ToBuild DEF Shows

\* A destroy served late removes the machine of an order given up.
LEMMA LateDestroyShows ==
    ASSUME SagaInv, NEW s \in Servers, NEW h \in Hosts, LateDestroy(s, h)
    PROVE  Shows
<1>1. Listed(s) \in {"waiting", "failed"} /\ Reply(s) \notin {"due", "accepted"} /\ ent[s] # None
  BY LateView DEF LateDestroy
<1>2. OwnVm(s) /\ SlotOf(s, h) = Target(s)
  BY DEF LateDestroy, SagaInv, LateInv, Accounted, Target
<1>3. ~HasVm(s)' /\ \A t \in Servers : t # s => (HasVm(t)' <=> HasVm(t))
  BY <1>1, <1>2, VmRemoved DEF LateDestroy
<1>4. OthersSame(s) /\ Listed(s)' = Listed(s) /\ Reply(s)' = Reply(s)
  BY <1>3 DEF LateDestroy, OthersSame, SameView, Listed, Reply
<1>5. QED
  BY <1>1, <1>3, <1>4, ToRemove DEF Shows

\* A crash loses the answers of the orders in flight, those due included.
LEMMA CrashShows ==
    ASSUME SagaInv, NEW sent \in SUBSET Unanswered, Crash(sent)
    PROVE  Shows
<1>1. db' = db /\ vms' = vms
  BY DEF Crash, storeVars
<1>2. {t \in Servers : HasVm(t)}' = {t \in Servers : HasVm(t)}
  BY <1>1 DEF HasVm
<1>3. [t \in Servers |-> Listed(t)]' = [t \in Servers |-> Listed(t)]
  BY <1>1 DEF Listed
<1>4. ASSUME NEW t \in Servers
      PROVE  /\ t \in InFlight => Reply(t) \in {"none", "due"} /\ Reply(t)' = "lost"
             /\ t \notin InFlight => Reply(t)' = Reply(t)
  BY DEF Crash, InFlight, Ends, Reply
<1>5. Promise!Lose(InFlight)
  BY <1>2, <1>3, <1>4 DEF Promise!Lose, InFlight
<1>6. InFlight \in SUBSET Servers
  BY DEF InFlight
<1>7. QED
  BY <1>5, <1>6 DEF Promise!Next, Shows

\* A change of run state is not seen.
LEMMA DriftShows ==
    ASSUME SagaInv, NEW y \in Slots, NEW run \in RunStates, Drift(y, run), UNCHANGED sagaVars
    PROVE  UNCHANGED Promise!vars
<1>1. ASSUME NEW x \in Slots
      PROVE  /\ vms'[x] = None <=> vms[x] = None
             /\ vms[x] # None => vms'[x].owner = vms[x].owner
  <2>1. vms[y] \in VM
    BY DEF Drift, SagaInv, TypeOK, StoreTypeOK
  <2>2. WithRun(vms[y], run) # None /\ WithRun(vms[y], run).owner = vms[y].owner
    BY <2>1, AssignmentsAreVms, VmAssignments
  <2>3. QED
    BY <2>2 DEF Drift, SagaInv, TypeOK, StoreTypeOK
<1>2. \A t \in Servers : HasVm(t)' <=> HasVm(t)
  BY <1>1, OwnersKept
<1>3. {t \in Servers : HasVm(t)}' = {t \in Servers : HasVm(t)}
  BY <1>2
<1>4. [t \in Servers |-> Listed(t)]' = [t \in Servers |-> Listed(t)]
  BY DEF Drift, Listed
<1>5. [t \in Servers |-> Reply(t)]' = [t \in Servers |-> Reply(t)]
  BY DEF sagaVars, Reply
<1>6. QED
  BY <1>3, <1>4, <1>5 DEF Promise!vars

\* A stuttering step is not seen.
LEMMA UnchangedShows ==
    ASSUME UNCHANGED <<db, vms, pc>>
    PROVE  UNCHANGED Promise!vars
<1>1. {t \in Servers : HasVm(t)}' = {t \in Servers : HasVm(t)}
  BY DEF HasVm
<1>2. [t \in Servers |-> Listed(t)]' = [t \in Servers |-> Listed(t)]
  BY DEF Listed
<1>3. [t \in Servers |-> Reply(t)]' = [t \in Servers |-> Reply(t)]
  BY DEF Reply
<1>4. QED
  BY <1>1, <1>2, <1>3 DEF Promise!vars

(***************************************************************************)
(* The refinement                                                          *)
(***************************************************************************)

\* Before the first request nothing is listed, built or answered.
LEMMA InitShows == Init => Promise!Init
<1> SUFFICES ASSUME Init PROVE Promise!Init
  OBVIOUS
<1>1. \A t \in Servers : Listed(t) = "absent" /\ ~HasVm(t) /\ Reply(t) = "none"
  BY DEF Init, StoreInit, Listed, HasVm, Reply
<1>2. QED
  BY <1>1 DEF Promise!Init

\* Every call of a saga is a step of the promise, or not seen.
LEMMA SagaStepShows ==
    ASSUME SagaInv, NEW s \in Servers, SagaStep(s)
    PROVE  Shows
<1>1. CASE Insert(s)
  BY <1>1, InsertShows
<1>2. CASE InsertFails(s)
  BY <1>2, InsertFailsShows
<1>3. CASE OpenSession(s)
  BY <1>3, OpenSessionShows
<1>4. CASE Commit(s)
  BY <1>4, CommitShows
<1>5. CASE UpdateFails(s)
  BY <1>5, UpdateFailsShows
<1>6. CASE \E cloned \in BOOLEAN : Create(s, cloned)
  BY <1>6, CreateShows
<1>7. CASE \E handler \in Handlers, sent \in BOOLEAN : CreateFails(s, handler, sent)
  BY <1>7, CreateFailsShows
<1>8. CASE Configure(s)
  BY <1>8, ConfigureShows
<1>9. CASE \E handler \in Handlers, applied \in BOOLEAN : ConfigureFails(s, handler, applied)
  BY <1>9, ConfigureFailsShows
<1>10. CASE \E applied \in BOOLEAN : SetPassword(s, applied)
  BY <1>10, SetPasswordShows
<1>11. CASE ReadStatus(s)
  BY <1>11, ReadStatusShows
<1>12. CASE RollbackSkips(s)
  BY <1>12, RollbackSkipsShows
<1>13. CASE RollbackDestroys(s)
  BY <1>13, RollbackDestroysShows
<1>14. CASE \E sent \in BOOLEAN : RollbackFails(s, sent)
  BY <1>14, RollbackFailsShows
<1>15. CASE Answer(s)
  BY <1>15, AnswerShows
<1>16. QED
  BY <1>1, <1>2, <1>3, <1>4, <1>5, <1>6, <1>7, <1>8, <1>9, <1>10, <1>11, <1>12, <1>13, <1>14,
     <1>15
  DEF SagaStep

\* Every step of the system is a step of the promise, or not seen.
LEMMA NextShows == SagaInv /\ [Next]_vars => [Promise!Next]_(Promise!vars)
<1> SUFFICES ASSUME SagaInv, [Next]_vars PROVE Shows
  BY DEF Shows
<1>1. CASE \E s \in Servers, h \in Hosts : Resolve(s, h)
  BY <1>1, ResolveShows
<1>2. CASE \E s \in Servers : SagaStep(s)
  BY <1>2, SagaStepShows
<1>3. CASE \E sent \in SUBSET Unanswered : Crash(sent)
  BY <1>3, CrashShows
<1>4. CASE Surroundings
  <2>1. CASE \E s \in Servers, h \in Hosts, cloned \in BOOLEAN : LateCreate(s, h, cloned)
    BY <2>1, LateCreateShows
  <2>2. CASE \E s \in Servers, h \in Hosts : LateDestroy(s, h)
    BY <2>2, LateDestroyShows
  <2>3. CASE \E h \in Hosts : (AddHost(h) \/ DeleteHost(h)) /\ UNCHANGED sagaVars
    BY <2>3, UnchangedShows DEF AddHost, DeleteHost, sagaVars, Shows
  <2>4. CASE \E x \in Slots, run \in RunStates : Drift(x, run) /\ UNCHANGED sagaVars
    BY <2>4, DriftShows DEF Shows
  <2>5. QED
    BY <1>4, <2>1, <2>2, <2>3, <2>4 DEF Surroundings
<1>5. CASE UNCHANGED vars
  BY <1>5, UnchangedShows DEF vars, storeVars, sagaVars, Shows
<1>6. QED
  BY <1>1, <1>2, <1>3, <1>4, <1>5 DEF Next

\* The saga implements the promise for every set of requests and hosts: what
\* the customer sees of table, hypervisor and answer moves as promised.
THEOREM Refinement == Spec => PromiseKept
BY InitShows, NextShows, SagaInvariant, PTL DEF Spec, PromiseKept, Promise!Spec

==============================================================================
