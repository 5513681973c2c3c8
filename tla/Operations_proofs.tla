-------------------------- MODULE Operations_proofs --------------------------
(***************************************************************************)
(* Proofs about the requests on existing servers, for every number of      *)
(* servers, hosts and requests.  OpsInv holds of every interleaving of     *)
(* handlers, sagas and what surrounds them, SerialInv of customers who     *)
(* wait.  A step of a saga or of a handler is described by what it leaves  *)
(* alone (SagaMoves, StoreMoves); who is not part of it is dealt with once.*)
(***************************************************************************)
EXTENDS Operations, Provisioning_proofs

(***************************************************************************)
(* The operators                                                           *)
(***************************************************************************)

\* A save writes, column by column, what was assigned or what was there.
LEMMA FlushIsRow ==
    ASSUME NEW r \in Row, NEW l \in Row, NEW e \in Row
    PROVE  /\ Flush(r, l, e) \in Row
           /\ Flush(r, l, e).host \in {r.host, e.host}
           /\ Flush(r, l, e).ext \in {r.ext, e.ext}
           /\ Flush(r, l, e).cpu \in {r.cpu, e.cpu}
           /\ Flush(r, l, e).disk \in {r.disk, e.disk}
BY DEF Flush, Column, Row

\* The other two assignments to an entity: its days, its sizes.
LEMMA MoreAssignments ==
    ASSUME NEW r \in Row, NEW m \in Nat, NEW n \in Nat
    PROVE  /\ WithDays(r, n) \in Row
           /\ WithDays(r, n).host = r.host
           /\ WithDays(r, n).ext = r.ext
           /\ WithDays(r, n).status = r.status
           /\ WithDays(r, n).cpu = r.cpu
           /\ WithDays(r, n).disk = r.disk
           /\ WithDays(r, n).days = n
           /\ Resized(r, m, n) \in Row
           /\ Resized(r, m, n).host = r.host
           /\ Resized(r, m, n).ext = r.ext
           /\ Resized(r, m, n).status = r.status
           /\ Resized(r, m, n).days = r.days
           /\ Resized(r, m, n).cpu = m
           /\ Resized(r, m, n).disk = n
BY DEF WithDays, Resized, Row

\* A status is no reason for another number of days.
LEMMA DaysAssigned ==
    ASSUME NEW r \in Row, NEW st \in Statuses
    PROVE  WithStatus(r, st).days = r.days
BY DEF WithStatus, Row

\* The statuses that come from run states.
LEMMA MappedStatuses ==
    \A run : /\ MapProxmoxStatus(run) \in Statuses \cup {None}
             /\ StatusToSave(run) \in Statuses
BY DEF MapProxmoxStatus, StatusToSave, Statuses

(***************************************************************************)
(* What a step of a saga leaves alone                                      *)
(***************************************************************************)

\* Saga s moves nothing but its own, keeps the host and the identifier it has,
\* and gives up for good.
SagaMoves(s) ==
    /\ OthersKept(s)
    /\ pc[s] # "new" =>
          /\ ent'[s] # None /\ ent'[s].host = ent[s].host
          /\ ent[s].ext = None \/ ent'[s].ext = ent[s].ext
    /\ db[s] # None => db'[s] # None
    /\ pc[s] \notin Untouched => pc'[s] \notin Untouched /\ db'[s] # None
    /\ pc[s] \in GivenUp => pc'[s] \in GivenUp /\ ent'[s].ext = ent[s].ext
    /\ pc[s] \in {"raised", "lost"} => pc'[s] = pc[s]
    /\ \A x \in Slots :
          \/ vms'[x] = vms[x]
          \/ /\ x = Target(s) /\ pc[s] # "new"
             /\ vms[x] = None \/ vms[x].owner = s
             /\ vms'[x] = None \/ (vms'[x].owner = s /\ pc'[s] \notin Untouched /\ db'[s] # None)

\* Handlers hold their rows and their steps, whatever a saga does.
LEMMA FrameHandlers ==
    ASSUME OpsInv, NEW s \in Servers, SagaMoves(s), UNCHANGED <<op, at, copy, sess>>
    PROVE  \A o \in Ops : HandlerInv(o)'
<1> SUFFICES ASSUME NEW o \in Ops, o \in Active PROVE HandlerInv(o)'
  BY DEF HandlerInv, Active
<1>1. HandlerInv(o) /\ Srv(o) \in Servers
  BY DEF OpsInv, OpsTypeOK, HandlerInv, Srv
<1>2. db'[Srv(o)] # None /\ pc[Srv(o)] # "new"
  BY <1>1 DEF HandlerInv, OpsInv, ServerInv, SagaMoves, OthersKept
<1>3. /\ ent'[Srv(o)].host = ent[Srv(o)].host
      /\ ent[Srv(o)].ext = None \/ ent'[Srv(o)].ext = ent[Srv(o)].ext
  BY <1>1, <1>2 DEF SagaMoves, OthersKept
<1>4. RowOf(Srv(o), copy[o])'
  BY <1>1, <1>3 DEF HandlerInv, RowOf, Srv
<1>5. QED
  BY <1>1, <1>2, <1>4 DEF HandlerInv, Active, Srv, Kind

\* The VM of another server stays its own, and what is not its own becomes so
\* by no step of s.
LEMMA FrameOwn ==
    ASSUME OpsInv, NEW s \in Servers, SagaMoves(s), NEW t \in Servers, t # s, ent[t] # None
    PROVE  /\ Target(t)' = Target(t) /\ Target(t) \in Slots
           /\ OwnVm(t)' <=> OwnVm(t)
           /\ OwnVm(t) => vms'[Target(t)] = vms[Target(t)]
<1>1. TypeOK
  BY DEF OpsInv, OpsTypeOK
<1>2. Target(t)' = Target(t) /\ Target(t) \in Slots
  BY <1>1, TargetIsSlot DEF SagaMoves, OthersKept, Target, SlotOf
<1>3. QED
  BY <1>2 DEF OwnVm, SagaMoves

\* What holds of another server still holds.
LEMMA FrameServerInv ==
    ASSUME OpsInv, NEW s \in Servers, SagaMoves(s), UNCHANGED <<op, at, copy>>,
           NEW t \in Servers, t # s
    PROVE  ServerInv(t)' /\ SizesInv(t)'
<1>1. ServerInv(t) /\ SizesInv(t)
  BY DEF OpsInv
<1>2. pc'[t] = pc[t] /\ ent'[t] = ent[t] /\ db'[t] = db[t] /\ loaded'[t] = loaded[t]
  BY DEF SagaMoves, OthersKept
<1>3. EntityInv(t)'
  BY <1>1, <1>2 DEF ServerInv, EntityInv
<1>4. pc[t] # "new" => ent[t] # None
  BY <1>1 DEF ServerInv, EntityInv
<1>5. ServerInv(t)'
  BY <1>1, <1>2, <1>3, <1>4, FrameOwn DEF ServerInv, RowOf, Named
<1>6. SizesInv(t)'
  BY <1>1, <1>2, FrameOwn DEF SizesInv, Ample, Distinct, Active, Srv
<1>7. QED
  BY <1>5, <1>6

\* VMs stay placed as their rows say.
LEMMA FramePlaces ==
    ASSUME OpsInv, NEW s \in Servers, SagaMoves(s)
    PROVE  PlacementInv'
<1> SUFFICES ASSUME NEW x \in Slots, vms'[x] # None
             PROVE  LET w == vms'[x].owner
                    IN  db'[w] # None /\ pc'[w] \notin Untouched /\ x = SlotOf(w, ent'[w].host)
  BY DEF PlacementInv, Target, SlotOf
<1>1. CASE vms'[x] = vms[x]
  <2>1. /\ vms[x].owner \in Servers
        /\ db[vms[x].owner] # None
        /\ pc[vms[x].owner] \notin Untouched
        /\ x = Target(vms[x].owner)
    BY <1>1 DEF OpsInv, PlacementInv, OpsTypeOK, TypeOK, StoreTypeOK, VM
  <2>2. pc[vms[x].owner] # "new"
    BY <2>1 DEF Untouched
  <2>3. QED
    BY <1>1, <2>1, <2>2 DEF SagaMoves, OthersKept, Target, SlotOf
<1>2. CASE x = Target(s) /\ pc[s] # "new" /\ vms'[x].owner = s /\ pc'[s] \notin Untouched /\ db'[s] # None
  <2>1. ent'[s].host = ent[s].host
    BY <1>2 DEF SagaMoves
  <2>2. QED
    BY <1>2, <2>1 DEF Target, SlotOf
<1>3. QED
  BY <1>1, <1>2 DEF SagaMoves

\* A saga that takes a step has an entity, and a place for its VM.
LEMMA SagaHasEntity ==
    ASSUME OpsInv, NEW s \in Servers, SagaStep(s)
    PROVE  /\ TypeOK /\ EntityInv(s) /\ ServerInv(s)
           /\ ent[s] \in Row /\ ent[s] # None
           /\ Target(s) \in Slots /\ SlotOf(s, ent[s].host) = Target(s)
           /\ VmidOf[s] \in VmIds /\ VmidOf[s] # None
           /\ pc[s] \notin {"new"} \cup Ends
<1>1. TypeOK /\ ServerInv(s) /\ EntityInv(s)
  BY DEF OpsInv, OpsTypeOK, ServerInv
<1>2. pc[s] \notin {"new"} \cup Ends
  BY DEF SagaStep, Insert, InsertFails, OpenSession, Commit, UpdateFails, Create, CreateFails,
         Configure, ConfigureFails, SetPassword, ReadStatus, RollbackSkips, RollbackDestroys,
         RollbackFails, Saves, Ends, Answer, Answering
<1>3. ent[s] \in Row /\ ent[s] # None
  BY <1>1, <1>2 DEF TypeOK, EntityInv
<1>4. Target(s) \in Slots /\ SlotOf(s, ent[s].host) = Target(s)
  BY <1>1, <1>3, TargetIsSlot DEF Target
<1>5. VmidOf[s] \in VmIds /\ VmidOf[s] # None
  BY VmidAssumption, NoneAssumption
<1>6. QED
  BY <1>1, <1>2, <1>3, <1>4, <1>5

\* A saga in front of its VM by name is in front of the slot it derived.
LEMMA NamedIsTarget ==
    ASSUME NEW s \in Servers, EntityInv(s), ent[s] # None, ent[s].ext # None
    PROVE  NamedSlot(s) = Target(s)
BY DEF EntityInv, NamedSlot, Target, SlotOf

\* What a commit of the saga writes.
LEMMA CommitWrites ==
    ASSUME OpsInv, NEW s \in Servers, Commit(s)
    PROVE  /\ db[s] # None /\ db[s] \in Row /\ db'[s] \in Row /\ db'[s] # None
           /\ db' = [db EXCEPT ![s] = db'[s]]
           /\ db'[s].host = ent[s].host
           /\ db'[s].ext \in {db[s].ext, ent[s].ext}
           /\ db'[s].cpu \in {db[s].cpu, PlanCpu}
           /\ db'[s].disk \in {db[s].disk, PlanDisk}
<1>1. SagaStep(s)
  BY DEF SagaStep
<1>2. /\ TypeOK /\ ServerInv(s) /\ EntityInv(s) /\ pc[s] \in Saves /\ loaded[s] # None
      /\ ent[s] \in Row /\ ent[s] # None
  BY <1>1, SagaHasEntity DEF Commit
<1>3. db[s] # None /\ db[s] \in Row /\ loaded[s] \in Row
  BY <1>2 DEF TypeOK, StoreTypeOK, ServerInv, Saves
<1>4. db' = [db EXCEPT ![s] = Flush(db[s], loaded[s], ent[s])]
  BY DEF Commit
<1>5. db'[s] = Flush(db[s], loaded[s], ent[s])
  BY <1>2, <1>4 DEF TypeOK, StoreTypeOK
<1>6. /\ db'[s] \in Row
      /\ db'[s].host \in {db[s].host, ent[s].host}
      /\ db'[s].ext \in {db[s].ext, ent[s].ext}
      /\ db'[s].cpu \in {db[s].cpu, ent[s].cpu}
      /\ db'[s].disk \in {db[s].disk, ent[s].disk}
  BY <1>2, <1>3, <1>5, FlushIsRow
<1>7. db[s].host = ent[s].host /\ ent[s].cpu = PlanCpu /\ ent[s].disk = PlanDisk
  BY <1>2, <1>3 DEF ServerInv, EntityInv, RowOf
<1>8. QED
  BY <1>3, <1>4, <1>5, <1>6, <1>7, NoneAssumption

\* The only slot a saga writes is its own.
LEMMA SagaVms ==
    ASSUME OpsInv, NEW s \in Servers, SagaStep(s)
    PROVE  /\ vms' \in [Slots -> VM \cup {None}]
           /\ \A x \in Slots : x # Target(s) => vms'[x] = vms[x]
           /\ \/ vms'[Target(s)] = vms[Target(s)]
              \/ vms[Target(s)] = None /\ vms'[Target(s)].owner = s /\ pc'[s] = "config"
              \/ /\ vms[Target(s)] # None /\ vms[Target(s)].owner = s
                 /\ vms'[Target(s)] # None => vms'[Target(s)].owner = s
<1>1. /\ TypeOK /\ ServerInv(s) /\ EntityInv(s) /\ ent[s] # None
      /\ Target(s) \in Slots /\ SlotOf(s, ent[s].host) = Target(s)
  BY SagaHasEntity
<1>2. vms \in [Slots -> VM \cup {None}] /\ pc \in [Servers -> {"new", "insert"} \cup Saves \cup Calls \cup Answering \cup Ends]
  BY <1>1 DEF TypeOK, StoreTypeOK
<1>3. CASE vms' = vms
  BY <1>2, <1>3
<1>4. ASSUME NEW cloned \in BOOLEAN, Create(s, cloned)
      PROVE  /\ vms[Target(s)] = None /\ vms' = [vms EXCEPT ![Target(s)] = NewVm(s, cloned)]
             /\ pc'[s] = "config"
  BY <1>1, <1>2, <1>4 DEF Create, CreateVm
<1>5. CASE \E cloned \in BOOLEAN : Create(s, cloned)
  BY <1>1, <1>2, <1>4, <1>5, NewVmIsVm
<1>6. ASSUME vms[Target(s)] # None, NEW vm \in VM \cup {None},
             vms' = [vms EXCEPT ![Target(s)] = vm],
             vms[Target(s)].owner = s, vm # None => vm.owner = s
      PROVE  /\ vms' \in [Slots -> VM \cup {None}]
             /\ \A x \in Slots : x # Target(s) => vms'[x] = vms[x]
             /\ vms[Target(s)] # None /\ vms[Target(s)].owner = s
             /\ vms'[Target(s)] # None => vms'[Target(s)].owner = s
  BY <1>1, <1>2, <1>6
<1>7. vms[Target(s)] # None => /\ vms[Target(s)] \in VM
                              /\ WithSizes(vms[Target(s)], PlanCpu, PlanDisk) \in VM
                              /\ WithSizes(vms[Target(s)], PlanCpu, PlanDisk).owner = vms[Target(s)].owner
                              /\ WithPw(vms[Target(s)], 1) \in VM
                              /\ WithPw(vms[Target(s)], 1).owner = vms[Target(s)].owner
  <2>1. PlanCpu \in Nat /\ PlanDisk \in Nat /\ 1 \in Nat
    BY PlanAssumption
  <2>2. QED
    BY <1>1, <1>2, <2>1, SizesAssigned, VmAssignments
<1>8. CASE pc[s] = "config" /\ vms[Target(s)] # None
           /\ vms' = [vms EXCEPT ![Target(s)] = WithSizes(vms[Target(s)], PlanCpu, PlanDisk)]
  <2>1. vms[Target(s)].owner = s
    BY <1>1, <1>8 DEF ServerInv, OwnVm
  <2>2. QED
    BY <1>6, <1>7, <1>8, <2>1
<1>9. CASE Configure(s) \/ \E handler \in Handlers, applied \in BOOLEAN : ConfigureFails(s, handler, applied)
  BY <1>3, <1>8, <1>9 DEF Configure, ConfigureFails
<1>10. CASE \E applied \in BOOLEAN : SetPassword(s, applied)
  <2>1. NamedSlot(s) = Target(s) /\ OwnVm(s)
    BY <1>1, <1>10, NamedIsTarget, SagaHasEntity DEF SetPassword, ServerInv, EntityInv, Named
  <2>2. vms' = vms \/ vms' = [vms EXCEPT ![Target(s)] = WithPw(vms[Target(s)], 1)]
    BY <1>10, <2>1 DEF SetPassword
  <2>3. QED
    BY <1>3, <1>6, <1>7, <2>1, <2>2 DEF OwnVm
<1>11. CASE RollbackDestroys(s)
  <2>1. NamedSlot(s) = Target(s) /\ OwnVm(s)
    BY <1>1, <1>11, NamedIsTarget DEF RollbackDestroys, CanDestroy, ServerInv
  <2>2. vms' = [vms EXCEPT ![Target(s)] = None]
    BY <1>11, <2>1 DEF RollbackDestroys
  <2>3. QED
    BY <1>6, <2>1, <2>2 DEF OwnVm
<1>12. QED
  BY <1>3, <1>5, <1>9, <1>10, <1>11
  DEF SagaStep, Insert, InsertFails, OpenSession, Commit, UpdateFails, CreateFails,
      ReadStatus, RollbackSkips, RollbackFails, storeVars, Answer, Answering

\* What the calls of a saga do to its entity and its place in the code.
LEMMA SagaEntity ==
    ASSUME OpsInv, NEW s \in Servers, SagaStep(s)
    PROVE  /\ ent' = [ent EXCEPT ![s] = ent'[s]] /\ ent'[s] \in Row
           /\ ent'[s].host = ent[s].host /\ ent'[s].days = ent[s].days
           /\ ent'[s].ext = IF Configure(s) THEN VmidOf[s] ELSE ent[s].ext
           /\ EntityInv(s)'
<1>1. /\ TypeOK /\ EntityInv(s) /\ ent[s] \in Row /\ ent[s] # None
      /\ VmidOf[s] \in VmIds /\ VmidOf[s] # None
  BY SagaHasEntity
<1>2. ent \in [Servers -> Row \cup {None}] /\ pc \in [Servers -> {"new", "insert"} \cup Saves \cup Calls \cup Answering \cup Ends]
  BY <1>1 DEF TypeOK
<1>3. \A st \in Statuses :
         /\ WithStatus(ent[s], st) \in Row /\ WithStatus(ent[s], st) # None
         /\ WithStatus(ent[s], st).host = ent[s].host
         /\ WithStatus(ent[s], st).ext = ent[s].ext
         /\ WithStatus(ent[s], st).days = ent[s].days
         /\ WithStatus(ent[s], st).cpu = ent[s].cpu
         /\ WithStatus(ent[s], st).disk = ent[s].disk
         /\ WithStatus(ent[s], st).status = st
  BY <1>1, EntityAssignments, DaysAssigned, NoneAssumption
<1>4. ASSUME NEW st \in Statuses, ent' = [ent EXCEPT ![s] = WithStatus(ent[s], st)], ~Configure(s)
      PROVE  /\ ent' = [ent EXCEPT ![s] = ent'[s]] /\ ent'[s] \in Row /\ ent'[s] # None
             /\ ent'[s].host = ent[s].host /\ ent'[s].days = ent[s].days
             /\ ent'[s].ext = IF Configure(s) THEN VmidOf[s] ELSE ent[s].ext
             /\ ent'[s].cpu = ent[s].cpu /\ ent'[s].disk = ent[s].disk /\ ent'[s].status = st
  <2>1. ent'[s] = WithStatus(ent[s], st)
    BY <1>2, <1>4
  <2>2. QED
    BY <1>3, <1>4, <2>1
<1>5. CASE Configure(s)
  BY <1>1, <1>2, <1>5, EntityAssignments, NoneAssumption
  DEF Configure, EntityInv, Named, WithExt, Row
<1>6. CASE Insert(s)
  BY <1>1, <1>2, <1>4, <1>6 DEF Insert, Configure, EntityInv, Named, Statuses
<1>7. CASE pc'[s] \in Handlers /\ pc[s] \in {"create", "config"} /\ ~Configure(s)
           /\ \E handler \in Handlers : Caught(s, handler)
  BY <1>1, <1>2, <1>4, <1>7 DEF Caught, Handlers, EntityInv, Named, Statuses
<1>8. CASE Commit(s)
  <2>1. pc'[s] = NextAfter[pc[s]] /\ pc[s] \in Saves /\ ~Configure(s)
    BY <1>2, <1>8 DEF Commit, Configure, Saves
  <2>2. CASE pc[s] = "undo"
    BY <1>1, <1>4, <1>8, <2>1, <2>2 DEF Commit, NextAfter, EntityInv, Named, Statuses
  <2>3. CASE pc[s] # "undo"
    <3>1. ent' = ent
      BY <1>8, <2>3 DEF Commit
    <3>2. pc'[s] \in {"create", "accept", "refuse"} /\ (pc'[s] = "create" => pc[s] = "mark")
          /\ (pc'[s] = "accept" => pc[s] = "ready")
      BY <2>1, <2>3 DEF NextAfter, Saves
    <3>3. QED
      BY <1>1, <1>2, <2>1, <3>1, <3>2 DEF EntityInv, Named
  <2>4. QED
    BY <2>2, <2>3
<1>9. CASE ReadStatus(s)
  BY <1>1, <1>2, <1>4, <1>9, MappedStatuses DEF ReadStatus, Configure, EntityInv, Named, Statuses
<1>10. CASE pc[s] = "rollback" /\ RolledBack(s)
  BY <1>1, <1>2, <1>4, <1>10 DEF RolledBack, Configure, EntityInv, Named, Statuses
<1>11. CASE ent' = ent /\ pc' = [pc EXCEPT ![s] = pc'[s]] /\ ~Configure(s)
            /\ \/ pc'[s] = pc[s]
               \/ pc'[s] \in {"raised", "rollback", "errored"}
               \/ pc[s] = "accept" /\ pc'[s] = "returned"
               \/ pc[s] = "create" /\ pc'[s] = "config"
               \/ pc[s] = "password" /\ pc'[s] = "status"
  BY <1>1, <1>2, <1>11 DEF EntityInv, Named
<1>12. QED
  <2>1. CASE \/ \E handler \in Handlers, sent \in BOOLEAN : CreateFails(s, handler, sent)
             \/ \E handler \in Handlers, applied \in BOOLEAN : ConfigureFails(s, handler, applied)
    <3>1. PICK handler \in Handlers : Caught(s, handler) /\ pc[s] \in {"create", "config"}
      BY <2>1 DEF CreateFails, ConfigureFails
    <3>2. pc'[s] = handler
      BY <1>2, <3>1 DEF Caught
    <3>3. ~Configure(s)
      BY <1>2, <3>2 DEF Configure, Handlers
    <3>4. QED
      BY <1>7, <3>1, <3>2, <3>3
  <2>2. CASE RollbackSkips(s) \/ RollbackDestroys(s)
    BY <1>10, <2>2 DEF RollbackSkips, RollbackDestroys
  <2>3. CASE \/ InsertFails(s) \/ OpenSession(s) \/ UpdateFails(s) \/ Answer(s)
             \/ \E cloned \in BOOLEAN : Create(s, cloned)
             \/ \E applied \in BOOLEAN : SetPassword(s, applied)
             \/ \E sent \in BOOLEAN : RollbackFails(s, sent)
    BY <1>2, <1>11, <2>3
    DEF InsertFails, OpenSession, UpdateFails, Create, SetPassword, RollbackFails, Configure, Saves, Answer, Answering
  <2>4. QED
    BY <1>5, <1>6, <1>8, <1>9, <2>1, <2>2, <2>3 DEF SagaStep

\* Rows appear with the INSERT and stay.
LEMMA SagaRows ==
    ASSUME OpsInv, NEW s \in Servers, SagaStep(s)
    PROVE  /\ db' \in [Servers -> Row \cup {None}]
           /\ \A t \in Servers : t # s => db'[t] = db[t]
           /\ \/ db'[s] = db[s]
              \/ Insert(s) /\ db'[s] = ent[s]
              \/ Commit(s) /\ db[s] # None /\ db'[s] # None
<1>1. /\ TypeOK /\ ent[s] \in Row /\ ent[s] # None
  BY SagaHasEntity
<1>2. db \in [Servers -> Row \cup {None}]
  BY <1>1 DEF TypeOK, StoreTypeOK
<1>3. CASE Insert(s)
  BY <1>1, <1>2, <1>3 DEF Insert
<1>4. CASE Commit(s)
  BY <1>2, <1>4, CommitWrites
<1>5. CASE db' = db
  BY <1>2, <1>5
<1>6. QED
  BY <1>3, <1>4, <1>5
  DEF SagaStep, InsertFails, OpenSession, UpdateFails, Create, CreateFails, Caught,
      Configure, ConfigureFails, SetPassword, ReadStatus, RollbackSkips, RollbackDestroys,
      RollbackFails, storeVars, Answer, Answering

\* How far a step takes a saga.
LEMMA SagaPlaces ==
    ASSUME OpsInv, NEW s \in Servers, SagaStep(s)
    PROVE  /\ pc' = [pc EXCEPT ![s] = pc'[s]]
           /\ pc'[s] \in Saves \cup Calls \cup Answering \cup Ends
           /\ pc[s] \in Untouched \/ pc'[s] \notin Untouched
           /\ pc[s] \in GivenUp =>
                 pc[s] \notin {"raised", "lost"} /\ pc'[s] \in GivenUp /\ ~Configure(s)
           /\ pc'[s] # "lost"
<1>1. TypeOK /\ pc[s] \notin {"new"} \cup Ends
  BY SagaHasEntity
<1>2. pc \in [Servers -> {"new", "insert"} \cup Saves \cup Calls \cup Answering \cup Ends]
  BY <1>1 DEF TypeOK
<1>3. CASE Commit(s)
  <2>1. pc[s] \in Saves /\ pc' = [pc EXCEPT ![s] = NextAfter[pc[s]]]
    BY <1>3 DEF Commit
  <2>2. NextAfter[pc[s]] \in {"create", "accept", "refuse", "fail"}
    BY <2>1 DEF NextAfter, Saves
  <2>3. /\ NextAfter[pc[s]] = "create" => pc[s] = "mark"
        /\ NextAfter[pc[s]] = "accept" => pc[s] = "ready"
    BY <2>1 DEF NextAfter, Saves
  <2>4. ~Configure(s)
    BY <2>1 DEF Configure, Saves
  <2>5. QED
    BY <1>1, <1>2, <2>1, <2>2, <2>3, <2>4 DEF Saves, Calls, Answering, Ends, Untouched, GivenUp
<1>4. CASE ~Commit(s)
  BY <1>1, <1>2, <1>4
  DEF SagaStep, Insert, InsertFails, OpenSession, UpdateFails, Create, CreateFails, Caught, Handlers,
      Configure, ConfigureFails, SetPassword, ReadStatus, RollbackSkips, RollbackDestroys, RolledBack,
      RollbackFails, storeVars, Saves, Calls, Ends, Untouched, GivenUp, Answer, Answering
<1>5. QED
  BY <1>3, <1>4

\* A saga's step leaves the rest alone.
LEMMA SagaStepMoves ==
    ASSUME OpsInv, NEW s \in Servers, SagaStep(s)
    PROVE  SagaMoves(s)
<1>1. /\ TypeOK /\ ServerInv(s) /\ EntityInv(s) /\ ent[s] # None /\ Target(s) \in Slots
      /\ pc[s] \notin {"new"} \cup Ends
  BY SagaHasEntity
<1>2. OthersKept(s)
  <2>1. ASSUME NEW t \in Servers, t # s
        PROVE  pc'[t] = pc[t] /\ ent'[t] = ent[t] /\ db'[t] = db[t]
    BY <1>1, <2>1, SagaPlaces, SagaEntity, SagaRows DEF TypeOK
  <2>2. ASSUME NEW t \in Servers, t # s
        PROVE  loaded'[t] = loaded[t]
    BY <1>1, <2>2
    DEF TypeOK, SagaStep, Insert, InsertFails, OpenSession, Commit, UpdateFails, Create, CreateFails,
        Configure, ConfigureFails, SetPassword, ReadStatus, RollbackSkips, RollbackDestroys,
        RollbackFails, storeVars, Answer, Answering
  <2>3. QED
    BY <2>1, <2>2 DEF OthersKept
<1>3. ent'[s] # None /\ ent'[s].host = ent[s].host
  BY SagaEntity, NoneAssumption
<1>4. Configure(s) => pc[s] = "config" /\ ent[s].ext = None
  BY <1>1 DEF Configure, EntityInv
<1>5. db[s] # None => db'[s] # None
  BY <1>1, SagaRows DEF Insert, ServerInv
<1>6. pc[s] \notin {"new", "insert"} => db[s] # None
  BY <1>1 DEF ServerInv, Ends
<1>7. pc[s] \notin Untouched => pc'[s] \notin Untouched /\ db'[s] # None
  BY <1>5, <1>6, SagaPlaces DEF Untouched
<1>8. ASSUME NEW x \in Slots
      PROVE  \/ vms'[x] = vms[x]
             \/ /\ x = Target(s)
                /\ vms[x] = None \/ vms[x].owner = s
                /\ vms'[x] = None \/ (vms'[x].owner = s /\ pc'[s] \notin Untouched /\ db'[s] # None)
  <2>1. CASE x # Target(s)
    BY <2>1, SagaVms
  <2>2. CASE vms[Target(s)] = None /\ vms'[Target(s)].owner = s /\ pc'[s] = "config"
    <3>1. pc[s] \notin {"new", "insert"}
      BY <1>1, <2>2
      DEF SagaStep, Insert, InsertFails, OpenSession, UpdateFails, Create, CreateFails, Caught, Handlers,
          Configure, ConfigureFails, SetPassword, ReadStatus, RollbackSkips, RollbackDestroys, RolledBack,
          RollbackFails, storeVars, TypeOK, Saves, Commit, Answer, Answering
    <3>2. QED
      BY <1>1, <1>5, <1>6, <2>1, <2>2, <3>1 DEF Untouched
  <2>3. CASE vms[Target(s)] # None /\ vms[Target(s)].owner = s
             /\ (vms'[Target(s)] # None => vms'[Target(s)].owner = s)
    <3>1. pc[s] \notin Untouched
      BY <1>1, <2>3 DEF OpsInv, PlacementInv
    <3>2. QED
      BY <1>7, <2>1, <2>3, <3>1
  <2>4. QED
    BY <2>1, <2>2, <2>3, SagaVms
<1>9. pc[s] \notin {"raised", "lost"}
  BY <1>1 DEF Ends
<1>10. QED
  BY <1>2, <1>3, <1>4, <1>5, <1>7, <1>8, <1>1, <1>9, SagaPlaces, SagaEntity DEF SagaMoves

\* Types survive.
LEMMA SagaTypes ==
    ASSUME OpsInv, NEW s \in Servers, SagaStep(s)
    PROVE  TypeOK'
<1>1. TypeOK /\ ent[s] \in Row
  BY SagaHasEntity
<1>2. pc' \in [Servers -> {"new", "insert"} \cup Saves \cup Calls \cup Answering \cup Ends]
  BY <1>1, SagaPlaces DEF TypeOK
<1>3. ent' \in [Servers -> Row \cup {None}]
  BY <1>1, SagaEntity DEF TypeOK
<1>4. loaded' \in [Servers -> Row \cup {None}] /\ hosts' = hosts
  BY <1>1
  DEF TypeOK, StoreTypeOK, SagaStep, Insert, InsertFails, OpenSession, Commit, UpdateFails, Create, CreateFails,
      Configure, ConfigureFails, SetPassword, ReadStatus, RollbackSkips, RollbackDestroys,
      RollbackFails, storeVars, Answer, Answering
<1>5. late' \in SUBSET Requests
  <2>1. {<<"create", s, ent[s].host>>, <<"destroy", s, ent[s].host>>} \subseteq Requests
    BY <1>1 DEF Requests, Row
  <2>2. late' \subseteq late \cup {<<"create", s, ent[s].host>>, <<"destroy", s, ent[s].host>>}
    BY DEF SagaStep, Insert, InsertFails, OpenSession, Commit, UpdateFails, Create, CreateFails,
           Configure, ConfigureFails, SetPassword, ReadStatus, RollbackSkips, RollbackDestroys,
           RollbackFails, Answer, Answering
  <2>3. QED
    BY <1>1, <2>1, <2>2 DEF TypeOK
<1>6. QED
  BY <1>1, <1>2, <1>3, <1>4, <1>5, SagaVms, SagaRows DEF TypeOK, StoreTypeOK

\* The saga's own row, entity and VM still fit each other.
LEMMA SagaServer ==
    ASSUME OpsInv, NEW s \in Servers, SagaStep(s)
    PROVE  ServerInv(s)'
<1>1. /\ TypeOK /\ ServerInv(s) /\ EntityInv(s) /\ ent[s] # None /\ Target(s) \in Slots
      /\ pc[s] \notin {"new"} \cup Ends
  BY SagaHasEntity
<1>2. EntityInv(s)' /\ ent'[s] # None /\ Target(s)' = Target(s)
  BY SagaEntity, NoneAssumption DEF Target, SlotOf
<1>3. pc'[s] \notin {"new", "insert"}
  BY SagaPlaces DEF Saves, Calls, Answering, Ends
<1>4. pc'[s] # "raised" => db'[s] # None
  <2>1. CASE Insert(s)
    BY <1>1, <2>1, SagaRows DEF Insert, SagaMoves, TypeOK, StoreTypeOK
  <2>2. CASE InsertFails(s)
    BY <1>1, <2>2 DEF InsertFails, TypeOK
  <2>3. CASE pc[s] # "insert"
    BY <1>1, <2>3, SagaStepMoves DEF ServerInv, Ends, SagaMoves
  <2>4. QED
    BY <1>1, <2>1, <2>2, <2>3
    DEF SagaStep, OpenSession, Commit, UpdateFails, Create, CreateFails, Configure, ConfigureFails,
        SetPassword, ReadStatus, RollbackSkips, RollbackDestroys, RollbackFails, Saves, Answer, Answering
<1>5. db'[s] # None => RowOf(s, db[s])'
  <2>1. /\ ent'[s].host = ent[s].host
        /\ ent[s].ext = None \/ ent'[s].ext = ent[s].ext
    BY <1>1, SagaStepMoves DEF SagaMoves
  <2>2. CASE db'[s] = db[s]
    BY <1>1, <2>1, <2>2 DEF ServerInv, RowOf
  <2>3. CASE Insert(s) /\ db'[s] = ent[s]
    BY <1>1, <2>1, <2>3 DEF Insert, EntityInv, RowOf
  <2>4. CASE Commit(s)
    <3>1. db'[s].host = ent[s].host /\ db'[s].ext \in {db[s].ext, ent[s].ext} /\ db[s] # None
      BY <2>4, CommitWrites
    <3>2. db[s].ext \in {None, ent[s].ext}
      BY <1>1, <3>1 DEF ServerInv, RowOf
    <3>3. QED
      BY <2>1, <3>1, <3>2 DEF RowOf
  <2>5. QED
    BY <2>2, <2>3, <2>4, SagaRows
<1>6. CASE vms'[Target(s)] = vms[Target(s)]
  <2>1. OwnVm(s)' = OwnVm(s)
    BY <1>2, <1>6 DEF OwnVm
  <2>2. pc'[s] \in Named \cup {"config"} => OwnVm(s)
    <3>1. CASE pc[s] \in Named \cup {"config"}
      BY <1>1, <3>1 DEF ServerInv
    <3>2. CASE pc[s] \notin Named \cup {"config"}
      BY <1>1, <1>6, <3>2, NewVmIsVm, NoneAssumption
      DEF SagaStep, Insert, InsertFails, OpenSession, Commit, NextAfter, UpdateFails, Create, CreateVm,
          CreateFails, Caught, Handlers, Configure, ConfigureFails, SetPassword, ReadStatus,
          RollbackSkips, RollbackDestroys, RolledBack, RollbackFails, Named, Saves, Target,
          TypeOK, StoreTypeOK, Answer, Answering
    <3>3. QED
      BY <3>1, <3>2
  <2>3. pc'[s] = "rollback" /\ ent'[s].ext # None => OwnVm(s)
    <3>1. CASE pc[s] \in {"rollback"} \cup Named
      BY <1>1, <3>1, SagaEntity DEF ServerInv, EntityInv, Configure, Named
    <3>2. CASE pc[s] \notin {"rollback"} \cup Named
      <4>1. ~Configure(s) => ent'[s].ext = ent[s].ext
        BY SagaEntity
      <4>2. QED
        BY <1>1, <3>2, <4>1
        DEF SagaStep, Insert, InsertFails, OpenSession, Commit, NextAfter, UpdateFails, Create,
            CreateFails, Caught, Handlers, Configure, ConfigureFails, SetPassword, ReadStatus,
            RollbackSkips, RollbackDestroys, RolledBack, RollbackFails, Named, Saves, TypeOK,
            EntityInv, Answer, Answering
    <3>3. QED
      BY <3>1, <3>2
  <2>4. QED
    BY <1>2, <1>3, <1>4, <1>5, <2>1, <2>2, <2>3 DEF ServerInv
<1>7. CASE vms'[Target(s)] # vms[Target(s)]
  <2>1. RollbackDestroys(s) \/ OwnVm(s)'
    <3>1. CASE vms'[Target(s)] # None
      BY <1>2, <1>7, <3>1, SagaVms DEF OwnVm
    <3>2. CASE vms'[Target(s)] = None
      <4>1. vms[Target(s)] # None
        BY <1>7, <3>2
      <4>2. /\ WithSizes(vms[Target(s)], PlanCpu, PlanDisk) # None
            /\ WithPw(vms[Target(s)], 1) # None
        BY <1>1, <4>1, AssignmentsAreVms DEF TypeOK, StoreTypeOK
      <4>3. pc[s] = "password" => NamedSlot(s) = Target(s)
        BY <1>1, NamedIsTarget, SagaHasEntity DEF EntityInv, Named
      <4>4. QED
        BY <1>1, <1>7, <3>2, <4>1, <4>2, <4>3, SagaHasEntity
        DEF SagaStep, Insert, InsertFails, OpenSession, Commit, UpdateFails, Create, CreateVm,
            CreateFails, Configure, ConfigureFails, SetPassword, ReadStatus,
            RollbackSkips, RollbackFails, storeVars, TypeOK, StoreTypeOK, Answer, Answering
    <3>3. QED
      BY <3>1, <3>2
  <2>2. CASE RollbackDestroys(s)
    <3>1. pc'[s] = "undo"
      BY <1>1, <2>2 DEF RollbackDestroys, RolledBack, TypeOK
    <3>2. QED
      BY <1>2, <1>4, <1>5, <3>1 DEF ServerInv, Named
  <2>3. CASE OwnVm(s)'
    BY <1>2, <1>3, <1>4, <1>5, <2>3 DEF ServerInv
  <2>4. QED
    BY <2>1, <2>2, <2>3
<1>8. QED
  BY <1>6, <1>7

\* The sizes a saga writes are those ordered.
LEMMA SagaSizes ==
    ASSUME OpsInv, NEW s \in Servers, SagaStep(s), UNCHANGED <<op, at, copy>>
    PROVE  SizesInv(s)'
<1> SUFFICES ASSUME Distinct(s)
             PROVE  /\ db'[s] # None => Ample(db'[s])
                    /\ \A o \in Active : Srv(o) = s => Ample(copy[o])
                    /\ ent'[s].ext # None /\ OwnVm(s)' => Ample(vms'[Target(s)'])
  BY DEF SizesInv, Active, Srv, Distinct, Ample
<1>1. /\ TypeOK /\ ServerInv(s) /\ SizesInv(s) /\ EntityInv(s) /\ ent[s] # None
      /\ Target(s) \in Slots /\ PlanCpu \in Nat /\ PlanDisk \in Nat
  BY SagaHasEntity, PlanAssumption DEF OpsInv
<1>2. Target(s)' = Target(s) /\ EntityInv(s)'
  BY SagaEntity DEF Target, SlotOf
<1>3. db'[s] # None => Ample(db'[s])
  <2>1. CASE Insert(s) /\ db'[s] = ent[s]
    BY <1>1, <2>1 DEF EntityInv, Ample
  <2>2. CASE Commit(s)
    BY <1>1, <2>2, CommitWrites DEF SizesInv, Ample
  <2>3. QED
    BY <1>1, <2>1, <2>2, SagaRows DEF SizesInv
<1>4. ASSUME ent'[s].ext # None, OwnVm(s)' PROVE Ample(vms'[Target(s)])
  <2>1. CASE vms'[Target(s)] = vms[Target(s)] /\ ~Configure(s)
    <3>1. ent[s].ext # None
      BY <1>4, <2>1, SagaEntity
    <3>2. OwnVm(s)
      BY <1>2, <1>4, <2>1 DEF OwnVm
    <3>3. QED
      BY <1>1, <2>1, <3>1, <3>2 DEF SizesInv
  <2>2. CASE vms[Target(s)] = None /\ pc'[s] = "config"
    BY <1>2, <1>4, <2>2 DEF EntityInv
  <2>3. CASE vms[Target(s)] # None /\ (vms'[Target(s)] # vms[Target(s)] \/ Configure(s))
    <3>1. vms[Target(s)] \in VM /\ 1 \in Nat
      BY <1>1, <2>3 DEF TypeOK, StoreTypeOK
    <3>2. /\ WithSizes(vms[Target(s)], PlanCpu, PlanDisk).cpu = PlanCpu
          /\ WithSizes(vms[Target(s)], PlanCpu, PlanDisk).disk = PlanDisk
          /\ WithPw(vms[Target(s)], 1).cpu = vms[Target(s)].cpu
          /\ WithPw(vms[Target(s)], 1).disk = vms[Target(s)].disk
      BY <1>1, <3>1, SizesAssigned, VmAssignments
    <3>3. CASE Configure(s)
      BY <1>1, <3>2, <3>3 DEF Configure, TypeOK, StoreTypeOK, Ample
    <3>4. CASE \E applied \in BOOLEAN : SetPassword(s, applied)
      <4>1. NamedSlot(s) = Target(s) /\ OwnVm(s) /\ ent[s].ext # None
        BY <1>1, <3>4, NamedIsTarget, SagaHasEntity DEF SetPassword, ServerInv, EntityInv, Named
      <4>2. vms' = vms \/ vms' = [vms EXCEPT ![Target(s)] = WithPw(vms[Target(s)], 1)]
        BY <3>4, <4>1 DEF SetPassword
      <4>3. QED
        BY <1>1, <3>2, <4>1, <4>2 DEF TypeOK, StoreTypeOK, Ample, SizesInv
    <3>5. CASE \E handler \in Handlers, applied \in BOOLEAN : ConfigureFails(s, handler, applied)
      <4>1. ent[s].ext = None /\ pc'[s] \in Handlers
        BY <1>1, <3>5 DEF ConfigureFails, Caught, EntityInv, TypeOK
      <4>2. ~Configure(s)
        BY <1>1, <4>1 DEF Configure, Handlers, TypeOK
      <4>3. QED
        BY <1>4, <4>1, <4>2, SagaEntity
    <3>6. CASE RollbackDestroys(s)
      <4>1. NamedSlot(s) = Target(s)
        BY <1>1, <3>6, NamedIsTarget DEF RollbackDestroys, CanDestroy
      <4>2. QED
        BY <1>1, <1>2, <1>4, <3>6, <4>1 DEF RollbackDestroys, OwnVm, TypeOK, StoreTypeOK
    <3>7. QED
      BY <1>1, <2>3, <3>3, <3>4, <3>5, <3>6, SagaHasEntity
      DEF SagaStep, Insert, InsertFails, OpenSession, Commit, UpdateFails, Create, CreateVm,
          CreateFails, ReadStatus, RollbackSkips, RollbackFails, storeVars, Answer, Answering
  <2>4. QED
    BY <1>1, <2>1, <2>2, <2>3, SagaVms DEF Configure
<1>5. \A o \in Active : Srv(o) = s => Ample(copy[o])
  BY <1>1 DEF SizesInv
<1>6. QED
  BY <1>2, <1>3, <1>4, <1>5

\* What may still reach the hypervisor is accounted for after any step of s
\* that accounts for what it adds.
LEMMA FrameLateOps ==
    ASSUME OpsInv, NEW s \in Servers, SagaMoves(s),
           \A r \in late \cap late' : r[1] = "destroy" /\ r[2] = s => OwnVm(s)',
           \A r \in late' :
              r \in late \/ (Accounted(r)' /\ (r[1] = "create" => ent'[r[2]].ext = None))
    PROVE  LateInv' /\ LateCreateInv'
<1> SUFFICES ASSUME NEW r \in late \cap late'
             PROVE  Accounted(r)' /\ (r[1] = "create" => ent'[r[2]].ext = None)
  BY DEF LateInv, LateCreateInv
<1>1. /\ r[2] \in Servers
      /\ db[r[2]] # None /\ pc[r[2]] \in GivenUp /\ r[3] = ent[r[2]].host
      /\ r[1] = "destroy" => pc[r[2]] \in {"raised", "lost"} /\ OwnVm(r[2])
      /\ r[1] = "create" => ent[r[2]].ext = None
      /\ ent[r[2]] # None
  BY DEF OpsInv, LateInv, LateCreateInv, Accounted, OpsTypeOK, TypeOK, Requests, ServerInv
<1>2. CASE r[2] = s
  BY <1>1, <1>2 DEF Accounted, SagaMoves, GivenUp
<1>3. CASE r[2] # s
  <2>1. OwnVm(r[2])' <=> OwnVm(r[2])
    BY <1>1, <1>3, FrameOwn
  <2>2. QED
    BY <1>1, <1>3, <2>1 DEF Accounted, SagaMoves, OthersKept
<1>4. QED
  BY <1>2, <1>3

\* What a saga gives up on belongs to it.
LEMMA SagaLate ==
    ASSUME OpsInv, NEW s \in Servers, SagaStep(s)
    PROVE  LateInv' /\ LateCreateInv'
<1>1. /\ TypeOK /\ ServerInv(s) /\ EntityInv(s) /\ ent[s] # None /\ SagaMoves(s)
  BY SagaHasEntity, SagaStepMoves
<1>2. ent'[s].host = ent[s].host /\ Target(s)' = Target(s)
  BY SagaEntity DEF Target, SlotOf
<1>3. ASSUME NEW handler \in Handlers, NEW sent \in BOOLEAN, CreateFails(s, handler, sent),
             NEW r \in late'
      PROVE  r \in late \/ (Accounted(r)' /\ (r[1] = "create" => ent'[r[2]].ext = None))
  <2>1. pc'[s] \in GivenUp /\ ~Configure(s) /\ db[s] # None /\ ent[s].ext = None
    BY <1>1, <1>3 DEF CreateFails, Caught, Handlers, GivenUp, Configure, TypeOK, ServerInv, EntityInv
  <2>2. ent'[s].ext = None
    BY <2>1, SagaEntity
  <2>3. db'[s] # None
    BY <2>1, <1>1 DEF SagaMoves
  <2>4. r \in late \/ r = <<"create", s, ent[s].host>>
    BY <1>3 DEF CreateFails
  <2>5. QED
    BY <1>2, <2>1, <2>2, <2>3, <2>4 DEF Accounted
<1>4. ASSUME NEW sent \in BOOLEAN, RollbackFails(s, sent), NEW r \in late'
      PROVE  r \in late \/ (Accounted(r)' /\ (r[1] = "create" => ent'[r[2]].ext = None))
  <2>1. pc'[s] = "raised" /\ db[s] # None /\ OwnVm(s) /\ vms' = vms
    BY <1>1, <1>4 DEF RollbackFails, CanDestroy, TypeOK, ServerInv, storeVars
  <2>2. OwnVm(s)' /\ db'[s] # None
    BY <1>1, <1>2, <2>1 DEF OwnVm, SagaMoves
  <2>3. r \in late \/ r = <<"destroy", s, ent[s].host>>
    BY <1>4 DEF RollbackFails
  <2>4. QED
    BY <1>2, <2>1, <2>2, <2>3 DEF Accounted, GivenUp
<1>5. \/ late' = late
      \/ \E handler \in Handlers, sent \in BOOLEAN : CreateFails(s, handler, sent)
      \/ \E sent \in BOOLEAN : RollbackFails(s, sent)
  BY DEF SagaStep, Insert, InsertFails, OpenSession, Commit, UpdateFails, Create,
         Configure, ConfigureFails, SetPassword, ReadStatus, RollbackSkips, RollbackDestroys, Answer, Answering
<1>6. \A r \in late' :
         r \in late \/ (Accounted(r)' /\ (r[1] = "create" => ent'[r[2]].ext = None))
  BY <1>3, <1>4, <1>5
<1>7. \A r \in late : ~(r[1] = "destroy" /\ r[2] = s)
  BY SagaHasEntity DEF OpsInv, LateInv, Accounted, Ends
<1>8. QED
  BY <1>1, <1>6, <1>7, FrameLateOps

\* A saga's step, seen by everyone.
LEMMA SagaStepOps ==
    ASSUME OpsInv, NEW s \in Servers, SagaStep(s), UNCHANGED opVars
    PROVE  OpsInv'
<1>1. SagaMoves(s) /\ UNCHANGED <<op, at, copy, sess, billed, granted>>
  BY SagaStepMoves DEF opVars
<1>2. OpsTypeOK'
  BY <1>1, SagaTypes DEF OpsInv, OpsTypeOK
<1>3. \A t \in Servers : ServerInv(t)' /\ SizesInv(t)'
  BY <1>1, SagaServer, SagaSizes, FrameServerInv
<1>4. QED
  BY <1>1, <1>2, <1>3, SagaLate, FramePlaces, FrameHandlers DEF OpsInv

(***************************************************************************)
(* The other steps about a saga                                            *)
(***************************************************************************)

\* A new request has no row, so nobody holds anything of it yet.
LEMMA ResolveOps ==
    ASSUME OpsInv, NEW s \in Servers, NEW h \in Hosts, Resolve(s, h), UNCHANGED opVars
    PROVE  OpsInv'
<1>1. /\ TypeOK /\ ServerInv(s) /\ db[s] = None /\ NewServer(h) \in Row /\ NewServer(h) # None
      /\ UNCHANGED <<op, at, copy, sess, billed, granted>>
  BY NewServerIsRow, NoneAssumption DEF Resolve, OpsInv, OpsTypeOK, ServerInv, opVars
<1>2. ent'[s] = NewServer(h) /\ pc'[s] = "insert"
  BY <1>1 DEF Resolve, TypeOK
<1>3. SagaMoves(s)
  BY <1>1 DEF Resolve, SagaMoves, OthersKept, TypeOK, Untouched, GivenUp, storeVars
<1>4. TypeOK'
  BY <1>1 DEF Resolve, TypeOK, StoreTypeOK, storeVars
<1>5. ServerInv(s)'
  BY <1>1, <1>2
  DEF Resolve, ServerInv, EntityInv, NewServer, Named, storeVars
<1>6. SizesInv(s)'
  BY <1>1, <1>2 DEF Resolve, SizesInv, NewServer, storeVars, OpsInv, HandlerInv, Active, Srv
<1>7. LateInv' /\ LateCreateInv'
  <2>1. late' = late /\ \A r \in late : r[2] # s
    BY <1>1 DEF Resolve, OpsInv, LateInv, Accounted
  <2>2. QED
    BY <1>3, <2>1, FrameLateOps
<1>8. OpsTypeOK'
  BY <1>1, <1>4 DEF OpsInv, OpsTypeOK
<1>9. QED
  BY <1>1, <1>3, <1>5, <1>6, <1>7, <1>8, FrameServerInv, FramePlaces, FrameHandlers DEF OpsInv

\* A VM that comes late belongs to a saga without an identifier.
LEMMA LateCreateOps ==
    ASSUME OpsInv, NEW s \in Servers, NEW h \in Hosts, NEW cloned \in BOOLEAN,
           LateCreate(s, h, cloned), UNCHANGED opVars
    PROVE  OpsInv'
<1>1. /\ TypeOK /\ ServerInv(s) /\ SizesInv(s)
      /\ UNCHANGED <<op, at, copy, sess, billed, granted, db, hosts, pc, ent, loaded>>
  BY DEF LateCreate, OpsInv, OpsTypeOK, opVars
<1>2. /\ db[s] # None /\ pc[s] \in GivenUp /\ h = ent[s].host /\ ent[s].ext = None /\ ent[s] # None
      /\ SlotOf(s, h) = Target(s) /\ Target(s) \in Slots
  <2>1. db[s] # None /\ pc[s] \in GivenUp /\ h = ent[s].host /\ ent[s].ext = None
    BY DEF LateCreate, OpsInv, LateInv, LateCreateInv, Accounted
  <2>2. QED
    BY <1>1, <2>1, TargetIsSlot DEF Target, SlotOf, ServerInv
<1>3. /\ vms[Target(s)] = None /\ vms'[Target(s)] = NewVm(s, cloned)
      /\ vms' = [vms EXCEPT ![Target(s)] = NewVm(s, cloned)]
      /\ NewVm(s, cloned) \in VM /\ NewVm(s, cloned).owner = s /\ NewVm(s, cloned) # None
  BY <1>1, <1>2, NewVmIsVm, NoneAssumption DEF LateCreate, CreateVm, TypeOK, StoreTypeOK
<1>4. SagaMoves(s)
  BY <1>1, <1>2, <1>3 DEF SagaMoves, OthersKept, TypeOK, StoreTypeOK, GivenUp, Untouched
<1>5. TypeOK'
  BY <1>1, <1>2, <1>3 DEF LateCreate, TypeOK, StoreTypeOK
<1>6. OwnVm(s)'
  BY <1>1, <1>3 DEF OwnVm, Target, SlotOf
<1>7. ServerInv(s)'
  BY <1>1, <1>6 DEF ServerInv, EntityInv, RowOf
<1>8. SizesInv(s)'
  BY <1>1, <1>2 DEF SizesInv, Active, Srv, Ample
<1>9. LateInv' /\ LateCreateInv'
  <2>1. late' \subseteq late
    BY DEF LateCreate
  <2>2. QED
    BY <1>4, <1>6, <2>1, FrameLateOps
<1>10. OpsTypeOK'
  BY <1>1, <1>5 DEF OpsInv, OpsTypeOK
<1>11. QED
  BY <1>1, <1>4, <1>7, <1>8, <1>9, <1>10, FrameServerInv, FramePlaces, FrameHandlers DEF OpsInv

\* A VM destroyed late is the one its own saga failed to destroy.
LEMMA LateDestroyOps ==
    ASSUME OpsInv, NEW s \in Servers, NEW h \in Hosts, LateDestroy(s, h), UNCHANGED opVars
    PROVE  OpsInv'
<1>1. /\ TypeOK /\ ServerInv(s) /\ SizesInv(s)
      /\ UNCHANGED <<op, at, copy, sess, billed, granted, db, hosts, pc, ent, loaded>>
  BY DEF LateDestroy, OpsInv, OpsTypeOK, opVars
<1>2. /\ db[s] # None /\ pc[s] \in {"raised", "lost"} /\ h = ent[s].host /\ OwnVm(s) /\ ent[s] # None
      /\ SlotOf(s, h) = Target(s) /\ Target(s) \in Slots
  <2>1. db[s] # None /\ pc[s] \in {"raised", "lost"} /\ h = ent[s].host /\ OwnVm(s)
    BY DEF LateDestroy, OpsInv, LateInv, Accounted
  <2>2. QED
    BY <1>1, <2>1, TargetIsSlot DEF Target, SlotOf, ServerInv
<1>3. vms' = [vms EXCEPT ![Target(s)] = None] /\ vms'[Target(s)] = None
  BY <1>1, <1>2 DEF LateDestroy, TypeOK, StoreTypeOK
<1>4. SagaMoves(s)
  BY <1>1, <1>2, <1>3 DEF SagaMoves, OthersKept, TypeOK, StoreTypeOK, GivenUp, Untouched, OwnVm
<1>5. TypeOK'
  BY <1>1, <1>2, <1>3 DEF LateDestroy, TypeOK, StoreTypeOK
<1>6. ~OwnVm(s)'
  BY <1>1, <1>3 DEF OwnVm, Target, SlotOf
<1>7. ServerInv(s)'
  BY <1>1, <1>2 DEF ServerInv, EntityInv, RowOf, Named
<1>8. SizesInv(s)'
  BY <1>1, <1>6 DEF SizesInv, Active, Srv, Ample
<1>9. LateInv' /\ LateCreateInv'
  <2>1. late' = late \ {<<"destroy", s, ent[s].host>>}
    BY <1>2 DEF LateDestroy
  <2>2. \A r \in late : r[1] = "destroy" /\ r[2] = s => r = <<"destroy", s, ent[s].host>>
    BY <1>1 DEF OpsInv, LateInv, Accounted, TypeOK, Requests
  <2>3. QED
    BY <1>4, <2>1, <2>2, FrameLateOps
<1>10. OpsTypeOK'
  BY <1>1, <1>5 DEF OpsInv, OpsTypeOK
<1>11. QED
  BY <1>1, <1>4, <1>7, <1>8, <1>9, <1>10, FrameServerInv, FramePlaces, FrameHandlers DEF OpsInv

(***************************************************************************)
(* What everything but the sagas leaves alone                              *)
(***************************************************************************)

\* The sagas stay where they are; rows and VMs are changed, never added,
\* removed or given away.
StoreMoves ==
    /\ UNCHANGED <<pc, ent, late>>
    /\ \A t \in Servers :
          \/ db'[t] = db[t]
          \/ db[t] # None /\ db'[t] # None /\ RowOf(t, db'[t])
    /\ \A x \in Slots :
          \/ vms'[x] = vms[x]
          \/ vms[x] # None /\ vms'[x] # None /\ vms'[x].owner = vms[x].owner

HandlersKept(o) ==
    \A p \in Ops : p # o => op'[p] = op[p] /\ at'[p] = at[p] /\ copy'[p] = copy[p]

\* Rows that stay rows of their server, and VMs that stay where they are,
\* are all that sagas and late calls rely on.
LEMMA StoreFrame ==
    ASSUME OpsInv, StoreMoves
    PROVE  /\ \A t \in Servers : ServerInv(t)'
           /\ \A t \in Servers : ent[t] # None => (OwnVm(t)' <=> OwnVm(t))
           /\ PlacementInv' /\ LateInv' /\ LateCreateInv'
<1>1. ASSUME NEW t \in Servers, ent[t] # None
      PROVE  /\ Target(t) \in Slots /\ Target(t)' = Target(t)
             /\ OwnVm(t)' <=> OwnVm(t)
  <2>1. Target(t) \in Slots /\ Target(t)' = Target(t)
    BY <1>1, TargetIsSlot DEF OpsInv, OpsTypeOK, StoreMoves, Target, SlotOf
  <2>2. QED
    BY <2>1 DEF StoreMoves, OwnVm
<1>2. ASSUME NEW t \in Servers PROVE ServerInv(t)'
  <2>1. ServerInv(t) /\ EntityInv(t) /\ pc'[t] = pc[t] /\ ent'[t] = ent[t]
    BY DEF OpsInv, ServerInv, StoreMoves
  <2>2. EntityInv(t)'
    BY <2>1 DEF EntityInv
  <2>3. db'[t] # None => db[t] # None /\ RowOf(t, db[t])'
    BY <2>1 DEF StoreMoves, ServerInv, RowOf
  <2>4. db[t] # None => db'[t] # None
    BY DEF StoreMoves
  <2>5. pc[t] # "new" => ent[t] # None
    BY <2>1 DEF EntityInv
  <2>6. QED
    BY <1>1, <2>1, <2>2, <2>3, <2>4, <2>5 DEF ServerInv, Named
<1>3. PlacementInv'
  <2> SUFFICES ASSUME NEW x \in Slots, vms'[x] # None
               PROVE  LET w == vms'[x].owner
                      IN  db'[w] # None /\ pc'[w] \notin Untouched /\ x = SlotOf(w, ent'[w].host)
    BY DEF PlacementInv, Target, SlotOf
  <2>1. vms[x] # None /\ vms'[x].owner = vms[x].owner
    BY DEF StoreMoves
  <2>2. /\ vms[x].owner \in Servers
        /\ db[vms[x].owner] # None
        /\ pc[vms[x].owner] \notin Untouched
        /\ x = Target(vms[x].owner)
    BY <2>1 DEF OpsInv, PlacementInv, OpsTypeOK, TypeOK, StoreTypeOK, VM
  <2>3. QED
    BY <2>1, <2>2 DEF StoreMoves, Target, SlotOf
<1>4. LateInv' /\ LateCreateInv'
  <2> SUFFICES ASSUME NEW r \in late
               PROVE  Accounted(r)' /\ (r[1] = "create" => ent'[r[2]].ext = None)
    BY DEF LateInv, LateCreateInv, StoreMoves
  <2>1. /\ r[2] \in Servers
        /\ db[r[2]] # None /\ pc[r[2]] \in GivenUp /\ r[3] = ent[r[2]].host
        /\ r[1] = "destroy" => pc[r[2]] \in {"raised", "lost"} /\ OwnVm(r[2])
        /\ r[1] = "create" => ent[r[2]].ext = None
        /\ ent[r[2]] # None
    BY DEF OpsInv, LateInv, LateCreateInv, Accounted, OpsTypeOK, TypeOK, Requests, ServerInv
  <2>2. OwnVm(r[2])' <=> OwnVm(r[2])
    BY <1>1, <2>1
  <2>3. QED
    BY <2>1, <2>2 DEF StoreMoves, Accounted
<1>5. QED
  BY <1>1, <1>2, <1>3, <1>4

\* A handler that is not part of the step holds what it held.
LEMMA StoreHandlers ==
    ASSUME OpsInv, StoreMoves, NEW o \in Ops, op'[o] = op[o], at'[o] = at[o], copy'[o] = copy[o]
    PROVE  HandlerInv(o)'
<1> SUFFICES ASSUME o \in Active PROVE HandlerInv(o)'
  BY DEF HandlerInv, Active
<1>1. HandlerInv(o) /\ Srv(o) \in Servers
  BY DEF OpsInv, HandlerInv, Srv
<1>2. db'[Srv(o)] # None /\ RowOf(Srv(o), copy[o])'
  BY <1>1 DEF StoreMoves, HandlerInv, RowOf, Srv
<1>3. QED
  BY <1>1, <1>2 DEF HandlerInv, Active, Srv, Kind

\* The sizes of a server only the step itself could change.
LEMMA StoreSizes ==
    ASSUME OpsInv, StoreMoves, NEW o \in Ops, NEW s \in Servers, HandlersKept(o),
           \A t \in Servers : t # s => db'[t] = db[t],
           \A x \in Slots : vms'[x] = vms[x] \/ x[2] = VmidOf[s],
           o \in Active' => Srv(o)' = s,
           SizesInv(s)'
    PROVE  \A t \in Servers : SizesInv(t)'
<1> SUFFICES ASSUME NEW t \in Servers, t # s, Distinct(t) PROVE SizesInv(t)'
  BY DEF SizesInv, Distinct
<1>1. SizesInv(t) /\ ent'[t] = ent[t] /\ db'[t] = db[t]
  BY DEF OpsInv, StoreMoves
<1>2. \A p \in Active' : Srv(p)' = t => p \in Active /\ Srv(p) = t /\ copy'[p] = copy[p]
  BY DEF HandlersKept, Active, Srv
<1>3. ASSUME ent[t] # None, OwnVm(t)'
      PROVE  OwnVm(t) /\ vms'[Target(t)'] = vms[Target(t)]
  <2>1. Target(t) \in Slots /\ Target(t)' = Target(t) /\ Target(t)[2] = VmidOf[t]
    BY <1>3, TargetIsSlot DEF OpsInv, OpsTypeOK, StoreMoves, Target, SlotOf
  <2>2. VmidOf[t] # VmidOf[s]
    BY DEF Distinct
  <2>3. QED
    BY <1>3, <2>1, <2>2 DEF OwnVm
<1>4. QED
  BY <1>1, <1>2, <1>3 DEF SizesInv, Ample, Distinct

(***************************************************************************)
(* Hosts, guests and crashes                                               *)
(***************************************************************************)

\* An admin adds or deletes a host.
LEMMA HostsOps ==
    ASSUME OpsInv, NEW h \in Hosts, AddHost(h) \/ DeleteHost(h), UNCHANGED <<sagaVars, opVars>>
    PROVE  OpsInv'
<1>1. UNCHANGED <<db, vms, pc, ent, loaded, late, op, at, copy, sess, billed, granted>>
      /\ hosts' \in SUBSET Hosts
  BY DEF AddHost, DeleteHost, sagaVars, opVars, OpsInv, OpsTypeOK, TypeOK, StoreTypeOK
<1>2. StoreMoves /\ OpsTypeOK'
  BY <1>1 DEF StoreMoves, OpsInv, OpsTypeOK, TypeOK, StoreTypeOK
<1>3. \A s \in Servers : SizesInv(s)'
  BY <1>1 DEF OpsInv, SizesInv, Distinct, Ample, Active, Srv, OwnVm, Target, SlotOf
<1>4. QED
  BY <1>1, <1>2, <1>3, StoreFrame, StoreHandlers DEF OpsInv

\* A VM changes its run state by itself.
LEMMA DriftOps ==
    ASSUME OpsInv, NEW x \in Slots, NEW run \in RunStates, Drift(x, run), UNCHANGED <<sagaVars, opVars>>
    PROVE  OpsInv'
<1>1. UNCHANGED <<db, hosts, pc, ent, loaded, late, op, at, copy, sess, billed, granted>>
  BY DEF Drift, sagaVars, opVars
<1>2. /\ vms[x] \in VM /\ vms' = [vms EXCEPT ![x] = WithRun(vms[x], run)]
      /\ vms \in [Slots -> VM \cup {None}]
  BY DEF Drift, OpsInv, OpsTypeOK, TypeOK, StoreTypeOK
<1>3. /\ WithRun(vms[x], run) \in VM /\ WithRun(vms[x], run).owner = vms[x].owner
      /\ WithRun(vms[x], run).cpu = vms[x].cpu /\ WithRun(vms[x], run).disk = vms[x].disk
  BY <1>2, VmAssignments
<1>4. StoreMoves /\ OpsTypeOK'
  BY <1>1, <1>2, <1>3, NoneAssumption DEF StoreMoves, OpsInv, OpsTypeOK, TypeOK, StoreTypeOK
<1>5. ASSUME NEW s \in Servers PROVE SizesInv(s)'
  <2>1. SizesInv(s)
    BY DEF OpsInv
  <2>2. ent[s] # None => /\ Target(s) \in Slots /\ Target(s)' = Target(s)
                         /\ OwnVm(s)' <=> OwnVm(s)
    BY <1>1, <1>4, StoreFrame, TargetIsSlot DEF OpsInv, OpsTypeOK, Target, SlotOf
  <2>3. \A y \in Slots : vms[y] # None =>
           vms'[y].cpu = vms[y].cpu /\ vms'[y].disk = vms[y].disk
    BY <1>2, <1>3
  <2>4. QED
    BY <1>1, <2>1, <2>2, <2>3 DEF SizesInv, Ample, Distinct, Active, Srv, OwnVm
<1>6. QED
  BY <1>1, <1>4, <1>5, StoreFrame, StoreHandlers DEF OpsInv

\* No handler survives the process.
LEMMA CrashEndsAll ==
    ASSUME NEW sent, CrashAll(sent)
    PROVE  \A o \in Ops : o \notin Active'
<1> SUFFICES ASSUME NEW o \in Ops PROVE at'[o] \notin Steps
  BY DEF Active
<1>1. at'[o] = IF o \in Busy THEN "lost" ELSE at[o]
  BY DEF CrashAll
<1>2. QED
  BY <1>1 DEF Busy, Steps

\* A crash strands every saga and ends every handler.
LEMMA CrashOps ==
    ASSUME OpsInv, NEW sent \in SUBSET Unanswered, CrashAll(sent)
    PROVE  OpsInv'
<1>1. ASSUME NEW t \in Servers
      PROVE  /\ pc'[t] = IF t \in InFlight THEN "lost" ELSE pc[t]
             /\ ent'[t] = ent[t] /\ db'[t] = db[t]
             /\ Target(t)' = Target(t) /\ OwnVm(t)' = OwnVm(t)
             /\ ServerInv(t) /\ EntityInv(t) /\ SizesInv(t)
  BY DEF CrashAll, Crash, storeVars, OpsInv, ServerInv, Target, SlotOf, OwnVm
<1>2. vms' = vms /\ hosts' = hosts /\ db' = db /\ ent' = ent /\ TypeOK
  BY DEF CrashAll, Crash, storeVars, OpsInv, OpsTypeOK
<1>3. \A o \in Ops : o \notin Active'
  BY CrashEndsAll
<1>4. ASSUME NEW t \in InFlight, pc[t] = "create" \/ (pc[t] = "rollback" /\ CanDestroy(t))
      PROVE  /\ t \in Servers /\ ent[t] \in Row /\ ent[t].host \in Hosts /\ db[t] # None
             /\ pc[t] = "rollback" => OwnVm(t)
             /\ pc[t] = "create" => ent[t].ext = None
  <2>1. t \in Servers /\ ent[t] # None /\ ent[t] \in Row
    BY <1>1, <1>2, <1>4 DEF InFlight, EntityInv, TypeOK
  <2>2. QED
    BY <1>1, <1>4, <2>1 DEF ServerInv, EntityInv, CanDestroy, Row
<1>5. ASSUME NEW r \in Unanswered
      PROVE  /\ r \in Requests
             /\ r[2] \in InFlight /\ r[3] = ent[r[2]].host /\ db[r[2]] # None
             /\ r[1] = "destroy" => OwnVm(r[2])
             /\ r[1] = "create" => ent[r[2]].ext = None
  <2>1. PICK t \in InFlight :
           \/ pc[t] = "create" /\ r = <<"create", t, ent[t].host>>
           \/ pc[t] = "rollback" /\ CanDestroy(t) /\ r = <<"destroy", t, ent[t].host>>
    BY DEF Unanswered
  <2>2. QED
    BY <1>4, <2>1 DEF Requests
<1>6. TypeOK'
  <2>1. pc' \in [Servers -> {"new", "insert"} \cup Saves \cup Calls \cup Answering \cup Ends]
    BY <1>2 DEF CrashAll, Crash, Ends, TypeOK
  <2>2. late' \in SUBSET Requests
    BY <1>2, <1>5 DEF CrashAll, Crash, TypeOK
  <2>3. QED
    BY <1>2, <2>1, <2>2 DEF CrashAll, Crash, TypeOK, StoreTypeOK
<1>7. OpsTypeOK'
  BY <1>6 DEF CrashAll, OpsInv, OpsTypeOK, Answers, Busy
<1>8. ASSUME NEW t \in Servers PROVE ServerInv(t)' /\ SizesInv(t)'
  <2>1. CASE t \in InFlight
    BY <1>1, <1>3, <2>1 DEF ServerInv, SizesInv, EntityInv, RowOf, InFlight, Named, Ends, Ample, Active, Srv, Distinct, Target, SlotOf, CrashAll, Crash, storeVars
  <2>2. CASE t \notin InFlight
    BY <1>1, <1>3, <2>2 DEF ServerInv, SizesInv, EntityInv, RowOf, InFlight, Named, Ends, Ample, Active, Srv, Distinct, Target, SlotOf, CrashAll, Crash, storeVars
  <2>3. QED
    BY <2>1, <2>2
<1>9. PlacementInv'
  BY <1>1, <1>2 DEF OpsInv, PlacementInv, TypeOK, StoreTypeOK, VM, Target, SlotOf, Untouched
<1>10. LateInv' /\ LateCreateInv'
  <2> SUFFICES ASSUME NEW r \in late \cup Unanswered
               PROVE  Accounted(r)' /\ (r[1] = "create" => ent'[r[2]].ext = None)
    BY DEF CrashAll, Crash, LateInv, LateCreateInv
  <2>1. CASE r \in Unanswered
    BY <1>1, <1>2, <1>5, <2>1 DEF Accounted, GivenUp, InFlight
  <2>2. CASE r \in late
    <3>1. Accounted(r) /\ r[2] \in Servers /\ (r[1] = "create" => ent[r[2]].ext = None)
      BY <1>2, <2>2 DEF OpsInv, LateInv, LateCreateInv, TypeOK, Requests
    <3>2. QED
      BY <1>1, <1>2, <3>1 DEF Accounted, GivenUp, InFlight, Ends
  <2>3. QED
    BY <2>1, <2>2
<1>11. \A o \in Ops : HandlerInv(o)'
  BY <1>3 DEF HandlerInv
<1>12. QED
  BY <1>7, <1>8, <1>9, <1>10, <1>11 DEF OpsInv

(***************************************************************************)
(* The steps of a handler                                                  *)
(***************************************************************************)

\* What a handler at work has in hand.
LEMMA HandlerFacts ==
    ASSUME OpsInv, NEW o \in Ops, o \in Active
    PROVE  /\ Srv(o) \in Servers /\ Kind(o) \in Kinds /\ op[o] \in [kind: Kinds, srv: Servers]
           /\ copy[o] \in Row /\ copy[o] # None
           /\ db[Srv(o)] \in Row /\ db[Srv(o)] # None
           /\ ent[Srv(o)] # None /\ ent[Srv(o)] \in Row
           /\ RowOf(Srv(o), copy[o]) /\ RowOf(Srv(o), db[Srv(o)])
           /\ Kind(o) = "extend" => at[o] = "save"
           /\ Kind(o) # "extend" => copy[o].ext # None
           /\ Distinct(Srv(o)) => Ample(copy[o]) /\ Ample(db[Srv(o)])
<1>1. HandlerInv(o) /\ Srv(o) \in Servers
  BY DEF OpsInv, HandlerInv, Srv
<1>2. TypeOK /\ copy[o] \in Row /\ ServerInv(Srv(o)) /\ SizesInv(Srv(o))
  BY <1>1 DEF OpsInv, OpsTypeOK, HandlerInv
<1>3. QED
  BY <1>1, <1>2 DEF HandlerInv, ServerInv, SizesInv, TypeOK, StoreTypeOK, Kind

\* The VM a handler talks to is in the slot its server derived.
LEMMA HandlerSlot ==
    ASSUME OpsInv, NEW o \in Ops, o \in Active, Kind(o) # "extend"
    PROVE  /\ Slot(o) = Target(Srv(o)) /\ Slot(o) \in Slots /\ Slot(o)[2] = VmidOf[Srv(o)]
           /\ ent[Srv(o)].ext # None
           /\ Vm(o) # None => Vm(o) \in VM
           /\ Distinct(Srv(o)) /\ Vm(o) # None => OwnVm(Srv(o)) /\ Ample(Vm(o))
<1>1. /\ TypeOK /\ Srv(o) \in Servers /\ ent[Srv(o)] # None /\ copy[o].ext # None
      /\ RowOf(Srv(o), copy[o]) /\ EntityInv(Srv(o)) /\ SizesInv(Srv(o))
  BY HandlerFacts DEF OpsInv, OpsTypeOK, ServerInv
<1>2. copy[o].ext = VmidOf[Srv(o)] /\ copy[o].host = ent[Srv(o)].host /\ ent[Srv(o)].ext # None
  BY <1>1 DEF RowOf, EntityInv
<1>3. Slot(o) = Target(Srv(o)) /\ Slot(o) \in Slots /\ Slot(o)[2] = VmidOf[Srv(o)]
  BY <1>1, <1>2, TargetIsSlot DEF Slot, Target, SlotOf
<1>4. Vm(o) # None => Vm(o) \in VM
  BY <1>1, <1>3 DEF Vm, TypeOK, StoreTypeOK
<1>5. ASSUME Distinct(Srv(o)), Vm(o) # None
      PROVE  OwnVm(Srv(o)) /\ Ample(Vm(o))
  <2>1. vms[Slot(o)].owner \in Servers /\ Slot(o) = Target(vms[Slot(o)].owner)
    BY <1>3, <1>4, <1>5 DEF OpsInv, PlacementInv, Vm, VM
  <2>2. vms[Slot(o)].owner = Srv(o)
    BY <1>3, <1>5, <2>1 DEF Distinct, Target, SlotOf
  <2>3. QED
    BY <1>1, <1>2, <1>3, <1>5, <2>2 DEF OwnVm, Vm, SizesInv
<1>6. QED
  BY <1>2, <1>3, <1>4, <1>5

\* Where a handler has no call left to make.
Over == {"answer"} \cup Answers

\* How a handler goes on.
LEMMA GoOnMoves ==
    ASSUME OpsInv, NEW o \in Ops, NEW step \in Steps \cup Over, NEW entity \in Row,
           GoOn(o, step, entity)
    PROVE  /\ HandlersKept(o)
           /\ op' \in [Ops -> [kind: Kinds, srv: Servers] \cup {None}]
           /\ at' \in [Ops -> {"idle", "answer"} \cup Steps \cup Answers]
           /\ copy' \in [Ops -> Row \cup {None}]
           /\ step \in Over => o \notin Active'
           /\ step \in Steps => /\ op'[o] = op[o] /\ at'[o] = step /\ copy'[o] = entity
                               /\ Srv(o)' = Srv(o) /\ Kind(o)' = Kind(o)
<1>1. /\ op \in [Ops -> [kind: Kinds, srv: Servers] \cup {None}]
      /\ at \in [Ops -> {"idle", "answer"} \cup Steps \cup Answers]
      /\ copy \in [Ops -> Row \cup {None}]
  BY DEF OpsInv, OpsTypeOK
<1>2. step \in Steps => step \notin Over
  BY DEF Steps, Over, Answers
<1>3. HandlersKept(o)
  BY <1>1 DEF GoOn, HandlersKept
<1>4. /\ op' \in [Ops -> [kind: Kinds, srv: Servers] \cup {None}]
      /\ at' \in [Ops -> {"idle", "answer"} \cup Steps \cup Answers]
      /\ copy' \in [Ops -> Row \cup {None}]
  BY <1>1 DEF GoOn, Over
<1>5. at'[o] = step /\ (step \in Steps => op'[o] = op[o] /\ copy'[o] = entity)
  BY <1>1, <1>2 DEF GoOn, Over
<1>6. step \in Over => o \notin Active'
  BY <1>2, <1>5 DEF Active
<1>7. QED
  BY <1>3, <1>4, <1>5, <1>6 DEF Srv, Kind

\* A handler whose step keeps to its own server and takes no size below those
\* ordered keeps the invariant.
LEMMA HandlerStep ==
    ASSUME OpsInv, NEW o \in Ops, o \in Active, NEW s \in Servers, Srv(o) = s,
           NEW step \in (Steps \ {"power"}) \cup Over, NEW entity \in Row, GoOn(o, step, entity),
           UNCHANGED <<hosts, sagaVars>>, StoreMoves,
           db' \in [Servers -> Row \cup {None}], vms' \in [Slots -> VM \cup {None}],
           sess' \in [Ops -> Row \cup {None}],
           billed' \in [Servers -> Nat], granted' \in [Servers -> Nat],
           \A t \in Servers : t # s => db'[t] = db[t],
           \A x \in Slots : vms'[x] = vms[x] \/ x[2] = VmidOf[s],
           RowOf(s, entity),
           IF Kind(o) = "extend" THEN step \in Over \cup {"save"} ELSE entity.ext # None,
           Distinct(s) => /\ Ample(entity)
                               /\ Ample(db'[s])
                               /\ \A x \in Slots : vms'[x] = vms[x] \/ Ample(vms'[x])
    PROVE  OpsInv'
<1>1. /\ TypeOK /\ op[o] \in [kind: Kinds, srv: Servers]
      /\ db[s] # None /\ ent[s] # None /\ SizesInv(s)
  BY HandlerFacts DEF OpsInv, OpsTypeOK
<1>2. /\ HandlersKept(o)
      /\ op' \in [Ops -> [kind: Kinds, srv: Servers] \cup {None}]
      /\ at' \in [Ops -> {"idle", "answer"} \cup Steps \cup Answers]
      /\ copy' \in [Ops -> Row \cup {None}]
      /\ step \in Over => o \notin Active'
      /\ step \in Steps => /\ op'[o] = op[o] /\ at'[o] = step /\ copy'[o] = entity
                          /\ Srv(o)' = s /\ Kind(o)' = Kind(o)
  BY GoOnMoves
<1>3. OpsTypeOK'
  BY <1>1, <1>2 DEF OpsTypeOK, TypeOK, StoreTypeOK, sagaVars
<1>4. db'[s] # None /\ ent' = ent
  BY <1>1 DEF StoreMoves
<1>5. HandlerInv(o)'
  <2> SUFFICES ASSUME step \in Steps PROVE HandlerInv(o)'
    BY <1>2 DEF HandlerInv
  <2>1. step # "power" /\ step \notin Over /\ entity # None
    BY NoneAssumption DEF Steps, Over, Answers
  <2>2. RowOf(Srv(o), copy[o])'
    BY <1>2, <1>4 DEF RowOf
  <2>3. QED
    BY <1>1, <1>2, <1>4, <2>1, <2>2 DEF HandlerInv
<1>6. \A p \in Ops : HandlerInv(p)'
  BY <1>2, <1>5, StoreHandlers DEF HandlersKept
<1>7. SizesInv(s)'
  <2> SUFFICES ASSUME Distinct(s)
               PROVE  /\ \A p \in Active' : Srv(p)' = s => Ample(copy'[p])
                      /\ ent[s].ext # None /\ OwnVm(s)' => Ample(vms'[Target(s)'])
    BY <1>4 DEF SizesInv, Distinct, Ample, OwnVm, Target, SlotOf
  <2>1. ASSUME NEW p \in Active', Srv(p)' = s PROVE Ample(copy'[p])
    <3>1. CASE p = o
      BY <1>2, <2>1, <3>1
    <3>2. CASE p # o
      BY <1>1, <1>2, <2>1, <3>2 DEF HandlersKept, Active, Srv, SizesInv
    <3>3. QED
      BY <3>1, <3>2
  <2>2. ASSUME ent[s].ext # None, OwnVm(s)' PROVE Ample(vms'[Target(s)'])
    <3>1. Target(s) \in Slots /\ Target(s)' = Target(s) /\ OwnVm(s)
      BY <1>1, <1>4, <2>2, TargetIsSlot, StoreFrame DEF Target, SlotOf
    <3>2. QED
      BY <1>1, <2>2, <3>1 DEF SizesInv
  <2>3. QED
    BY <2>1, <2>2
<1>8. o \in Active' => Srv(o)' = s
  BY <1>2
<1>9. \A t \in Servers : SizesInv(t)'
  BY <1>1, <1>2, <1>7, <1>8, StoreSizes
<1>10. QED
  BY <1>3, <1>6, <1>9, StoreFrame DEF OpsInv

\* A step that reads, decides or fails.
LEMMA HandlerThinks ==
    ASSUME OpsInv, NEW o \in Ops, o \in Active,
           NEW step \in (Steps \ {"power"}) \cup Over, NEW entity \in Row, GoOn(o, step, entity),
           UNCHANGED <<vars, granted>>,
           sess' \in [Ops -> Row \cup {None}], billed' \in [Servers -> Nat],
           RowOf(Srv(o), entity),
           IF Kind(o) = "extend" THEN step \in Over \cup {"save"} ELSE entity.ext # None,
           Distinct(Srv(o)) => Ample(entity)
    PROVE  OpsInv'
<1>1. UNCHANGED <<db, hosts, vms, pc, ent, loaded, late, sagaVars, granted>>
  BY DEF vars, storeVars, sagaVars
<1>2. /\ StoreMoves
      /\ db' \in [Servers -> Row \cup {None}] /\ vms' \in [Slots -> VM \cup {None}]
      /\ granted' \in [Servers -> Nat]
  BY <1>1 DEF StoreMoves, OpsInv, OpsTypeOK, TypeOK, StoreTypeOK
<1>3. Distinct(Srv(o)) => Ample(db'[Srv(o)])
  BY <1>1, HandlerFacts
<1>4. Srv(o) \in Servers
  BY HandlerFacts
<1>5. QED
  BY <1>1, <1>2, <1>3, <1>4, HandlerStep

\* A step that changes the VM the handler talks to.
LEMMA HandlerSetsVm ==
    ASSUME OpsInv, NEW o \in Ops, o \in Active, Kind(o) # "extend",
           NEW step \in (Steps \ {"power"}) \cup Over, NEW entity \in Row, GoOn(o, step, entity),
           UNCHANGED <<db, hosts, sagaVars, sess, billed, granted>>,
           NEW vm \in VM, Vm(o) # None, SetVm(o, vm), vm.owner = Vm(o).owner,
           RowOf(Srv(o), entity), entity.ext # None,
           Distinct(Srv(o)) => Ample(entity) /\ Ample(vm)
    PROVE  OpsInv'
<1>1. Slot(o) \in Slots /\ Slot(o)[2] = VmidOf[Srv(o)] /\ TypeOK /\ vm # None
  BY HandlerSlot, NoneAssumption DEF OpsInv, OpsTypeOK
<1>2. /\ vms' \in [Slots -> VM \cup {None}] /\ vms'[Slot(o)] = vm
      /\ \A x \in Slots : x # Slot(o) => vms'[x] = vms[x]
  BY <1>1 DEF SetVm, TypeOK, StoreTypeOK
<1>3. StoreMoves
  BY <1>1, <1>2 DEF StoreMoves, sagaVars, Vm
<1>4. /\ db' \in [Servers -> Row \cup {None}] /\ sess' \in [Ops -> Row \cup {None}]
      /\ billed' \in [Servers -> Nat] /\ granted' \in [Servers -> Nat]
  BY DEF OpsInv, OpsTypeOK, TypeOK, StoreTypeOK
<1>5. Distinct(Srv(o)) => Ample(db'[Srv(o)])
  BY HandlerFacts
<1>6. \A x \in Slots : vms'[x] = vms[x] \/ x[2] = VmidOf[Srv(o)]
  BY <1>1, <1>2
<1>7. Distinct(Srv(o)) => \A x \in Slots : vms'[x] = vms[x] \/ Ample(vms'[x])
  BY <1>2
<1>8. Srv(o) \in Servers
  BY HandlerFacts
<1>9. QED
  BY <1>1, <1>2, <1>3, <1>4, <1>5, <1>6, <1>7, <1>8, HandlerStep

\* A power command asks for a known run state and saves a known status.
LEMMA PowerCommands ==
    \A k \in DOMAIN Power : Power[k].run \in RunStates /\ Power[k].status \in Statuses
BY DEF Power, RunStates, Statuses

\* Whoever holds a row of s and changes its status, days or sizes holds one still.
LEMMA StillRowOf ==
    ASSUME NEW s, NEW r \in Row, RowOf(s, r)
    PROVE  /\ \A st \in Statuses : RowOf(s, WithStatus(r, st))
           /\ \A n \in Nat : RowOf(s, WithDays(r, n))
           /\ \A m, n \in Nat : RowOf(s, Resized(r, m, n))
<1>1. \A st \in Statuses : RowOf(s, WithStatus(r, st))
  BY EntityAssignments DEF RowOf
<1>2. \A n \in Nat : RowOf(s, WithDays(r, n))
  <2> SUFFICES ASSUME NEW n \in Nat PROVE RowOf(s, WithDays(r, n))
    OBVIOUS
  <2>1. WithDays(r, n).host = r.host /\ WithDays(r, n).ext = r.ext
    BY MoreAssignments
  <2>2. QED
    BY <2>1 DEF RowOf
<1>3. \A m, n \in Nat : RowOf(s, Resized(r, m, n))
  <2> SUFFICES ASSUME NEW m \in Nat, NEW n \in Nat PROVE RowOf(s, Resized(r, m, n))
    OBVIOUS
  <2>1. Resized(r, m, n).host = r.host /\ Resized(r, m, n).ext = r.ext
    BY DEF Resized, Row
  <2>2. QED
    BY <2>1 DEF RowOf
<1>4. QED
  BY <1>1, <1>2, <1>3

\* A power command changes the run state of a VM at most.
LEMMA PowerCallOps ==
    ASSUME OpsInv, NEW o \in Ops, PowerCall(o)
    PROVE  OpsInv'
<1>1. o \in Active /\ HandlerInv(o) /\ at[o] = "power"
  BY DEF PowerCall, Active, Steps, OpsInv
<1>2. Kind(o) \in DOMAIN Power /\ Kind(o) # "extend"
  BY <1>1, HandlerFacts DEF HandlerInv
<1>3. /\ copy[o] \in Row /\ RowOf(Srv(o), copy[o]) /\ copy[o].ext # None /\ Vm(o) \in VM /\ Vm(o) # None
      /\ Distinct(Srv(o)) => Ample(copy[o]) /\ Ample(Vm(o))
  BY <1>1, <1>2, HandlerFacts, HandlerSlot DEF PowerCall
<1>4. /\ Power[Kind(o)].run \in RunStates /\ Power[Kind(o)].status \in Statuses
  BY <1>2, PowerCommands
<1>5. PICK run \in {Vm(o).run, Power[Kind(o)].run} : SetVm(o, WithRun(Vm(o), run))
  BY DEF PowerCall
<1>6. run \in RunStates
  BY <1>3, <1>4, <1>5 DEF VM
<1>7. /\ WithRun(Vm(o), run) \in VM /\ WithRun(Vm(o), run).owner = Vm(o).owner
      /\ Ample(Vm(o)) => Ample(WithRun(Vm(o), run))
  BY <1>3, <1>6, VmAssignments DEF Ample
<1>8. LET e == WithStatus(copy[o], Power[Kind(o)].status)
      IN  e \in Row /\ RowOf(Srv(o), e) /\ e.ext # None /\ (Ample(copy[o]) => Ample(e))
  BY <1>3, <1>4, EntityAssignments, StillRowOf DEF Ample
<1>9. /\ GoOn(o, "save", WithStatus(copy[o], Power[Kind(o)].status))
      /\ UNCHANGED <<db, hosts, sagaVars, sess, billed, granted>>
      /\ "save" \in (Steps \ {"power"}) \cup Over
  BY DEF PowerCall, Steps
<1>10. QED
  BY <1>1, <1>2, <1>3, <1>5, <1>7, <1>8, <1>9, HandlerSetsVm

\* A refresh reads status and sizes into its copy.
LEMMA ReadVmOps ==
    ASSUME OpsInv, NEW o \in Ops, NEW cpuKnown \in BOOLEAN, NEW diskKnown \in BOOLEAN,
           NEW sameIp \in BOOLEAN, ReadVm(o, cpuKnown, diskKnown, sameIp)
    PROVE  OpsInv'
<1> DEFINE mapped == MapProxmoxStatus(Vm(o).run)
           base == IF mapped = None THEN copy[o] ELSE WithStatus(copy[o], mapped)
           cpu == IF cpuKnown THEN Vm(o).cpu ELSE copy[o].cpu
           disk == IF diskKnown THEN Vm(o).disk ELSE copy[o].disk
           synced == Resized(base, cpu, disk)
           step == IF sameIp /\ synced = copy[o] THEN "answer" ELSE "save"
<1>1. o \in Active /\ at[o] = "read"
  BY DEF ReadVm, Active, Steps
<1>2. Kind(o) # "extend"
  BY <1>1, HandlerFacts
<1>3. /\ copy[o] \in Row /\ RowOf(Srv(o), copy[o]) /\ copy[o].ext # None /\ Vm(o) \in VM
      /\ Distinct(Srv(o)) => Ample(copy[o]) /\ Ample(Vm(o))
  BY <1>1, <1>2, HandlerFacts, HandlerSlot DEF ReadVm
<1>4. base \in Row /\ RowOf(Srv(o), base) /\ base.ext = copy[o].ext
  BY <1>3, MappedStatuses, EntityAssignments, StillRowOf
<1>5. cpu \in Nat /\ disk \in Nat
  BY <1>3 DEF Row, VM
<1>6. GoOn(o, step, synced) /\ UNCHANGED <<vars, sess, billed, granted>>
  BY DEF ReadVm
<1>7. step \in (Steps \ {"power"}) \cup Over
  BY DEF Steps, Over, Answers
<1>8. sess' \in [Ops -> Row \cup {None}] /\ billed' \in [Servers -> Nat]
  BY <1>6 DEF OpsInv, OpsTypeOK
<1> HIDE DEF base, cpu, disk
<1>9. /\ synced \in Row /\ RowOf(Srv(o), synced) /\ synced.ext # None
      /\ synced.cpu = cpu /\ synced.disk = disk
  <2>1. synced \in Row /\ synced.ext = base.ext /\ synced.cpu = cpu /\ synced.disk = disk
    BY <1>4, <1>5 DEF Resized, Row
  <2>2. RowOf(Srv(o), synced)
    BY <1>4, <1>5, StillRowOf
  <2>3. QED
    BY <1>3, <1>4, <2>1, <2>2
<1>10. Distinct(Srv(o)) => Ample(synced)
  BY <1>3, <1>9 DEF Ample, cpu, disk
<1> HIDE DEF step, synced
<1>11. QED
  BY <1>1, <1>2, <1>6, <1>7, <1>8, <1>9, <1>10, HandlerThinks

\* An upgrade is let through with the status it was told, or ends.
LEMMA CheckStoppedOps ==
    ASSUME OpsInv, NEW o \in Ops, NEW answer, CheckStopped(o, answer)
    PROVE  OpsInv'
<1>1. o \in Active /\ at[o] = "check"
  BY DEF CheckStopped, Active, Steps
<1>2. Kind(o) # "extend"
  BY <1>1, HandlerFacts
<1>3. /\ copy[o] \in Row /\ RowOf(Srv(o), copy[o]) /\ copy[o].ext # None
      /\ Distinct(Srv(o)) => Ample(copy[o])
  BY <1>1, <1>2, HandlerFacts
<1>4. LET e == WithStatus(copy[o], "stopped")
      IN  e \in Row /\ RowOf(Srv(o), e) /\ e.ext # None /\ (Ample(copy[o]) => Ample(e))
  <2>1. "stopped" \in Statuses
    BY DEF Statuses
  <2>2. QED
    BY <1>3, <2>1, EntityAssignments, StillRowOf DEF Ample
<1>5. /\ sess' \in [Ops -> Row \cup {None}] /\ billed' \in [Servers -> Nat]
      /\ UNCHANGED <<vars, granted>>
  BY DEF CheckStopped, OpsInv, OpsTypeOK
<1>6. {"push", "failed"} \subseteq (Steps \ {"power"}) \cup Over
  BY DEF Steps, Over, Answers
<1>7. CASE GoOn(o, "push", WithStatus(copy[o], "stopped"))
  BY <1>1, <1>2, <1>3, <1>4, <1>5, <1>6, <1>7, HandlerThinks
<1>8. CASE GoOn(o, "failed", copy[o])
  BY <1>1, <1>2, <1>3, <1>5, <1>6, <1>8, HandlerThinks
<1>9. QED
  BY <1>7, <1>8 DEF CheckStopped

\* An upgrade sets the sizes of the VM to those of its copy, never below the
\* plan.
LEMMA PushOps ==
    ASSUME OpsInv, NEW o \in Ops, Push(o)
    PROVE  OpsInv'
<1> DEFINE cpu == copy[o].cpu + AddCpu
           disk == copy[o].disk + AddDisk
           step == IF AddDisk = 0 THEN "save" ELSE "resize"
<1>1. o \in Active /\ at[o] = "push"
  BY DEF Push, Active, Steps
<1>2. Kind(o) # "extend"
  BY <1>1, HandlerFacts
<1>3. /\ copy[o] \in Row /\ RowOf(Srv(o), copy[o]) /\ copy[o].ext # None /\ Vm(o) \in VM /\ Vm(o) # None
      /\ Distinct(Srv(o)) => Ample(copy[o])
  BY <1>1, <1>2, HandlerFacts, HandlerSlot DEF Push
<1>4. cpu \in Nat /\ disk \in Nat /\ (Ample(copy[o]) => cpu >= PlanCpu /\ disk >= PlanDisk)
  BY <1>3, BundleAssumption, PlanAssumption DEF Row, Ample
<1>5. /\ SetVm(o, WithSizes(Vm(o), cpu, disk)) /\ GoOn(o, step, Resized(copy[o], cpu, disk))
      /\ UNCHANGED <<db, hosts, sagaVars, sess, billed, granted>>
  BY DEF Push
<1>6. step \in (Steps \ {"power"}) \cup Over
  BY DEF Steps
<1> HIDE DEF cpu, disk, step
<1>7. LET vm == WithSizes(Vm(o), cpu, disk)
      IN  vm \in VM /\ vm.owner = Vm(o).owner /\ (Ample(copy[o]) => Ample(vm))
  BY <1>3, <1>4, SizesAssigned DEF Ample
<1>8. LET e == Resized(copy[o], cpu, disk)
      IN  e \in Row /\ RowOf(Srv(o), e) /\ e.ext # None /\ (Ample(copy[o]) => Ample(e))
  <2> DEFINE e == Resized(copy[o], cpu, disk)
  <2>1. e \in Row /\ e.ext = copy[o].ext /\ e.cpu = cpu /\ e.disk = disk
    BY <1>3, <1>4, MoreAssignments
  <2>2. RowOf(Srv(o), e)
    BY <1>3, <1>4, StillRowOf
  <2> HIDE DEF e
  <2>3. e.ext # None /\ (Ample(copy[o]) => Ample(e))
    BY <1>3, <1>4, <2>1 DEF Ample
  <2>4. QED
    BY <2>1, <2>2, <2>3 DEF e
<1>9. QED
  BY <1>1, <1>2, <1>3, <1>5, <1>6, <1>7, <1>8, HandlerSetsVm

\* An upgrade grows the disk of the VM.
LEMMA ResizeOps ==
    ASSUME OpsInv, NEW o \in Ops, Resize(o)
    PROVE  OpsInv'
<1> DEFINE cpu == Vm(o).cpu
           disk == Vm(o).disk + AddDisk
<1>1. o \in Active /\ at[o] = "resize"
  BY DEF Resize, Active, Steps
<1>2. Kind(o) # "extend"
  BY <1>1, HandlerFacts
<1>3. /\ copy[o] \in Row /\ RowOf(Srv(o), copy[o]) /\ copy[o].ext # None /\ Vm(o) \in VM /\ Vm(o) # None
      /\ Distinct(Srv(o)) => Ample(copy[o]) /\ Ample(Vm(o))
  BY <1>1, <1>2, HandlerFacts, HandlerSlot DEF Resize
<1>4. cpu \in Nat /\ disk \in Nat /\ (Ample(Vm(o)) => cpu >= PlanCpu /\ disk >= PlanDisk)
  BY <1>3, BundleAssumption, PlanAssumption DEF VM, Ample
<1>5. /\ SetVm(o, WithSizes(Vm(o), cpu, disk)) /\ GoOn(o, "save", copy[o])
      /\ UNCHANGED <<db, hosts, sagaVars, sess, billed, granted>>
      /\ "save" \in (Steps \ {"power"}) \cup Over
  BY DEF Resize, Steps
<1> HIDE DEF cpu, disk
<1>6. LET vm == WithSizes(Vm(o), cpu, disk)
      IN  vm \in VM /\ vm.owner = Vm(o).owner /\ (Ample(Vm(o)) => Ample(vm))
  BY <1>3, <1>4, SizesAssigned DEF Ample
<1>7. QED
  BY <1>1, <1>2, <1>3, <1>5, <1>6, HandlerSetsVm

\* A password is set on the VM.
LEMMA PushPasswordOps ==
    ASSUME OpsInv, NEW o \in Ops, NEW answered \in BOOLEAN, PushPassword(o, answered)
    PROVE  OpsInv'
<1> DEFINE step == IF answered THEN "answer" ELSE "failed"
<1>1. o \in Active /\ at[o] = "password"
  BY DEF PushPassword, Active, Steps
<1>2. Kind(o) # "extend"
  BY <1>1, HandlerFacts
<1>3. /\ copy[o] \in Row /\ RowOf(Srv(o), copy[o]) /\ copy[o].ext # None /\ Vm(o) \in VM /\ Vm(o) # None
      /\ Distinct(Srv(o)) => Ample(copy[o]) /\ Ample(Vm(o))
  BY <1>1, <1>2, HandlerFacts, HandlerSlot DEF PushPassword
<1>4. /\ WithPw(Vm(o), 2) \in VM /\ WithPw(Vm(o), 2).owner = Vm(o).owner
      /\ Ample(Vm(o)) => Ample(WithPw(Vm(o), 2))
  BY <1>3, VmAssignments DEF Ample
<1>5. /\ SetVm(o, WithPw(Vm(o), 2)) /\ GoOn(o, step, copy[o])
      /\ UNCHANGED <<db, hosts, sagaVars, sess, billed, granted>>
      /\ step \in (Steps \ {"power"}) \cup Over
  BY DEF PushPassword, Over, Answers
<1> HIDE DEF step
<1>6. QED
  BY <1>1, <1>2, <1>3, <1>4, <1>5, HandlerSetsVm

\* A call fails and the handler ends.
LEMMA CallFailsOps ==
    ASSUME OpsInv, NEW o \in Ops, CallFails(o)
    PROVE  OpsInv'
<1> DEFINE step == IF Kind(o) = "refresh" THEN "answer" ELSE "failed"
<1>1. o \in Active /\ at[o] # "save"
  BY DEF CallFails, Active
<1>2. Kind(o) # "extend"
  BY <1>1, HandlerFacts
<1>3. /\ copy[o] \in Row /\ RowOf(Srv(o), copy[o]) /\ copy[o].ext # None
      /\ Distinct(Srv(o)) => Ample(copy[o])
  BY <1>1, <1>2, HandlerFacts
<1>4. /\ GoOn(o, step, copy[o]) /\ UNCHANGED <<vars, granted>>
      /\ sess' \in [Ops -> Row \cup {None}] /\ billed' \in [Servers -> Nat]
      /\ step \in (Steps \ {"power"}) \cup Over
  BY DEF CallFails, Over, Answers, OpsInv, OpsTypeOK
<1> HIDE DEF step
<1>5. QED
  BY <1>1, <1>2, <1>3, <1>4, HandlerThinks

\* Record and SaveFails leave no call to make; an extension may end this way too.
LEMMA RecordOps ==
    ASSUME OpsInv, NEW o \in Ops, Record(o) \/ SaveFails(o)
    PROVE  OpsInv'
<1>1. o \in Active
  BY DEF Record, SaveFails, Active, Steps
<1>2. /\ copy[o] \in Row /\ RowOf(Srv(o), copy[o]) /\ (Kind(o) # "extend" => copy[o].ext # None)
      /\ Distinct(Srv(o)) => Ample(copy[o])
  BY <1>1, HandlerFacts
<1>3. PICK step \in Over : GoOn(o, step, copy[o])
  BY DEF Record, SaveFails, Over, Answers
<1>4. step \in (Steps \ {"power"}) \cup Over /\ step \in Over \cup {"save"}
  BY <1>3
<1>5. /\ UNCHANGED <<vars, granted>>
      /\ sess' \in [Ops -> Row \cup {None}] /\ billed' \in [Servers -> Nat]
  BY DEF Record, SaveFails, OpsInv, OpsTypeOK
<1>6. QED
  BY <1>1, <1>2, <1>3, <1>4, <1>5, HandlerThinks

\* The response touches nothing that any server's invariant is about.
LEMMA RespondOps ==
    ASSUME OpsInv, NEW o \in Ops, Respond(o)
    PROVE  OpsInv'
<1>1. UNCHANGED <<db, hosts, vms, pc, ent, loaded, late, sess, billed, granted>>
  BY DEF Respond, vars, storeVars, sagaVars
<1>2. /\ op' \in [Ops -> [kind: Kinds, srv: Servers] \cup {None}]
      /\ at' \in [Ops -> {"idle", "answer"} \cup Steps \cup Answers]
      /\ copy' \in [Ops -> Row \cup {None}]
      /\ at[o] \notin Steps /\ at'[o] \notin Steps
      /\ \A p \in Ops : p # o => op'[p] = op[p] /\ at'[p] = at[p] /\ copy'[p] = copy[p]
  BY DEF Respond, GoOn, OpsInv, OpsTypeOK, Steps, Answers
<1>3. StoreMoves /\ OpsTypeOK'
  BY <1>1, <1>2 DEF StoreMoves, OpsInv, OpsTypeOK, TypeOK, StoreTypeOK
<1>4. HandlersKept(o) /\ o \notin Active'
  BY <1>1, <1>2 DEF HandlersKept, Active
<1>5. \A p \in Ops : HandlerInv(p)'
  BY <1>1, <1>3, <1>4, StoreHandlers DEF HandlersKept, HandlerInv
<1>6. \A t \in Servers : SizesInv(t)'
  BY <1>1, <1>2 DEF OpsInv, SizesInv, Distinct, Ample, Active, Srv, OwnVm, Target, SlotOf
<1>7. QED
  BY <1>3, <1>5, <1>6, StoreFrame DEF OpsInv

\* The session of a save loads the row.
LEMMA OpenSaveOps ==
    ASSUME OpsInv, NEW o \in Ops, OpenSave(o)
    PROVE  OpsInv'
<1>1. o \in Active
  BY DEF OpenSave, Active, Steps
<1>2. UNCHANGED <<db, hosts, vms, pc, ent, loaded, late, op, at, copy, billed, granted>>
  BY DEF OpenSave, vars, storeVars, sagaVars
<1>3. sess' \in [Ops -> Row \cup {None}]
  BY <1>1, HandlerFacts DEF OpenSave, OpsInv, OpsTypeOK
<1>4. StoreMoves /\ OpsTypeOK'
  BY <1>2, <1>3 DEF StoreMoves, OpsInv, OpsTypeOK, TypeOK, StoreTypeOK
<1>5. \A s \in Servers : SizesInv(s)'
  BY <1>2 DEF OpsInv, SizesInv, Distinct, Ample, Active, Srv, OwnVm, Target, SlotOf
<1>6. QED
  BY <1>2, <1>4, <1>5, StoreFrame, StoreHandlers DEF OpsInv

\* What a handler's save writes.
LEMMA CommitSaveWrites ==
    ASSUME OpsInv, NEW o \in Ops, CommitSave(o)
    PROVE  /\ o \in Active /\ Srv(o) \in Servers /\ sess[o] \in Row
           /\ db'[Srv(o)] = Flush(db[Srv(o)], sess[o], copy[o])
           /\ db' = [db EXCEPT ![Srv(o)] = db'[Srv(o)]]
           /\ db'[Srv(o)] \in Row /\ db'[Srv(o)] # None
           /\ RowOf(Srv(o), db'[Srv(o)])
           /\ Distinct(Srv(o)) => Ample(db'[Srv(o)])
<1>1. o \in Active
  BY DEF CommitSave, Active, Steps
<1>2. /\ Srv(o) \in Servers /\ copy[o] \in Row /\ RowOf(Srv(o), copy[o])
      /\ db[Srv(o)] \in Row /\ RowOf(Srv(o), db[Srv(o)]) /\ sess[o] \in Row
      /\ Distinct(Srv(o)) => Ample(copy[o]) /\ Ample(db[Srv(o)])
  BY <1>1, HandlerFacts DEF CommitSave, OpsInv, OpsTypeOK
<1>3. /\ db'[Srv(o)] = Flush(db[Srv(o)], sess[o], copy[o])
      /\ db' = [db EXCEPT ![Srv(o)] = db'[Srv(o)]]
  BY <1>2 DEF CommitSave, OpsInv, OpsTypeOK, TypeOK, StoreTypeOK
<1>4. /\ db'[Srv(o)] \in Row
      /\ db'[Srv(o)].host \in {db[Srv(o)].host, copy[o].host}
      /\ db'[Srv(o)].ext \in {db[Srv(o)].ext, copy[o].ext}
      /\ db'[Srv(o)].cpu \in {db[Srv(o)].cpu, copy[o].cpu}
      /\ db'[Srv(o)].disk \in {db[Srv(o)].disk, copy[o].disk}
  BY <1>2, <1>3, FlushIsRow
<1>5. RowOf(Srv(o), db'[Srv(o)])
  BY <1>2, <1>4 DEF RowOf
<1>6. Distinct(Srv(o)) => Ample(db'[Srv(o)])
  BY <1>2, <1>4 DEF Ample
<1>7. QED
  BY <1>1, <1>2, <1>3, <1>4, <1>5, <1>6, NoneAssumption

\* A save commits: the row stays one of its server, with no less than the
\* plan.
LEMMA CommitSaveOps ==
    ASSUME OpsInv, NEW o \in Ops, CommitSave(o)
    PROVE  OpsInv'
<1> DEFINE step == IF Kind(o) = "upgrade" THEN "record" ELSE "answer"
<1>1. /\ o \in Active /\ Srv(o) \in Servers /\ copy[o] \in Row /\ RowOf(Srv(o), copy[o])
      /\ Kind(o) # "extend" => copy[o].ext # None
      /\ Distinct(Srv(o)) => Ample(copy[o])
  BY CommitSaveWrites, HandlerFacts
<1>2. /\ GoOn(o, step, copy[o]) /\ step \in (Steps \ {"power"}) \cup Over
      /\ Kind(o) = "extend" => step \in Over
      /\ UNCHANGED <<hosts, vms, sagaVars, billed>>
  BY DEF CommitSave, Steps, Over, Answers
<1>3. /\ db' \in [Servers -> Row \cup {None}] /\ \A t \in Servers : t # Srv(o) => db'[t] = db[t]
      /\ db'[Srv(o)] # None /\ RowOf(Srv(o), db'[Srv(o)])
      /\ Distinct(Srv(o)) => Ample(db'[Srv(o)])
  BY CommitSaveWrites DEF OpsInv, OpsTypeOK, TypeOK, StoreTypeOK
<1>4. StoreMoves
  BY <1>1, <1>2, <1>3, HandlerFacts DEF StoreMoves, sagaVars
<1>5. /\ vms' \in [Slots -> VM \cup {None}] /\ sess' \in [Ops -> Row \cup {None}]
      /\ billed' \in [Servers -> Nat]
  BY <1>2 DEF CommitSave, OpsInv, OpsTypeOK, TypeOK, StoreTypeOK
<1>6. granted' \in [Servers -> Nat]
  BY <1>1, DaysAssumption DEF CommitSave, OpsInv, OpsTypeOK
<1> HIDE DEF step
<1>7. QED
  BY <1>1, <1>2, <1>3, <1>4, <1>5, <1>6, HandlerStep

(***************************************************************************)
(* The arrival of a request                                                *)
(***************************************************************************)

\* A handler that has read a row it may hold keeps the invariant.
LEMMA ArrivesOps ==
    ASSUME OpsInv, NEW o \in Ops, NEW s \in Servers, NEW kind \in Kinds,
           NEW step \in Steps, NEW entity \in Row, Arrives(o, kind, s, step, entity),
           db[s] # None, RowOf(s, entity),
           IF kind = "extend" THEN step = "save" ELSE entity.ext # None,
           step = "power" => kind \in DOMAIN Power,
           Distinct(s) => Ample(entity)
    PROVE  OpsInv'
<1>1. /\ UNCHANGED <<db, hosts, vms, pc, ent, loaded, late, sess, billed, granted>>
      /\ op'[o] = [kind |-> kind, srv |-> s] /\ at'[o] = step /\ copy'[o] = entity
      /\ op' \in [Ops -> [kind: Kinds, srv: Servers] \cup {None}]
      /\ at' \in [Ops -> {"idle", "answer"} \cup Steps \cup Answers]
      /\ copy' \in [Ops -> Row \cup {None}]
      /\ HandlersKept(o)
  BY DEF Arrives, vars, storeVars, sagaVars, OpsInv, OpsTypeOK, HandlersKept
<1>2. StoreMoves /\ OpsTypeOK'
  BY <1>1 DEF StoreMoves, OpsInv, OpsTypeOK, TypeOK, StoreTypeOK
<1>3. Srv(o)' = s /\ Kind(o)' = kind
  BY <1>1 DEF Srv, Kind
<1>4. HandlerInv(o)'
  <2>1. RowOf(Srv(o), copy[o])' /\ entity # None
    BY <1>1, <1>3, NoneAssumption DEF RowOf
  <2>2. QED
    BY <1>1, <1>3, <2>1 DEF HandlerInv
<1>5. \A p \in Ops : HandlerInv(p)'
  BY <1>1, <1>2, <1>4, StoreHandlers DEF HandlersKept
<1>6. SizesInv(s)'
  <2>1. SizesInv(s)
    BY DEF OpsInv
  <2>2. ASSUME NEW p \in Active', Srv(p)' = s, Distinct(s) PROVE Ample(copy'[p])
    <3>1. CASE p = o
      BY <1>1, <2>2, <3>1
    <3>2. CASE p # o
      BY <1>1, <2>1, <2>2, <3>2 DEF HandlersKept, Active, Srv, SizesInv
    <3>3. QED
      BY <3>1, <3>2
  <2>3. QED
    BY <1>1, <2>1, <2>2 DEF SizesInv, Distinct, Ample, OwnVm, Target, SlotOf
<1>7. \A t \in Servers : SizesInv(t)'
  BY <1>1, <1>2, <1>3, <1>6, StoreSizes
<1>8. QED
  BY <1>2, <1>5, <1>7, StoreFrame DEF OpsInv

\* A row that was just read.
LEMMA FreshRow ==
    ASSUME OpsInv, NEW s \in Servers, db[s] # None
    PROVE  db[s] \in Row /\ RowOf(s, db[s]) /\ (Distinct(s) => Ample(db[s]))
<1>1. ServerInv(s) /\ SizesInv(s)
  BY DEF OpsInv
<1>2. QED
  BY <1>1 DEF OpsInv, OpsTypeOK, TypeOK, StoreTypeOK, ServerInv, SizesInv

\* An extension begins with a copy of the row.
LEMMA BeginExtendOps ==
    ASSUME OpsInv, NEW o \in Ops, NEW s \in Servers, BeginExtend(o, s)
    PROVE  OpsInv'
<1>1. db[s] # None /\ "extend" \in Kinds
  BY DEF BeginExtend
<1>2. db[s] \in Row /\ RowOf(s, db[s]) /\ (Distinct(s) => Ample(db[s]))
  BY <1>1, FreshRow
<1> DEFINE days == db[s].days + MoreDays
<1>3. days \in Nat
  BY <1>2, DaysAssumption DEF Row
<1>4. Arrives(o, "extend", s, "save", WithDays(db[s], days))
  BY DEF BeginExtend
<1> HIDE DEF days
<1>5. LET e == WithDays(db[s], days)
      IN  e \in Row /\ RowOf(s, e) /\ (Distinct(s) => Ample(e))
  BY <1>2, <1>3, MoreAssignments, StillRowOf DEF Ample
<1>6. "save" \in Steps /\ "save" # "power"
  BY DEF Steps
<1>7. QED
  BY <1>1, <1>4, <1>5, <1>6, ArrivesOps

\* A request about a VM begins with a copy of the row.
LEMMA BeginOnVmOps ==
    ASSUME OpsInv, NEW o \in Ops, NEW kind \in Kinds, NEW s \in Servers, BeginOnVm(o, kind, s)
    PROVE  OpsInv'
<1>1. /\ db[s] # None /\ db[s].ext # None /\ kind # "extend"
      /\ Arrives(o, kind, s, FirstCall(kind), db[s])
  BY DEF BeginOnVm
<1>2. db[s] \in Row /\ RowOf(s, db[s]) /\ (Distinct(s) => Ample(db[s]))
  BY <1>1, FreshRow
<1>3. FirstCall(kind) \in Steps /\ (FirstCall(kind) = "power" => kind \in DOMAIN Power)
  BY <1>1, KindsAssumption DEF FirstCall, Steps, AllKinds, Power
<1>4. QED
  BY <1>1, <1>2, <1>3, ArrivesOps

(***************************************************************************)
(* The invariant of every interleaving                                     *)
(***************************************************************************)

\* Before the first request there is nothing to hold.
LEMMA OpsInitInv == OpsInit => OpsInv
<1> SUFFICES ASSUME OpsInit PROVE OpsInv
  OBVIOUS
<1>1. SagaInv /\ TypeOK
  BY InitInv DEF OpsInit, SagaInv
<1>2. OpsTypeOK
  BY <1>1 DEF OpsInit, OpsTypeOK
<1>3. ASSUME NEW s \in Servers PROVE ServerInv(s) /\ SizesInv(s)
  BY DEF OpsInit, Init, StoreInit, ServerInv, EntityInv, SizesInv, Named, Active, Steps
<1>4. LateCreateInv
  BY DEF OpsInit, Init, LateCreateInv
<1>5. ASSUME NEW o \in Ops PROVE HandlerInv(o)
  BY DEF OpsInit, HandlerInv, Active, Steps
<1>6. QED
  BY <1>1, <1>2, <1>3, <1>4, <1>5 DEF OpsInv, SagaInv

\* All steps of a handler.
LEMMA OpStepOps ==
    ASSUME OpsInv, NEW o \in Ops, OpStep(o)
    PROVE  OpsInv'
BY PowerCallOps, ReadVmOps, CheckStoppedOps, PushOps, ResizeOps, PushPasswordOps, CallFailsOps,
   OpenSaveOps, CommitSaveOps, RecordOps, RespondOps
DEF OpStep

\* No step of a saga, a handler or what surrounds them breaks it.
LEMMA OpsNextKeeps == OpsInv /\ [OpsNext]_allVars => OpsInv'
<1> SUFFICES ASSUME OpsInv, [OpsNext]_allVars PROVE OpsInv'
  OBVIOUS
<1>1. CASE UNCHANGED allVars
  <2>1. /\ UNCHANGED <<db, hosts, vms, pc, ent, loaded, late>>
        /\ UNCHANGED <<op, at, copy, sess, billed, granted>>
    BY <1>1 DEF allVars, vars, storeVars, sagaVars, opVars
  <2>2. StoreMoves /\ OpsTypeOK'
    BY <2>1 DEF StoreMoves, OpsInv, OpsTypeOK, TypeOK, StoreTypeOK
  <2>3. \A s \in Servers : SizesInv(s)'
    BY <2>1 DEF OpsInv, SizesInv, Distinct, Ample, Active, Srv, OwnVm, Target, SlotOf
  <2>4. QED
    BY <2>1, <2>2, <2>3, StoreFrame, StoreHandlers DEF OpsInv
<1>2. CASE \E s \in Servers, h \in Hosts : Resolve(s, h) /\ UNCHANGED opVars
  BY <1>2, ResolveOps
<1>3. CASE \E s \in Servers : SagaStep(s) /\ UNCHANGED opVars
  BY <1>3, SagaStepOps
<1>4. CASE Surroundings /\ UNCHANGED opVars
  <2>1. CASE \E s \in Servers, h \in Hosts, cloned \in BOOLEAN : LateCreate(s, h, cloned)
    BY <1>4, <2>1, LateCreateOps
  <2>2. CASE \E s \in Servers, h \in Hosts : LateDestroy(s, h)
    BY <1>4, <2>2, LateDestroyOps
  <2>3. CASE \E h \in Hosts : (AddHost(h) \/ DeleteHost(h)) /\ UNCHANGED sagaVars
    BY <1>4, <2>3, HostsOps
  <2>4. CASE \E x \in Slots, run \in RunStates : Drift(x, run) /\ UNCHANGED sagaVars
    BY <1>4, <2>4, DriftOps
  <2>5. QED
    BY <1>4, <2>1, <2>2, <2>3, <2>4 DEF Surroundings
<1>5. CASE \E o \in Ops, s \in Servers : BeginExtend(o, s)
  BY <1>5, BeginExtendOps
<1>6. CASE \E o \in Ops, kind \in Kinds, s \in Servers : BeginOnVm(o, kind, s)
  BY <1>6, BeginOnVmOps
<1>7. CASE \E o \in Ops : OpStep(o)
  BY <1>7, OpStepOps
<1>8. CASE \E sent \in SUBSET Unanswered : CrashAll(sent)
  BY <1>8, CrashOps
<1>9. QED
  BY <1>1, <1>2, <1>3, <1>4, <1>5, <1>6, <1>7, <1>8 DEF OpsNext

\* Whatever handlers, sagas, admins, crashes and late calls interleave: rows and
\* stale copies of them stay those of one server, and neither they nor a VM sized
\* from them falls below the plan.
THEOREM OpsInvariant == OpsSpec => []OpsInv
<1>1. OpsInit => OpsInv
  BY OpsInitInv
<1>2. OpsInv /\ [OpsNext]_allVars => OpsInv'
  BY OpsNextKeeps
<1>3. QED
  BY <1>1, <1>2, PTL DEF OpsSpec

\* Rows, copies, sessions, the ledger and control points keep their types.
THEOREM OpsTypeCorrect == OpsSpec => []OpsTypeOK
<1>1. OpsInv => OpsTypeOK
  BY DEF OpsInv
<1>2. QED
  BY <1>1, OpsInvariant, PTL

\* A server answered with 200 has the VM its saga made, sized by every push
\* since.
LEMMA SizesKept == OpsInv => OrderedSizesKept
<1> SUFFICES ASSUME OpsInv, NEW s \in Servers, pc[s] = "returned"
             PROVE  /\ HasVm(s)
                    /\ Distinct(s) =>
                          /\ Ample(db[s])
                          /\ \A x \in Slots : vms[x] # None /\ vms[x].owner = s => Ample(vms[x])
  BY DEF OrderedSizesKept
<1>1. ServerInv(s) /\ EntityInv(s) /\ SizesInv(s) /\ TypeOK
  BY DEF OpsInv, OpsTypeOK, ServerInv
<1>2. db[s] # None /\ ent[s] # None /\ ent[s].ext # None /\ OwnVm(s)
  BY <1>1, VmidAssumption, NoneAssumption DEF ServerInv, EntityInv, Named
<1>3. Target(s) \in Slots
  BY <1>1, <1>2, TargetIsSlot
<1>4. HasVm(s)
  BY <1>2, <1>3 DEF HasVm, OwnVm
<1>5. \A x \in Slots : vms[x] # None /\ vms[x].owner = s => x = Target(s)
  BY DEF OpsInv, PlacementInv
<1>6. QED
  BY <1>1, <1>2, <1>4, <1>5 DEF SizesInv

\* A server answered with 200 keeps its VM, and neither row nor VM falls below
\* the sizes ordered, however stale the copies that are pushed and saved.
THEOREM OrderedSizes == OpsSpec => []OrderedSizesKept
<1>1. OpsInv => OrderedSizesKept
  BY SizesKept
<1>2. QED
  BY <1>1, OpsInvariant, PTL

==============================================================================
