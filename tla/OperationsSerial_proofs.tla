----------------------- MODULE OperationsSerial_proofs -----------------------
(***************************************************************************)
(* Proofs about customers who wait for one answer before they ask again:   *)
(* then the row, the copy a handler holds, the VM and the ledger stay in   *)
(* step (SerialInv), on top of what holds of every interleaving (OpsInv).  *)
(***************************************************************************)
EXTENDS Operations_proofs

(***************************************************************************)
(* Sizes                                                                   *)
(***************************************************************************)

Sized(x) == x.cpu \in Nat /\ x.disk \in Nat

\* A bundle more on top of n bundles is n + 1 bundles.
LEMMA OneMore ==
    ASSUME NEW n \in Nat
    PROVE  /\ n * AddCpu \in Nat /\ n * AddDisk \in Nat
           /\ (n + 1) * AddCpu = n * AddCpu + AddCpu
           /\ (n + 1) * AddDisk = n * AddDisk + AddDisk
BY BundleAssumption

\* What is no smaller has reached as much, and more with a bundle on top.
LEMMA ReachedGrows ==
    ASSUME NEW n \in Nat, NEW r, NEW e, Sized(r), Sized(e), Reached(r, n), Within(r, e)
    PROVE  /\ Reached(e, n)
           /\ \A x : x.cpu = e.cpu + AddCpu /\ x.disk = e.disk + AddDisk => Reached(x, n + 1)
<1>1. PlanCpu \in Nat /\ PlanDisk \in Nat /\ AddCpu \in Nat /\ AddDisk \in Nat
  BY PlanAssumption, BundleAssumption
<1> DEFINE c == n * AddCpu
           d == n * AddDisk
<1>2. c \in Nat /\ d \in Nat /\ (n + 1) * AddCpu = c + AddCpu /\ (n + 1) * AddDisk = d + AddDisk
  BY OneMore
<1>3. r.cpu >= PlanCpu + c /\ r.disk >= PlanDisk + d
  BY DEF Reached
<1> HIDE DEF c, d
<1>4. e.cpu >= PlanCpu + c /\ e.disk >= PlanDisk + d
  BY <1>1, <1>2, <1>3 DEF Within, Sized
<1>5. Reached(e, n)
  BY <1>4 DEF Reached, c, d
<1>6. ASSUME NEW x, x.cpu = e.cpu + AddCpu, x.disk = e.disk + AddDisk PROVE Reached(x, n + 1)
  <2>1. x.cpu >= PlanCpu + (c + AddCpu) /\ x.disk >= PlanDisk + (d + AddDisk)
    BY <1>1, <1>2, <1>4, <1>6 DEF Sized
  <2>2. QED
    BY <1>2, <2>1 DEF Reached
<1>7. QED
  BY <1>5, <1>6

\* Nothing is larger than itself; what is within a third is within it.
LEMMA WithinOrder ==
    /\ \A x, y : Sized(x) /\ y.cpu = x.cpu /\ y.disk = x.disk => Within(x, y) /\ Within(y, x)
    /\ \A x, y, z : Sized(x) /\ Sized(y) /\ Sized(z) /\ Within(x, y) /\ Within(y, z) => Within(x, z)
BY DEF Within, Sized

\* Rows and VMs have sizes.
LEMMA RowsSized == (\A r \in Row : Sized(r)) /\ (\A vm \in VM : Sized(vm))
BY DEF Row, VM, Sized

\* Without an upgrade on record, the sizes ordered are all that is asked.
LEMMA ReachedNone ==
    ASSUME NEW r
    PROVE  r.cpu = PlanCpu /\ r.disk = PlanDisk => Reached(r, 0)
BY PlanAssumption, BundleAssumption DEF Reached

(***************************************************************************)
(* The steps of a saga                                                     *)
(***************************************************************************)

\* What holds of another server, and of the handlers, whatever a saga does.
LEMMA FrameSolo ==
    ASSUME OpsInv, SerialInv, NEW s \in Servers, SagaMoves(s), UNCHANGED opVars,
           NEW t \in Servers, t # s
    PROVE  SoloInv(t)' /\ (Distinct(t) => DeliveredInv(t)')
<1>1. SoloInv(t) /\ (Distinct(t) => DeliveredInv(t)) /\ ServerInv(t)
  BY DEF SerialInv, OpsInv
<1>2. /\ pc'[t] = pc[t] /\ ent'[t] = ent[t] /\ db'[t] = db[t] /\ loaded'[t] = loaded[t]
      /\ UNCHANGED <<op, at, copy, sess, billed, granted>>
  BY DEF SagaMoves, OthersKept, opVars
<1>3. SoloInv(t)'
  BY <1>1, <1>2 DEF SoloInv, Active, Srv
<1>4. ent[t] # None => /\ Target(t)' = Target(t) /\ (OwnVm(t)' <=> OwnVm(t))
                       /\ OwnVm(t) => vms'[Target(t)] = vms[Target(t)]
  BY FrameOwn
<1>5. db[t] # None => ent[t] # None
  BY <1>1 DEF ServerInv
<1>6. \A o \in Active : Srv(o) = t => db[t] # None /\ o \in Ops
  BY DEF OpsInv, HandlerInv, Active
<1>7. ASSUME DeliveredInv(t), ent[t] # None PROVE DeliveredInv(t)'
  BY <1>2, <1>4, <1>7 DEF DeliveredInv, Active, Srv, Pushed, Kind
<1>8. ASSUME DeliveredInv(t), ent[t] = None PROVE DeliveredInv(t)'
  BY <1>2, <1>5, <1>6, <1>8 DEF DeliveredInv, Active, Srv, Published
<1>9. QED
  BY <1>1, <1>3, <1>7, <1>8

\* A handler is as current as it was when nobody saves its row.
LEMMA FrameCurrent ==
    ASSUME OpsInv, SerialInv, NEW s \in Servers, OthersKept(s), UNCHANGED opVars,
           db'[s] = db[s] \/ \A o \in Active : Srv(o) # s
    PROVE  \A o \in Ops : CurrentInv(o)'
<1> SUFFICES ASSUME NEW o \in Ops PROVE CurrentInv(o)'
  OBVIOUS
<1>1. CurrentInv(o) /\ UNCHANGED <<op, at, copy, sess>>
  BY DEF SerialInv, opVars
<1>2. sess[o] # None => o \in Active
  BY <1>1 DEF CurrentInv, Active, Steps
<1>3. o \in Active => db'[Srv(o)] = db[Srv(o)]
  BY HandlerFacts DEF OthersKept
<1>4. QED
  BY <1>1, <1>2, <1>3 DEF CurrentInv, Active, Srv, Kind

\* Until the saga ends the row is its own: it writes what its entity says.
LEMMA SoloSaga ==
    ASSUME OpsInv, SerialInv, NEW s \in Servers, SagaStep(s)
    PROVE  /\ SoloInv(s) /\ \A o \in Active : Srv(o) # s
           /\ billed[s] = 0 /\ granted[s] = 0
           /\ ent[s].days = PlanDays /\ ent[s].cpu = PlanCpu /\ ent[s].disk = PlanDisk
           /\ db[s] # None => /\ db[s].cpu = PlanCpu /\ db[s].disk = PlanDisk
                              /\ db[s].days = PlanDays
           /\ db'[s] = IF Insert(s) \/ Commit(s) THEN ent[s] ELSE db[s]
<1>1. /\ TypeOK /\ EntityInv(s) /\ ServerInv(s) /\ ent[s] \in Row /\ ent[s] # None
      /\ pc[s] \notin {"new"} \cup Ends
  BY SagaHasEntity
<1>2. SoloInv(s) /\ PlanDays \in Nat
  BY PlanAssumption DEF SerialInv
<1>3. /\ \A o \in Active : Srv(o) # s
      /\ billed[s] = 0 /\ granted[s] = 0
      /\ ent[s].days = PlanDays /\ ent[s].cpu = PlanCpu /\ ent[s].disk = PlanDisk
      /\ db[s] # None => /\ db[s].cpu = PlanCpu /\ db[s].disk = PlanDisk
                         /\ db[s].days = PlanDays
  BY <1>1, <1>2 DEF SoloInv, EntityInv
<1>4. Commit(s) => db'[s] = ent[s]
  <2> SUFFICES ASSUME Commit(s) PROVE db'[s] = ent[s]
    OBVIOUS
  <2>1. loaded[s] = db[s] /\ db[s] \in Row
    BY <1>2, CommitWrites DEF Commit, SoloInv
  <2>2. db'[s] = Flush(db[s], db[s], ent[s])
    BY <1>1, <2>1 DEF Commit, TypeOK, StoreTypeOK
  <2>3. QED
    BY <1>1, <2>1, <2>2, FlushUnchanged
<1>5. Insert(s) => db'[s] = ent[s]
  BY <1>1 DEF Insert, TypeOK, StoreTypeOK
<1>6. QED
  BY <1>2, <1>3, <1>4, <1>5, SagaRows

\* What comes next for the saga: it still shows a server being built, or has
\* said otherwise.
LEMMA SagaSolo ==
    ASSUME OpsInv, SerialInv, NEW s \in Servers, SagaStep(s), UNCHANGED opVars
    PROVE  SoloInv(s)'
<1>1. /\ TypeOK /\ EntityInv(s) /\ ServerInv(s) /\ ent[s] # None
      /\ pc[s] \notin {"new"} \cup Ends
      /\ UNCHANGED <<op, at, copy, sess, billed, granted>>
  BY SagaHasEntity DEF opVars
<1>2. /\ SoloInv(s) /\ \A o \in Active : Srv(o) # s
      /\ billed[s] = 0 /\ granted[s] = 0
      /\ ent[s].days = PlanDays /\ ent[s].cpu = PlanCpu /\ ent[s].disk = PlanDisk
      /\ db[s] # None => /\ db[s].cpu = PlanCpu /\ db[s].disk = PlanDisk /\ db[s].days = PlanDays
      /\ db'[s] = IF Insert(s) \/ Commit(s) THEN ent[s] ELSE db[s]
  BY SoloSaga
<1>3. \A o \in Active' : Srv(o)' # s
  BY <1>1, <1>2 DEF Active, Srv
<1>4. loaded'[s] # None => pc'[s] \in Saves /\ loaded'[s] = db'[s]
  <2>1. CASE OpenSession(s)
    BY <1>1, <2>1 DEF OpenSession, TypeOK, storeVars
  <2>2. CASE Commit(s) \/ UpdateFails(s)
    BY <1>1, <2>2 DEF Commit, UpdateFails, TypeOK
  <2>3. CASE ~OpenSession(s) /\ ~Commit(s) /\ ~UpdateFails(s)
    <3>1. loaded' = loaded /\ pc[s] \notin Saves
      BY <2>3
      DEF SagaStep, Insert, InsertFails, Create, CreateFails, Configure, ConfigureFails, SetPassword,
          ReadStatus, RollbackSkips, RollbackDestroys, RollbackFails, Saves, Answer, Answering
    <3>2. QED
      BY <1>2, <3>1 DEF SoloInv
  <2>4. QED
    BY <2>1, <2>2, <2>3
<1>5. ent'[s].days = PlanDays
  BY <1>2, SagaEntity
<1>6. db'[s] # None => /\ db'[s].cpu = PlanCpu /\ db'[s].disk = PlanDisk /\ db'[s].days = PlanDays
  BY <1>2
<1>7. pc'[s] \in Building => db'[s].ext = None
  <2>1. CASE Insert(s)
    BY <1>1, <1>2, <2>1 DEF Insert, EntityInv, TypeOK, StoreTypeOK
  <2>2. CASE Commit(s)
    <3>1. pc'[s] = NextAfter[pc[s]] /\ pc[s] \in Saves
      BY <1>1, <2>2 DEF Commit, TypeOK
    <3>2. pc[s] # "mark" => pc'[s] \in {"accept", "refuse", "fail"}
      BY <3>1 DEF NextAfter, Saves
    <3>3. QED
      BY <1>1, <1>2, <2>2, <3>2 DEF EntityInv, Building
  <2>3. CASE ~Insert(s) /\ ~Commit(s)
    <3>1. db'[s] = db[s]
      BY <1>2, <2>3
    <3>2. pc'[s] \in Building => pc[s] \in Building
      BY <1>1, <2>3
      DEF SagaStep, InsertFails, OpenSession, UpdateFails, Create, CreateFails, Caught, Configure,
          ConfigureFails, SetPassword, ReadStatus, RollbackSkips, RollbackDestroys, RolledBack,
          RollbackFails, Building, Saves, TypeOK, Answer, Answering
    <3>3. QED
      BY <1>2, <3>1, <3>2 DEF SoloInv
  <2>4. QED
    BY <2>1, <2>2, <2>3
<1>8. /\ billed'[s] = 0 /\ granted'[s] = 0
      /\ db'[s] # None => db'[s].days = PlanDays + granted'[s]
  BY <1>1, <1>2, <1>6, PlanAssumption
<1>9. QED
  BY <1>3, <1>4, <1>5, <1>6, <1>7, <1>8 DEF SoloInv

\* The row a saga writes: built, ready with a VM of its own, or given up.
LEMMA SagaDelivered ==
    ASSUME OpsInv, OpsInv', SerialInv, NEW s \in Servers, SagaStep(s), UNCHANGED opVars, Distinct(s)
    PROVE  DeliveredInv(s)'
<1>1. /\ TypeOK /\ EntityInv(s) /\ ServerInv(s) /\ ent[s] # None
      /\ pc[s] \notin {"new"} \cup Ends
      /\ UNCHANGED <<op, at, copy, sess, billed, granted>>
  BY SagaHasEntity DEF opVars
<1>2. /\ SoloInv(s) /\ \A o \in Active : Srv(o) # s
      /\ billed[s] = 0
      /\ ent[s].cpu = PlanCpu /\ ent[s].disk = PlanDisk
      /\ db[s] # None => db[s].cpu = PlanCpu /\ db[s].disk = PlanDisk
      /\ db'[s] = IF Insert(s) \/ Commit(s) THEN ent[s] ELSE db[s]
  BY SoloSaga
<1>3. \A o \in Active' : Srv(o)' # s
  BY <1>1, <1>2 DEF Active, Srv
<1>4. Published(db'[s]) => OwnVm(s)'
  <2>1. CASE pc[s] \in {"fail", "accept", "refuse"} /\ ~Insert(s) /\ ~Commit(s)
    <3>1. vms' = vms /\ ent' = ent
      BY <2>1, <1>1
      DEF SagaStep, Insert, InsertFails, OpenSession, UpdateFails, Create, CreateFails, Configure,
          ConfigureFails, SetPassword, ReadStatus, RollbackSkips, RollbackDestroys, RollbackFails,
          storeVars, Answer, Answering
    <3>2. OwnVm(s)' = OwnVm(s)
      BY <3>1 DEF OwnVm, Target, SlotOf
    <3>3. QED
      BY <1>2, <2>1, <3>2 DEF SerialInv, DeliveredInv
  <2>2. CASE pc[s] \notin {"fail", "accept", "refuse"} /\ ~Insert(s) /\ ~Commit(s)
    <3>1. pc[s] \in Building \/ pc[s] = "insert"
      BY <1>1, <2>2 DEF TypeOK, Saves, Calls, Answering, Ends, Building
    <3>2. db[s] = None \/ db[s].ext = None
      BY <1>1, <1>2, <3>1 DEF ServerInv, SoloInv
    <3>3. QED
      BY <1>2, <2>2, <3>2 DEF Published
  <2>3. CASE Insert(s)
    BY <1>1, <1>2, <2>3 DEF Insert, EntityInv, Published
  <2>4. CASE Commit(s)
    <3>1. pc[s] = "ready" => OwnVm(s)'
      BY <1>1, <2>4 DEF Commit, ServerInv, Named, OwnVm, Target, SlotOf
    <3>2. pc[s] # "ready" => ent[s].ext = None \/ ent[s].status \in {"failed", "rolled_back"}
      BY <1>1, <2>4 DEF Commit, Saves, EntityInv
    <3>3. QED
      BY <1>2, <2>4, <3>1, <3>2 DEF Published
  <2>5. QED
    BY <1>2, <2>1, <2>2, <2>3, <2>4
<1>5. db'[s] # None => db'[s].cpu = PlanCpu /\ db'[s].disk = PlanDisk
  BY <1>2
<1>6. db'[s] # None => Reached(db'[s], 0)
  BY <1>5, ReachedNone
<1>7. ASSUME db'[s] # None, ent'[s].ext # None, OwnVm(s)'
      PROVE  Within(db'[s], vms'[Target(s)'])
  <2>1. SizesInv(s)' /\ ent'[s] # None
    BY SagaEntity, NoneAssumption DEF OpsInv
  <2>2. Ample(vms'[Target(s)'])
    BY <1>7, <2>1 DEF SizesInv, Distinct, Ample
  <2>3. QED
    BY <1>5, <1>7, <2>2 DEF Ample, Within
<1>8. QED
  BY <1>1, <1>2, <1>3, <1>4, <1>6, <1>7 DEF DeliveredInv

\* A saga that gives its VM up has not saved the identifier yet.
LEMMA SagaLateDestroy ==
    ASSUME OpsInv, SerialInv, NEW s \in Servers, SagaStep(s)
    PROVE  LateDestroyInv'
<1> SUFFICES ASSUME NEW r \in late', r[1] = "destroy" PROVE db'[r[2]].ext = None
  BY DEF LateDestroyInv
<1>1. CASE r \in late
  <2>1. /\ db[r[2]].ext = None /\ pc[r[2]] \in {"raised", "lost"} /\ r[2] \in Servers
    BY <1>1 DEF SerialInv, LateDestroyInv, OpsInv, LateInv, Accounted, OpsTypeOK, TypeOK, Requests
  <2>2. r[2] # s
    BY <2>1, SagaHasEntity DEF Ends
  <2>3. QED
    BY <2>1, <2>2, SagaStepMoves DEF SagaMoves, OthersKept
<1>2. CASE r \notin late
  <2>1. PICK sent \in BOOLEAN : RollbackFails(s, sent)
    BY <1>2
    DEF SagaStep, Insert, InsertFails, OpenSession, Commit, UpdateFails, Create, CreateFails, Configure,
        ConfigureFails, SetPassword, ReadStatus, RollbackSkips, RollbackDestroys, Answer, Answering
  <2>2. r[2] = s /\ pc[s] = "rollback" /\ db' = db
    BY <1>2, <2>1 DEF RollbackFails, storeVars
  <2>3. QED
    BY <2>2 DEF SerialInv, SoloInv, Building
<1>3. QED
  BY <1>1, <1>2

\* A step of a saga.
LEMMA SagaStepSerial ==
    ASSUME OpsInv, OpsInv', SerialInv, NEW s \in Servers, SagaStep(s), UNCHANGED opVars
    PROVE  SerialInv'
<1>1. SagaMoves(s) /\ OthersKept(s) /\ \A o \in Active : Srv(o) # s
  BY SagaStepMoves, SoloSaga DEF SagaMoves
<1>2. \A t \in Servers : SoloInv(t)' /\ (Distinct(t) => DeliveredInv(t)')
  BY <1>1, FrameSolo, SagaSolo, SagaDelivered
<1>3. QED
  BY <1>1, <1>2, FrameCurrent, SagaLateDestroy DEF SerialInv, Distinct

(***************************************************************************)
(* The other steps about a saga                                            *)
(***************************************************************************)

\* A new request moves nothing but its own.
LEMMA ResolveMoves ==
    ASSUME OpsInv, NEW s \in Servers, NEW h \in Hosts, Resolve(s, h)
    PROVE  SagaMoves(s)
BY NewServerIsRow, NoneAssumption
DEF Resolve, OpsInv, OpsTypeOK, ServerInv, SagaMoves, OthersKept, TypeOK, Untouched, GivenUp, storeVars

\* A new order.
LEMMA ResolveSerial ==
    ASSUME OpsInv, SerialInv, NEW s \in Servers, NEW h \in Hosts, Resolve(s, h), UNCHANGED opVars
    PROVE  SerialInv'
<1>1. /\ SagaMoves(s) /\ OthersKept(s) /\ SoloInv(s) /\ db[s] = None /\ pc[s] = "new"
      /\ pc'[s] = "insert" /\ ent'[s] = NewServer(h)
      /\ UNCHANGED <<db, hosts, vms, loaded, late, op, at, copy, sess, billed, granted>>
  BY ResolveMoves DEF Resolve, SagaMoves, SerialInv, OpsInv, OpsTypeOK, TypeOK, ServerInv, storeVars, opVars
<1>2. \A o \in Active : Srv(o) # s
  BY <1>1 DEF SoloInv, Ends
<1>3. \A o \in Active' : Srv(o)' # s
  BY <1>1, <1>2 DEF Active, Srv
<1>4. billed[s] = 0 /\ granted[s] = 0
  BY <1>1 DEF SoloInv, Ends
<1>5. SoloInv(s)'
  BY <1>1, <1>3, <1>4 DEF SoloInv, NewServer, Building, Saves
<1>6. DeliveredInv(s)'
  BY <1>1, <1>3, <1>4 DEF DeliveredInv, Published
<1>7. LateDestroyInv'
  BY <1>1 DEF SerialInv, LateDestroyInv
<1>8. QED
  BY <1>1, <1>2, <1>5, <1>6, <1>7, FrameSolo, FrameCurrent DEF SerialInv, Distinct

\* A VM that comes late is the own VM of its server, which does not know it.
LEMMA LateCreateSerial ==
    ASSUME OpsInv, SerialInv, NEW s \in Servers, NEW h \in Hosts, NEW cloned \in BOOLEAN,
           LateCreate(s, h, cloned), UNCHANGED opVars
    PROVE  SerialInv'
<1>1. /\ TypeOK /\ ServerInv(s) /\ SoloInv(s)
      /\ UNCHANGED <<db, hosts, pc, ent, loaded, op, at, copy, sess, billed, granted>>
      /\ late' \subseteq late
  BY DEF LateCreate, OpsInv, OpsTypeOK, SerialInv, opVars
<1>2. /\ db[s] # None /\ pc[s] \in GivenUp /\ h = ent[s].host /\ ent[s].ext = None /\ ent[s] # None
      /\ SlotOf(s, h) = Target(s) /\ Target(s) \in Slots
  <2>1. db[s] # None /\ pc[s] \in GivenUp /\ h = ent[s].host /\ ent[s].ext = None
    BY DEF LateCreate, OpsInv, LateInv, LateCreateInv, Accounted
  <2>2. QED
    BY <1>1, <2>1, TargetIsSlot DEF Target, SlotOf, ServerInv
<1>3. /\ vms[Target(s)] = None /\ vms'[Target(s)] = NewVm(s, cloned)
      /\ vms' = [vms EXCEPT ![Target(s)] = NewVm(s, cloned)]
      /\ NewVm(s, cloned).owner = s /\ NewVm(s, cloned) # None
  BY <1>1, <1>2, NewVmIsVm, NoneAssumption DEF LateCreate, CreateVm, TypeOK, StoreTypeOK
<1>4. SagaMoves(s)
  BY <1>1, <1>2, <1>3 DEF SagaMoves, OthersKept, TypeOK, StoreTypeOK, GivenUp, Untouched
<1>5. OwnVm(s)'
  BY <1>1, <1>3 DEF OwnVm, Target, SlotOf
<1>6. SoloInv(s)'
  BY <1>1 DEF SoloInv, Active, Srv
<1>7. Distinct(s) => DeliveredInv(s)'
  BY <1>1, <1>2, <1>5 DEF SerialInv, DeliveredInv, Active, Srv, Pushed, Kind
<1>8. LateDestroyInv'
  BY <1>1 DEF SerialInv, LateDestroyInv
<1>9. QED
  BY <1>1, <1>4, <1>6, <1>7, <1>8, FrameSolo, FrameCurrent DEF SerialInv, Distinct, SagaMoves

\* A VM destroyed late is known to nobody: its row and every copy of it name none.
LEMMA LateDestroySerial ==
    ASSUME OpsInv, SerialInv, NEW s \in Servers, NEW h \in Hosts, LateDestroy(s, h), UNCHANGED opVars
    PROVE  SerialInv'
<1>1. /\ TypeOK /\ ServerInv(s) /\ SoloInv(s)
      /\ UNCHANGED <<db, hosts, pc, ent, loaded, op, at, copy, sess, billed, granted>>
      /\ late' \subseteq late
  BY DEF LateDestroy, OpsInv, OpsTypeOK, SerialInv, opVars
<1>2. /\ db[s] # None /\ pc[s] \in {"raised", "lost"} /\ h = ent[s].host /\ OwnVm(s) /\ ent[s] # None
      /\ SlotOf(s, h) = Target(s) /\ Target(s) \in Slots /\ db[s].ext = None
  <2>1. db[s] # None /\ pc[s] \in {"raised", "lost"} /\ h = ent[s].host /\ OwnVm(s) /\ db[s].ext = None
    BY DEF LateDestroy, OpsInv, LateInv, Accounted, SerialInv, LateDestroyInv
  <2>2. QED
    BY <1>1, <2>1, TargetIsSlot DEF Target, SlotOf, ServerInv
<1>3. vms' = [vms EXCEPT ![Target(s)] = None] /\ vms'[Target(s)] = None
  BY <1>1, <1>2 DEF LateDestroy, TypeOK, StoreTypeOK
<1>4. SagaMoves(s)
  BY <1>1, <1>2, <1>3 DEF SagaMoves, OthersKept, TypeOK, StoreTypeOK, GivenUp, Untouched, OwnVm
<1>5. ~OwnVm(s)'
  BY <1>1, <1>3 DEF OwnVm, Target, SlotOf
<1>6. SoloInv(s)'
  BY <1>1 DEF SoloInv, Active, Srv
<1>7. \A o \in Active : Srv(o) = s => copy[o].ext = None /\ ~Pushed(o) /\ at[o] # "record"
  <2> SUFFICES ASSUME NEW o \in Active, Srv(o) = s
               PROVE  copy[o].ext = None /\ ~Pushed(o) /\ at[o] # "record"
    OBVIOUS
  <2>1. o \in Ops /\ CurrentInv(o)
    BY DEF Active, SerialInv
  <2>2. copy[o].ext = None
    BY <1>2, <2>1 DEF CurrentInv
  <2>3. Kind(o) = "extend" /\ at[o] = "save"
    BY <2>1, <2>2, HandlerFacts
  <2>4. QED
    BY <2>2, <2>3 DEF Pushed
<1>8. Distinct(s) => DeliveredInv(s)'
  BY <1>1, <1>2, <1>5, <1>7 DEF SerialInv, DeliveredInv, Active, Srv, Pushed, Kind, Published
<1>9. LateDestroyInv'
  BY <1>1 DEF SerialInv, LateDestroyInv
<1>10. QED
  BY <1>1, <1>4, <1>6, <1>8, <1>9, FrameSolo, FrameCurrent DEF SerialInv, Distinct, SagaMoves

(***************************************************************************)
(* Hosts, guests and crashes                                               *)
(***************************************************************************)

\* Nothing the invariant speaks of moves, the run states of VMs apart.
LEMMA StillSerial ==
    ASSUME OpsInv, SerialInv, UNCHANGED <<db, sagaVars, opVars>>,
           \A x \in Slots :
              /\ vms'[x] = None <=> vms[x] = None
              /\ vms[x] # None => /\ vms'[x].owner = vms[x].owner
                                  /\ vms'[x].cpu = vms[x].cpu /\ vms'[x].disk = vms[x].disk
    PROVE  SerialInv'
<1>1. UNCHANGED <<db, pc, ent, loaded, late, op, at, copy, sess, billed, granted>>
  BY DEF sagaVars, opVars
<1>2. ASSUME NEW s \in Servers PROVE SoloInv(s)' /\ (Distinct(s) => DeliveredInv(s)')
  <2>1. SoloInv(s) /\ (Distinct(s) => DeliveredInv(s)) /\ ServerInv(s)
    BY DEF SerialInv, OpsInv
  <2>2. SoloInv(s)'
    BY <1>1, <2>1 DEF SoloInv, Active, Srv
  <2>3. ent[s] # None => /\ Target(s) \in Slots /\ Target(s)' = Target(s)
                         /\ (OwnVm(s)' <=> OwnVm(s))
                         /\ OwnVm(s) => /\ vms'[Target(s)].cpu = vms[Target(s)].cpu
                                        /\ vms'[Target(s)].disk = vms[Target(s)].disk
    BY <1>1, TargetIsSlot DEF OpsInv, OpsTypeOK, OwnVm, Target, SlotOf
  <2>4. db[s] # None => ent[s] # None
    BY <2>1 DEF ServerInv
  <2>5. \A o \in Active : Srv(o) = s => db[s] # None
    BY DEF OpsInv, HandlerInv, Active
  <2>6. ASSUME DeliveredInv(s), ent[s] # None PROVE DeliveredInv(s)'
    BY <1>1, <2>3, <2>6 DEF DeliveredInv, Active, Srv, Pushed, Kind, Within
  <2>7. ASSUME DeliveredInv(s), ent[s] = None PROVE DeliveredInv(s)'
    BY <1>1, <2>4, <2>5, <2>7 DEF DeliveredInv, Active, Srv, Published
  <2>8. QED
    BY <2>1, <2>2, <2>6, <2>7
<1>3. ASSUME NEW o \in Ops PROVE CurrentInv(o)'
  BY <1>1 DEF SerialInv, CurrentInv, Active, Srv, Kind
<1>4. LateDestroyInv'
  BY <1>1 DEF SerialInv, LateDestroyInv
<1>5. QED
  BY <1>2, <1>3, <1>4 DEF SerialInv, Distinct

\* An admin adds or deletes a host.
LEMMA HostsSerial ==
    ASSUME OpsInv, SerialInv, NEW h \in Hosts, AddHost(h) \/ DeleteHost(h),
           UNCHANGED <<sagaVars, opVars>>
    PROVE  SerialInv'
<1>1. UNCHANGED <<db, vms>>
  BY DEF AddHost, DeleteHost
<1>2. QED
  BY <1>1, StillSerial

\* A VM changes its run state by itself.
LEMMA DriftSerial ==
    ASSUME OpsInv, SerialInv, NEW x \in Slots, NEW run \in RunStates, Drift(x, run),
           UNCHANGED <<sagaVars, opVars>>
    PROVE  SerialInv'
<1>1. /\ vms[x] \in VM /\ vms' = [vms EXCEPT ![x] = WithRun(vms[x], run)] /\ vms[x] # None
      /\ vms \in [Slots -> VM \cup {None}] /\ db' = db
  BY DEF Drift, OpsInv, OpsTypeOK, TypeOK, StoreTypeOK
<1>2. /\ WithRun(vms[x], run) \in VM /\ WithRun(vms[x], run).owner = vms[x].owner
      /\ WithRun(vms[x], run).cpu = vms[x].cpu /\ WithRun(vms[x], run).disk = vms[x].disk
  BY <1>1, VmAssignments
<1>3. \A y \in Slots :
         /\ vms'[y] = None <=> vms[y] = None
         /\ vms[y] # None => /\ vms'[y].owner = vms[y].owner
                             /\ vms'[y].cpu = vms[y].cpu /\ vms'[y].disk = vms[y].disk
  BY <1>1, <1>2, NoneAssumption
<1>4. QED
  BY <1>1, <1>3, StillSerial

\* A crash leaves rows, VMs and ledger as they are, and no one who holds a copy.
LEMMA CrashSerial ==
    ASSUME OpsInv, SerialInv, NEW sent \in SUBSET Unanswered, CrashAll(sent)
    PROVE  SerialInv'
<1>1. /\ UNCHANGED <<db, hosts, vms, ent, billed, granted>>
      /\ \A t \in Servers : /\ pc'[t] = IF t \in InFlight THEN "lost" ELSE pc[t]
                            /\ loaded'[t] = None
      /\ \A o \in Ops : sess'[o] = None
  BY DEF CrashAll, Crash, storeVars
<1>2. \A o \in Ops : o \notin Active'
  BY CrashEndsAll
<1>3. ASSUME NEW s \in Servers PROVE SoloInv(s)' /\ (Distinct(s) => DeliveredInv(s)')
  <2>1. SoloInv(s) /\ (Distinct(s) => DeliveredInv(s))
    BY DEF SerialInv
  <2>2. pc'[s] \notin Building /\ (pc'[s] \notin Ends => pc'[s] = pc[s])
    BY <1>1 DEF InFlight, Building, Ends
  <2>3. \A o \in Active' : FALSE
    BY <1>2 DEF Active
  <2>4. SoloInv(s)'
    BY <1>1, <2>1, <2>2, <2>3 DEF SoloInv
  <2>5. DeliveredInv(s) => DeliveredInv(s)'
    BY <1>1, <2>3 DEF DeliveredInv, OwnVm, Target, SlotOf
  <2>6. QED
    BY <2>1, <2>4, <2>5
<1>4. \A o \in Ops : CurrentInv(o)'
  BY <1>1, <1>2 DEF CurrentInv
<1>5. LateDestroyInv'
  <2> SUFFICES ASSUME NEW r \in late \cup Unanswered, r[1] = "destroy" PROVE db[r[2]].ext = None
    BY <1>1 DEF CrashAll, Crash, LateDestroyInv
  <2>1. CASE r \in late
    BY <2>1 DEF SerialInv, LateDestroyInv
  <2>2. CASE r \in Unanswered
    <3>1. PICK t \in InFlight : pc[t] = "rollback" /\ r[2] = t
      BY <2>2 DEF Unanswered
    <3>2. QED
      BY <3>1 DEF InFlight, SerialInv, SoloInv, Building
  <2>3. QED
    BY <2>1, <2>2
<1>6. QED
  BY <1>3, <1>4, <1>5 DEF SerialInv, Distinct

(***************************************************************************)
(* The arrival of a request                                                *)
(***************************************************************************)

\* A customer who has waited finds nobody at work on the server.
LEMMA ArrivesSerial ==
    ASSUME OpsInv, SerialInv, Serial, NEW o \in Ops, NEW s \in Servers, NEW kind \in Kinds,
           NEW step \in Steps, NEW entity \in Row, Arrives(o, kind, s, step, entity),
           db[s] # None, step \notin {"resize", "record"}, step = "save" => kind # "upgrade",
           step = "read" => kind = "refresh",
           entity.ext = db[s].ext, entity.status = db[s].status,
           entity.cpu = db[s].cpu, entity.disk = db[s].disk,
           entity.days = db[s].days + IF kind = "extend" THEN MoreDays ELSE 0
    PROVE  SerialInv'
<1>1. /\ UNCHANGED <<db, hosts, vms, pc, ent, loaded, late, sess, billed, granted>>
      /\ op'[o] = [kind |-> kind, srv |-> s] /\ at'[o] = step /\ copy'[o] = entity
      /\ HandlersKept(o) /\ at[o] = "idle"
  BY DEF Arrives, vars, storeVars, sagaVars, OpsInv, OpsTypeOK, HandlersKept
<1>2. Srv(o)' = s /\ Kind(o)' = kind /\ o \in Active'
  BY <1>1 DEF Srv, Kind, Active
<1>3. pc[s] \in Ends /\ \A p \in Active : Srv(p) # s
  BY DEF Arrives, Quiet, Active, Busy
<1>4. \A p \in Active' : p = o \/ (p \in Active /\ Srv(p)' = Srv(p) /\ p \in Ops)
  BY <1>1 DEF HandlersKept, Active, Srv
<1>5. \A p \in Active' : Srv(p)' = s => p = o
  BY <1>3, <1>4
<1>6. ASSUME NEW t \in Servers PROVE SoloInv(t)'
  <2>1. SoloInv(t)
    BY DEF SerialInv
  <2>2. CASE t = s
    BY <1>1, <1>3, <1>5, <2>1, <2>2 DEF SoloInv, Building, Ends
  <2>3. CASE t # s
    BY <1>1, <1>2, <1>4, <2>1, <2>3 DEF SoloInv
  <2>4. QED
    BY <2>2, <2>3
<1>7. ASSUME NEW t \in Servers, Distinct(t) PROVE DeliveredInv(t)'
  <2>1. DeliveredInv(t)
    BY <1>7 DEF SerialInv
  <2>2. OwnVm(t)' = OwnVm(t) /\ Target(t)' = Target(t)
    BY <1>1 DEF OwnVm, Target, SlotOf
  <2>3. CASE t = s
    <3>1. Published(entity) => OwnVm(s)
      BY <2>1, <2>3 DEF DeliveredInv, Published
    <3>2. Within(db[s], entity)
      <4>1. Sized(db[s])
        BY RowsSized, FreshRow
      <4>2. QED
        BY <4>1, WithinOrder
    <3>3. ent[s].ext # None /\ OwnVm(s) => Within(entity, vms[Target(s)])
      BY <2>1, <2>3 DEF DeliveredInv, Within
    <3>4. ~Pushed(o)' /\ at'[o] # "record"
      BY <1>1, <1>2 DEF Pushed
    <3>5. QED
      BY <1>1, <1>5, <2>1, <2>2, <2>3, <3>1, <3>2, <3>3, <3>4 DEF DeliveredInv
  <2>4. CASE t # s
    <3>1. \A p \in Active' : Srv(p)' = t =>
             p \in Active /\ Srv(p) = t /\ copy'[p] = copy[p] /\ at'[p] = at[p] /\ Pushed(p)' = Pushed(p)
      BY <1>1, <1>2, <1>4, <2>4 DEF HandlersKept, Pushed, Kind
    <3>2. QED
      BY <1>1, <2>1, <2>2, <3>1 DEF DeliveredInv
  <2>5. QED
    BY <2>3, <2>4
<1>8. CurrentInv(o)'
  <2>1. sess[o] = None
    BY <1>1 DEF SerialInv, CurrentInv
  <2>2. QED
    BY <1>1, <1>2, <2>1 DEF CurrentInv
<1>9. \A p \in Ops : CurrentInv(p)'
  <2> SUFFICES ASSUME NEW p \in Ops, p # o PROVE CurrentInv(p)'
    BY <1>8
  <2>1. CurrentInv(p)
    BY DEF SerialInv
  <2>2. QED
    BY <1>1, <2>1 DEF HandlersKept, CurrentInv, Active, Srv, Kind
<1>10. LateDestroyInv'
  BY <1>1 DEF SerialInv, LateDestroyInv
<1>11. QED
  BY <1>6, <1>7, <1>9, <1>10 DEF SerialInv, Distinct

\* An extension begins.
LEMMA BeginExtendSerial ==
    ASSUME OpsInv, SerialInv, Serial, NEW o \in Ops, NEW s \in Servers, BeginExtend(o, s)
    PROVE  SerialInv'
<1>1. db[s] # None /\ "extend" \in Kinds /\ db[s] \in Row
  BY FreshRow DEF BeginExtend
<1> DEFINE days == db[s].days + MoreDays
<1>2. days \in Nat
  BY <1>1, DaysAssumption DEF Row
<1>3. Arrives(o, "extend", s, "save", WithDays(db[s], days)) /\ days = db[s].days + MoreDays
  BY DEF BeginExtend
<1> HIDE DEF days
<1>4. LET e == WithDays(db[s], days)
      IN  /\ e \in Row /\ e.ext = db[s].ext /\ e.status = db[s].status
          /\ e.cpu = db[s].cpu /\ e.disk = db[s].disk /\ e.days = days
  BY <1>1, <1>2, MoreAssignments
<1>5. "save" \in Steps
  BY DEF Steps
<1>6. QED
  BY <1>1, <1>3, <1>4, <1>5, ArrivesSerial

\* A request about a VM begins.
LEMMA BeginOnVmSerial ==
    ASSUME OpsInv, SerialInv, Serial, NEW o \in Ops, NEW kind \in Kinds, NEW s \in Servers,
           BeginOnVm(o, kind, s)
    PROVE  SerialInv'
<1>1. /\ db[s] # None /\ kind # "extend" /\ db[s] \in Row
      /\ Arrives(o, kind, s, FirstCall(kind), db[s])
  BY FreshRow DEF BeginOnVm
<1>2. /\ FirstCall(kind) \in {"power", "read", "check", "password"}
      /\ FirstCall(kind) = "read" => kind = "refresh"
  BY <1>1, KindsAssumption DEF FirstCall, AllKinds
<1>3. FirstCall(kind) \in Steps
  BY <1>2 DEF Steps
<1>4. db[s].days = db[s].days + 0
  BY <1>1 DEF Row
<1>5. QED
  BY <1>1, <1>2, <1>3, <1>4, ArrivesSerial

(***************************************************************************)
(* The steps of a handler                                                  *)
(***************************************************************************)

\* What the one handler of a server knows.
LEMMA SoloFacts ==
    ASSUME OpsInv, SerialInv, NEW o \in Ops, o \in Active, NEW s \in Servers, Srv(o) = s
    PROVE  /\ pc[s] \in Ends /\ loaded[s] = None
           /\ \A p \in Active : Srv(p) = s => p = o
           /\ sess[o] # None => at[o] = "save" /\ sess[o] = db[s]
           /\ at[o] = "read" => Kind(o) = "refresh"
           /\ copy[o].ext = db[s].ext
           /\ copy[o].days = db[s].days + IF Kind(o) = "extend" THEN MoreDays ELSE 0
           /\ db[s].days = PlanDays + granted[s]
           /\ db[s] \in Row /\ db[s] # None /\ copy[o] \in Row /\ ent[s] # None
           /\ Target(s) \in Slots
           /\ billed[s] \in Nat /\ granted[s] \in Nat
<1>1. /\ db[s] \in Row /\ db[s] # None /\ copy[o] \in Row /\ ent[s] # None
      /\ billed[s] \in Nat /\ granted[s] \in Nat /\ Target(s) \in Slots
  BY HandlerFacts, TargetIsSlot DEF OpsInv, OpsTypeOK
<1>2. SoloInv(s) /\ CurrentInv(o)
  BY DEF SerialInv
<1>3. pc[s] \in Ends /\ loaded[s] = None
  BY <1>2 DEF SoloInv, Ends, Saves
<1>4. QED
  BY <1>1, <1>2, <1>3 DEF SoloInv, CurrentInv

\* The same about sizes, where the VM can be no other's.
LEMMA SoloSizes ==
    ASSUME OpsInv, SerialInv, NEW o \in Ops, o \in Active, NEW s \in Servers, Srv(o) = s, Distinct(s)
    PROVE  /\ Published(db[s]) => OwnVm(s)
           /\ Published(copy[o]) => OwnVm(s)
           /\ Reached(db[s], billed[s])
           /\ billed[s] > 0 => db[s].ext # None /\ OwnVm(s)
           /\ ent[s].ext # None /\ OwnVm(s) => /\ Within(db[s], vms[Target(s)])
                                               /\ Within(copy[o], vms[Target(s)])
           /\ Within(db[s], copy[o])
           /\ Pushed(o) => OwnVm(s) /\ Reached(copy[o], billed[s] + 1)
           /\ at[o] = "record" => Reached(db[s], billed[s] + 1)
<1>1. db[s] # None
  BY SoloFacts
<1>2. DeliveredInv(s)
  BY DEF SerialInv
<1>3. QED
  BY <1>1, <1>2 DEF DeliveredInv

\* A handler that keeps row, copy, VM and ledger of its own server in step.
LEMMA SerialStep ==
    ASSUME OpsInv, SerialInv, NEW o \in Ops, o \in Active, NEW s \in Servers, Srv(o) = s,
           UNCHANGED sagaVars, StoreMoves, HandlersKept(o),
           \A p \in Ops : p # o => sess'[p] = sess[p],
           \A t \in Servers : t # s =>
              db'[t] = db[t] /\ billed'[t] = billed[t] /\ granted'[t] = granted[t],
           \A x \in Slots : vms'[x] = vms[x] \/ x[2] = VmidOf[s],
           o \in Active' => Srv(o)' = s,
           db'[s].ext = db[s].ext,
           db'[s].days = PlanDays + granted'[s],
           CurrentInv(o)',
           Distinct(s) =>
              /\ Published(db'[s]) => OwnVm(s)
              /\ Reached(db'[s], billed'[s])
              /\ billed'[s] > 0 => db'[s].ext # None /\ OwnVm(s)
              /\ ent[s].ext # None /\ OwnVm(s) => Within(db'[s], vms'[Target(s)])
              /\ o \in Active' =>
                    /\ Published(copy'[o]) => OwnVm(s)
                    /\ Within(db'[s], copy'[o])
                    /\ ent[s].ext # None /\ OwnVm(s) => Within(copy'[o], vms'[Target(s)])
                    /\ Pushed(o)' => OwnVm(s) /\ Reached(copy'[o], billed'[s] + 1)
                    /\ at'[o] = "record" => Reached(db'[s], billed'[s] + 1)
    PROVE  SerialInv'
<1>1. /\ pc[s] \in Ends /\ loaded[s] = None /\ db[s] # None /\ ent[s] # None
      /\ \A p \in Active : Srv(p) = s => p = o
  BY SoloFacts
<1>2. UNCHANGED <<pc, ent, loaded, late>>
  BY DEF sagaVars
<1>3. \A p \in Active' : p = o \/ (p \in Active /\ p \in Ops /\ Srv(p)' = Srv(p))
  BY DEF HandlersKept, Active, Srv
<1>4. \A p \in Active' : Srv(p)' = s => p = o
  BY <1>1, <1>3
<1>5. db'[s] # None
  BY <1>1 DEF StoreMoves
<1>6. ASSUME NEW t \in Servers PROVE SoloInv(t)'
  <2>1. SoloInv(t)
    BY DEF SerialInv
  <2>2. CASE t = s
    BY <1>1, <1>2, <1>4, <2>1, <2>2 DEF SoloInv, Building, Ends
  <2>3. CASE t # s
    BY <1>2, <1>3, <2>1, <2>3 DEF SoloInv
  <2>4. QED
    BY <2>2, <2>3
<1>7. ASSUME NEW t \in Servers, Distinct(t) PROVE DeliveredInv(t)'
  <2>1. DeliveredInv(t) /\ ServerInv(t)
    BY <1>7 DEF SerialInv, OpsInv
  <2>2. ent[t] # None => /\ Target(t) \in Slots /\ Target(t)' = Target(t)
                         /\ Target(t)[2] = VmidOf[t] /\ (OwnVm(t)' <=> OwnVm(t))
    BY <1>2, StoreFrame, TargetIsSlot DEF OpsInv, OpsTypeOK, Target, SlotOf
  <2>3. CASE t = s
    BY <1>1, <1>2, <1>4, <1>5, <1>7, <2>2, <2>3 DEF DeliveredInv
  <2>4. CASE t # s
    <3>1. \A p \in Active' : Srv(p)' = t =>
             /\ p \in Active /\ Srv(p) = t /\ copy'[p] = copy[p] /\ at'[p] = at[p]
             /\ Pushed(p)' = Pushed(p) /\ db[t] # None
      BY <1>3, <2>4 DEF HandlersKept, Pushed, Kind, OpsInv, HandlerInv
    <3>2. ent[t] # None => vms'[Target(t)] = vms[Target(t)]
      BY <1>7, <2>2, <2>4 DEF Distinct
    <3>3. db[t] # None => ent[t] # None
      BY <2>1 DEF ServerInv
    <3>4. CASE ent[t] # None
      BY <1>2, <2>1, <2>2, <2>4, <3>1, <3>2, <3>4 DEF DeliveredInv
    <3>5. CASE ent[t] = None
      BY <1>2, <2>1, <2>4, <3>1, <3>3, <3>5 DEF DeliveredInv, Published
    <3>6. QED
      BY <3>4, <3>5
  <2>5. QED
    BY <2>3, <2>4
<1>8. ASSUME NEW p \in Ops PROVE CurrentInv(p)'
  <2>1. CASE p = o
    BY <2>1
  <2>2. CASE p # o
    <3>1. CurrentInv(p) /\ (sess[p] # None => p \in Active)
      BY DEF SerialInv, CurrentInv, Active, Steps
    <3>2. p \in Active => Srv(p) \in Servers /\ Srv(p) # s
      BY <1>1, <2>2, HandlerFacts
    <3>3. QED
      BY <2>2, <3>1, <3>2 DEF HandlersKept, CurrentInv, Active, Srv, Kind
  <2>3. QED
    BY <2>1, <2>2
<1>9. LateDestroyInv'
  <2> SUFFICES ASSUME NEW r \in late, r[1] = "destroy" PROVE db'[r[2]].ext = None
    BY <1>2 DEF LateDestroyInv
  <2>1. db[r[2]].ext = None /\ r[2] \in Servers
    BY DEF SerialInv, LateDestroyInv, OpsInv, OpsTypeOK, TypeOK, Requests
  <2>2. QED
    BY <2>1
<1>10. QED
  BY <1>6, <1>7, <1>8, <1>9 DEF SerialInv, Distinct

\* A handler that ends without having saved anything leaves the rest as it is.
LEMMA SerialEnds ==
    ASSUME OpsInv, SerialInv, NEW o \in Ops, o \in Active, NEW step \in Over, NEW entity \in Row,
           GoOn(o, step, entity), UNCHANGED <<db, hosts, sagaVars, billed, granted>>,
           sess'[o] = None, \A p \in Ops : p # o => sess'[p] = sess[p],
           UNCHANGED vms \/ \E vm \in VM :
              /\ vms' = [vms EXCEPT ![Slot(o)] = vm] /\ Vm(o) # None /\ Kind(o) # "extend"
              /\ vm.owner = Vm(o).owner /\ vm.cpu = Vm(o).cpu /\ vm.disk = Vm(o).disk
    PROVE  SerialInv'
<1>1. PICK s \in Servers : Srv(o) = s
  BY HandlerFacts
<1>2. HandlersKept(o) /\ o \notin Active'
  BY GoOnMoves
<1>3. CurrentInv(o)'
  BY <1>2 DEF CurrentInv
<1>4. vms \in [Slots -> VM \cup {None}]
  BY DEF OpsInv, OpsTypeOK, TypeOK, StoreTypeOK
<1>5. Kind(o) # "extend" => Slot(o) \in Slots /\ Slot(o)[2] = VmidOf[s]
  BY <1>1, HandlerSlot
<1>6. /\ \A x \in Slots : vms'[x] = vms[x] \/ x[2] = VmidOf[s]
      /\ \A x \in Slots : vms[x] = None <=> vms'[x] = None
      /\ \A x \in Slots : vms[x] # None => /\ vms'[x].owner = vms[x].owner
                                           /\ vms'[x].cpu = vms[x].cpu /\ vms'[x].disk = vms[x].disk
  BY <1>4, <1>5, NoneAssumption DEF Vm
<1>7. StoreMoves
  BY <1>6 DEF StoreMoves, sagaVars
<1>8. /\ db[s].days = PlanDays + granted[s] /\ Target(s) \in Slots /\ ent[s] # None
  BY <1>1, SoloFacts
<1>9. ASSUME Distinct(s)
      PROVE  /\ Published(db[s]) => OwnVm(s)
             /\ Reached(db[s], billed[s])
             /\ billed[s] > 0 => db[s].ext # None /\ OwnVm(s)
             /\ ent[s].ext # None /\ OwnVm(s) => Within(db[s], vms'[Target(s)])
  BY <1>1, <1>6, <1>8, <1>9, SoloSizes DEF Within, OwnVm
<1>10. QED
  BY <1>1, <1>2, <1>3, <1>6, <1>7, <1>8, <1>9, SerialStep

\* A handler that goes on with what fits between the row and the VM.
LEMMA SerialGoesOn ==
    ASSUME OpsInv, SerialInv, NEW o \in Ops, o \in Active, NEW s \in Servers, Srv(o) = s,
           NEW step \in Steps \ {"read", "record"}, NEW entity \in Row, GoOn(o, step, entity),
           Kind(o) # "extend", at[o] # "save", UNCHANGED <<db, hosts, sagaVars, sess, billed, granted>>,
           vms' = vms \/ \E vm \in VM :
              vms' = [vms EXCEPT ![Slot(o)] = vm] /\ Vm(o) # None /\ vm.owner = Vm(o).owner,
           entity.ext = copy[o].ext, entity.days = copy[o].days,
           Distinct(s) =>
              /\ Published(entity) => OwnVm(s)
              /\ Within(db[s], entity)
              /\ OwnVm(s) => Within(entity, vms'[Target(s)])
              /\ step = "resize" \/ (step = "save" /\ Kind(o) = "upgrade") =>
                    OwnVm(s) /\ Reached(entity, billed[s] + 1)
    PROVE  SerialInv'
<1>1. /\ HandlersKept(o) /\ op'[o] = op[o] /\ at'[o] = step /\ copy'[o] = entity
      /\ Srv(o)' = s /\ Kind(o)' = Kind(o)
  BY GoOnMoves
<1>2. /\ copy[o].ext = db[s].ext /\ copy[o].days = db[s].days + 0 /\ sess[o] = None
      /\ db[s].days = PlanDays + granted[s] /\ db[s] \in Row /\ ent[s] # None /\ Target(s) \in Slots
  BY SoloFacts
<1>3. CurrentInv(o)'
  BY <1>1, <1>2 DEF CurrentInv
<1>4. vms \in [Slots -> VM \cup {None}]
  BY DEF OpsInv, OpsTypeOK, TypeOK, StoreTypeOK
<1>5. Slot(o) \in Slots /\ Slot(o)[2] = VmidOf[s]
  BY HandlerSlot
<1>6. /\ \A x \in Slots : vms'[x] = vms[x] \/ x[2] = VmidOf[s]
      /\ vms' \in [Slots -> VM \cup {None}]
  BY <1>4, <1>5
<1>7. \A x \in Slots : /\ vms[x] = None <=> vms'[x] = None
                       /\ vms[x] # None => vms'[x].owner = vms[x].owner
  BY <1>4, <1>5, NoneAssumption DEF Vm
<1>8. StoreMoves
  BY <1>7 DEF StoreMoves, sagaVars
<1>9. ASSUME Distinct(s), OwnVm(s) PROVE Within(db[s], vms'[Target(s)])
  <2>1. vms'[Target(s)] \in VM
    BY <1>2, <1>6, <1>7, <1>9 DEF OwnVm
  <2>2. Sized(db[s]) /\ Sized(entity) /\ Sized(vms'[Target(s)])
    BY <1>2, <2>1, RowsSized
  <2>3. QED
    BY <1>9, <2>2, WithinOrder
<1>10. ASSUME Distinct(s)
       PROVE  /\ Published(db[s]) => OwnVm(s)
              /\ Reached(db[s], billed[s])
              /\ billed[s] > 0 => db[s].ext # None /\ OwnVm(s)
              /\ ent[s].ext # None /\ OwnVm(s) => Within(db[s], vms'[Target(s)])
  BY <1>9, <1>10, SoloSizes
<1>11. Pushed(o)' => step = "resize" \/ (step = "save" /\ Kind(o) = "upgrade")
  BY <1>1 DEF Pushed
<1>12. QED
  BY <1>1, <1>2, <1>3, <1>6, <1>8, <1>10, <1>11, SerialStep

\* A handler that has a VM in front of it has its own.
LEMMA SerialVm ==
    ASSUME OpsInv, SerialInv, NEW o \in Ops, o \in Active, NEW s \in Servers, Srv(o) = s,
           Kind(o) # "extend", Vm(o) # None, Distinct(s)
    PROVE  /\ OwnVm(s) /\ Vm(o) = vms[Target(s)]
           /\ Within(db[s], copy[o]) /\ Within(copy[o], Vm(o)) /\ Within(db[s], Vm(o))
<1>1. OwnVm(s) /\ Vm(o) = vms[Target(s)] /\ ent[s].ext # None
  BY HandlerSlot DEF Vm
<1>2. QED
  BY <1>1, SoloSizes

\* A power command: the VM was there, so the status to save may be shown.
LEMMA PowerCallSerial ==
    ASSUME OpsInv, SerialInv, NEW o \in Ops, PowerCall(o)
    PROVE  SerialInv'
<1>1. o \in Active /\ HandlerInv(o) /\ at[o] = "power"
  BY DEF PowerCall, Active, Steps, OpsInv
<1>2. Kind(o) \in DOMAIN Power /\ Kind(o) # "extend" /\ Kind(o) # "upgrade"
  BY <1>1 DEF HandlerInv, Power
<1>3. PICK s \in Servers : Srv(o) = s
  BY <1>1, HandlerFacts
<1>4. copy[o] \in Row /\ Vm(o) \in VM /\ Vm(o) # None /\ Slot(o) \in Slots /\ Slot(o) = Target(s)
  BY <1>1, <1>2, <1>3, HandlerFacts, HandlerSlot DEF PowerCall
<1>5. /\ Power[Kind(o)].run \in RunStates /\ Power[Kind(o)].status \in Statuses
  BY <1>2, PowerCommands
<1>6. PICK run \in {Vm(o).run, Power[Kind(o)].run} : SetVm(o, WithRun(Vm(o), run))
  BY DEF PowerCall
<1>7. run \in RunStates
  BY <1>4, <1>5, <1>6 DEF VM
<1>8. /\ WithRun(Vm(o), run) \in VM /\ WithRun(Vm(o), run).owner = Vm(o).owner
      /\ WithRun(Vm(o), run).cpu = Vm(o).cpu /\ WithRun(Vm(o), run).disk = Vm(o).disk
  BY <1>4, <1>7, VmAssignments
<1>9. LET e == WithStatus(copy[o], Power[Kind(o)].status)
      IN  e \in Row /\ e.ext = copy[o].ext /\ e.days = copy[o].days /\ e.cpu = copy[o].cpu /\ e.disk = copy[o].disk
  BY <1>4, <1>5, EntityAssignments, DaysAssigned
<1>10. /\ GoOn(o, "save", WithStatus(copy[o], Power[Kind(o)].status))
       /\ UNCHANGED <<db, hosts, sagaVars, sess, billed, granted>>
       /\ "save" \in Steps \ {"read", "record"}
  BY DEF PowerCall, Steps
<1>11. vms' = [vms EXCEPT ![Slot(o)] = WithRun(Vm(o), run)] /\ vms'[Target(s)] = WithRun(Vm(o), run)
  BY <1>4, <1>6 DEF SetVm, OpsInv, OpsTypeOK, TypeOK, StoreTypeOK
<1>12. ASSUME Distinct(s)
       PROVE  LET e == WithStatus(copy[o], Power[Kind(o)].status)
              IN  OwnVm(s) /\ Within(db[s], e) /\ Within(e, vms'[Target(s)])
  <2>1. OwnVm(s) /\ Within(db[s], copy[o]) /\ Within(copy[o], Vm(o))
    BY <1>1, <1>2, <1>3, <1>4, <1>12, SerialVm
  <2>2. QED
    BY <1>8, <1>9, <1>11, <2>1 DEF Within
<1>13. QED
  BY <1>1, <1>2, <1>3, <1>4, <1>8, <1>9, <1>10, <1>11, <1>12, SerialGoesOn

\* A refresh reads the VM: what it will save is what the VM has.
LEMMA ReadVmSerial ==
    ASSUME OpsInv, SerialInv, NEW o \in Ops, NEW cpuKnown \in BOOLEAN, NEW diskKnown \in BOOLEAN,
           NEW sameIp \in BOOLEAN, ReadVm(o, cpuKnown, diskKnown, sameIp)
    PROVE  SerialInv'
<1> DEFINE mapped == MapProxmoxStatus(Vm(o).run)
           base == IF mapped = None THEN copy[o] ELSE WithStatus(copy[o], mapped)
           cpu == IF cpuKnown THEN Vm(o).cpu ELSE copy[o].cpu
           disk == IF diskKnown THEN Vm(o).disk ELSE copy[o].disk
           synced == Resized(base, cpu, disk)
           step == IF sameIp /\ synced = copy[o] THEN "answer" ELSE "save"
<1>1. o \in Active /\ at[o] = "read"
  BY DEF ReadVm, Active, Steps
<1>2. PICK s \in Servers : Srv(o) = s
  BY <1>1, HandlerFacts
<1>3. Kind(o) = "refresh" /\ sess[o] = None
  BY <1>1, <1>2, SoloFacts
<1>4. copy[o] \in Row /\ Vm(o) \in VM /\ Vm(o) # None
  BY <1>1, <1>3, HandlerFacts, HandlerSlot DEF ReadVm
<1>5. base \in Row /\ base.ext = copy[o].ext /\ base.days = copy[o].days
  BY <1>4, MappedStatuses, EntityAssignments, DaysAssigned
<1>6. cpu \in Nat /\ disk \in Nat
  BY <1>4 DEF Row, VM
<1>7. GoOn(o, step, synced) /\ UNCHANGED <<vars, sess, billed, granted>>
  BY DEF ReadVm
<1>8. step = "answer" \/ step = "save"
  OBVIOUS
<1> HIDE DEF base, cpu, disk
<1>9. /\ synced \in Row /\ synced.ext = copy[o].ext /\ synced.days = copy[o].days
      /\ synced.cpu = cpu /\ synced.disk = disk
  BY <1>5, <1>6, MoreAssignments
<1>10. UNCHANGED <<db, hosts, vms, sagaVars, sess, billed, granted>>
  BY <1>7 DEF vars, storeVars
<1>11. ASSUME Distinct(s)
       PROVE  OwnVm(s) /\ Within(db[s], synced) /\ Within(synced, vms[Target(s)])
  <2>1. /\ OwnVm(s) /\ Vm(o) = vms[Target(s)] /\ Within(db[s], copy[o]) /\ Within(copy[o], Vm(o))
        /\ Within(db[s], Vm(o))
    BY <1>1, <1>2, <1>3, <1>4, <1>11, SerialVm
  <2>2. Sized(copy[o]) /\ Sized(Vm(o))
    BY <1>4, RowsSized
  <2>3. QED
    BY <1>9, <2>1, <2>2 DEF cpu, disk, Within, Sized
<1>12. "answer" \in Over /\ "save" \in Steps \ {"read", "record"}
  BY DEF Over, Answers, Steps
<1> HIDE DEF step, synced
<1>13. CASE step = "answer"
  BY <1>1, <1>3, <1>7, <1>9, <1>10, <1>12, <1>13, SerialEnds
<1>14. CASE step = "save"
  BY <1>1, <1>2, <1>3, <1>7, <1>9, <1>10, <1>11, <1>12, <1>14, SerialGoesOn
<1>15. QED
  BY <1>8, <1>13, <1>14

\* An upgrade is let through, still with the sizes of the row, or ends.
LEMMA CheckStoppedSerial ==
    ASSUME OpsInv, SerialInv, NEW o \in Ops, NEW answer, CheckStopped(o, answer)
    PROVE  SerialInv'
<1> DEFINE e == WithStatus(copy[o], "stopped")
<1>1. o \in Active /\ at[o] = "check" /\ Kind(o) # "extend"
  <2>1. o \in Active /\ at[o] = "check"
    BY DEF CheckStopped, Active, Steps
  <2>2. QED
    BY <2>1, HandlerFacts
<1>2. PICK s \in Servers : Srv(o) = s
  BY <1>1, HandlerFacts
<1>3. copy[o] \in Row /\ copy[o] # None /\ copy[o].ext # None /\ sess[o] = None
  BY <1>1, <1>2, HandlerFacts, SoloFacts
<1>4. /\ e \in Row /\ e.ext = copy[o].ext /\ e.days = copy[o].days
      /\ e.cpu = copy[o].cpu /\ e.disk = copy[o].disk
  <2>1. "stopped" \in Statuses
    BY DEF Statuses
  <2>2. QED
    BY <1>3, <2>1, EntityAssignments, DaysAssigned
<1>5. UNCHANGED <<db, hosts, vms, sagaVars, sess, billed, granted>>
  BY DEF CheckStopped, vars, storeVars
<1>6. "push" \in Steps \ {"read", "record"} /\ "failed" \in Over
  BY DEF Steps, Over, Answers
<1>7. CASE CurrentStatus(o, answer) = "stopped"
  <2>1. GoOn(o, "push", e)
    BY <1>7 DEF CheckStopped
  <2>2. ASSUME Distinct(s) PROVE OwnVm(s)
    <3>1. CASE copy[o].status = "stopped"
      <4>1. Published(copy[o])
        BY <1>3, <3>1 DEF Published
      <4>2. QED
        BY <1>1, <1>2, <2>2, <4>1, SoloSizes
    <3>2. CASE answer = "stopped"
      <4>1. Vm(o) # None
        BY <3>2, NoneAssumption DEF CheckStopped, StatusAnswers, Statuses, Vm
      <4>2. QED
        BY <1>1, <1>2, <2>2, <4>1, SerialVm
    <3>3. QED
      BY <1>7, <3>1, <3>2 DEF CurrentStatus, MapUpgradeStatus
  <2>3. ASSUME Distinct(s)
        PROVE  OwnVm(s) /\ Within(db[s], e) /\ Within(e, vms[Target(s)])
    <3>1. OwnVm(s) /\ ent[s].ext # None /\ Within(db[s], copy[o])
      BY <1>1, <1>2, <2>2, <2>3, HandlerSlot, SoloSizes
    <3>2. Within(copy[o], vms[Target(s)])
      BY <1>1, <1>2, <2>3, <3>1, SoloSizes
    <3>3. QED
      BY <1>4, <3>1, <3>2 DEF Within
  <2> HIDE DEF e
  <2>4. QED
    BY <1>1, <1>2, <1>4, <1>5, <1>6, <2>1, <2>3, SerialGoesOn
<1>8. CASE CurrentStatus(o, answer) # "stopped"
  <2>1. GoOn(o, "failed", copy[o])
    BY <1>8 DEF CheckStopped
  <2>2. QED
    BY <1>1, <1>3, <1>5, <1>6, <2>1, SerialEnds
<1>9. QED
  BY <1>7, <1>8

\* The bundle on top of the row that was read is a bundle more than is on record.
LEMMA PushSerial ==
    ASSUME OpsInv, SerialInv, NEW o \in Ops, Push(o)
    PROVE  SerialInv'
<1> DEFINE cpu == copy[o].cpu + AddCpu
           disk == copy[o].disk + AddDisk
           step == IF AddDisk = 0 THEN "save" ELSE "resize"
<1>1. o \in Active /\ at[o] = "push" /\ Kind(o) # "extend"
  <2>1. o \in Active /\ at[o] = "push"
    BY DEF Push, Active, Steps
  <2>2. QED
    BY <2>1, HandlerFacts
<1>2. PICK s \in Servers : Srv(o) = s
  BY <1>1, HandlerFacts
<1>3. /\ copy[o] \in Row /\ Vm(o) \in VM /\ Vm(o) # None /\ Slot(o) \in Slots /\ Slot(o) = Target(s)
      /\ db[s] \in Row /\ billed[s] \in Nat
  BY <1>1, <1>2, HandlerFacts, HandlerSlot, SoloFacts DEF Push
<1>4. cpu \in Nat /\ disk \in Nat /\ copy[o].cpu <= cpu /\ copy[o].disk <= disk
  BY <1>3, BundleAssumption DEF Row
<1>5. cpu = copy[o].cpu + AddCpu /\ disk = copy[o].disk + AddDisk
  OBVIOUS
<1>6. /\ SetVm(o, WithSizes(Vm(o), cpu, disk)) /\ GoOn(o, step, Resized(copy[o], cpu, disk))
      /\ UNCHANGED <<db, hosts, sagaVars, sess, billed, granted>>
  BY DEF Push
<1>7. step \in Steps \ {"read", "record"}
  BY DEF Steps
<1> HIDE DEF cpu, disk, step
<1>8. PICK vm \in VM : /\ vm = WithSizes(Vm(o), cpu, disk) /\ vm.owner = Vm(o).owner
                       /\ vm.cpu = cpu /\ vm.disk = disk
  <2>1. Vm(o) \in VM /\ cpu \in Nat /\ disk \in Nat
    BY <1>3, <1>4
  <2>2. /\ WithSizes(Vm(o), cpu, disk) \in VM
        /\ WithSizes(Vm(o), cpu, disk).owner = Vm(o).owner
        /\ WithSizes(Vm(o), cpu, disk).cpu = cpu
        /\ WithSizes(Vm(o), cpu, disk).disk = disk
    BY <2>1, SizesAssigned
  <2>3. QED
    BY <2>2, Zenon
<1>9. PICK e \in Row : /\ e = Resized(copy[o], cpu, disk) /\ e.ext = copy[o].ext
                       /\ e.days = copy[o].days /\ e.cpu = cpu /\ e.disk = disk
  <2>1. copy[o] \in Row /\ cpu \in Nat /\ disk \in Nat
    BY <1>3, <1>4
  <2>2. /\ Resized(copy[o], cpu, disk) \in Row
        /\ Resized(copy[o], cpu, disk).ext = copy[o].ext
        /\ Resized(copy[o], cpu, disk).days = copy[o].days
        /\ Resized(copy[o], cpu, disk).cpu = cpu
        /\ Resized(copy[o], cpu, disk).disk = disk
    BY <2>1 DEF Resized, Row
  <2>3. QED
    BY <2>2, Zenon
<1>10. vms' = [vms EXCEPT ![Slot(o)] = vm] /\ vms'[Target(s)] = vm
  BY <1>3, <1>6, <1>8 DEF SetVm, OpsInv, OpsTypeOK, TypeOK, StoreTypeOK
<1>11. Sized(db[s]) /\ Sized(copy[o]) /\ Sized(e) /\ Sized(vm)
  BY <1>3, <1>8, <1>9, RowsSized
<1>12. ASSUME Distinct(s)
       PROVE  OwnVm(s) /\ Within(db[s], e) /\ Within(e, vm) /\ Reached(e, billed[s] + 1)
  <2>1. OwnVm(s) /\ Within(db[s], copy[o]) /\ Reached(db[s], billed[s])
    BY <1>1, <1>2, <1>3, <1>12, SerialVm, SoloSizes
  <2>2. Within(copy[o], e)
    BY <1>4, <1>9 DEF Within
  <2>3. Within(db[s], e) /\ Within(e, vm)
    BY <1>8, <1>9, <1>11, <2>1, <2>2, WithinOrder
  <2>4. Reached(e, billed[s] + 1)
    BY <1>3, <1>5, <1>9, <1>11, <2>1, ReachedGrows
  <2>5. QED
    BY <2>1, <2>3, <2>4
<1>13. GoOn(o, step, e)
  BY <1>6, <1>9
<1>14. QED
  BY <1>1, <1>2, <1>3, <1>6, <1>7, <1>8, <1>9, <1>10, <1>12, <1>13, SerialGoesOn

\* An upgrade grows the disk once more.
LEMMA ResizeSerial ==
    ASSUME OpsInv, SerialInv, NEW o \in Ops, Resize(o)
    PROVE  SerialInv'
<1> DEFINE cpu == Vm(o).cpu
           disk == Vm(o).disk + AddDisk
           vm == WithSizes(Vm(o), cpu, disk)
<1>1. o \in Active /\ at[o] = "resize" /\ Kind(o) # "extend"
  <2>1. o \in Active /\ at[o] = "resize"
    BY DEF Resize, Active, Steps
  <2>2. QED
    BY <2>1, HandlerFacts
<1>2. PICK s \in Servers : Srv(o) = s
  BY <1>1, HandlerFacts
<1>3. /\ copy[o] \in Row /\ Vm(o) \in VM /\ Vm(o) # None /\ Slot(o) \in Slots /\ Slot(o) = Target(s)
      /\ db[s] \in Row
  BY <1>1, <1>2, HandlerFacts, HandlerSlot DEF Resize
<1>4. cpu \in Nat /\ disk \in Nat /\ Vm(o).cpu <= cpu /\ Vm(o).disk <= disk
  BY <1>3, BundleAssumption DEF VM
<1>5. /\ SetVm(o, WithSizes(Vm(o), cpu, disk)) /\ GoOn(o, "save", copy[o])
      /\ UNCHANGED <<db, hosts, sagaVars, sess, billed, granted>>
      /\ "save" \in Steps \ {"read", "record"}
  BY DEF Resize, Steps
<1> HIDE DEF cpu, disk
<1>6. vm \in VM /\ vm.owner = Vm(o).owner /\ vm.cpu = cpu /\ vm.disk = disk
  BY <1>3, <1>4, SizesAssigned
<1>7. vms' = [vms EXCEPT ![Slot(o)] = vm] /\ vms'[Target(s)] = vm
  BY <1>3, <1>5 DEF SetVm, OpsInv, OpsTypeOK, TypeOK, StoreTypeOK
<1> HIDE DEF vm
<1>8. Sized(copy[o]) /\ Sized(Vm(o)) /\ Sized(vm) /\ Within(Vm(o), vm)
  BY <1>3, <1>4, <1>6, RowsSized DEF Within
<1>9. ASSUME Distinct(s)
      PROVE  /\ OwnVm(s) /\ Within(db[s], copy[o]) /\ Within(copy[o], vm)
             /\ Reached(copy[o], billed[s] + 1)
  <2>1. OwnVm(s) /\ Within(db[s], copy[o]) /\ Within(copy[o], Vm(o))
    BY <1>1, <1>2, <1>3, <1>9, SerialVm
  <2>2. Reached(copy[o], billed[s] + 1)
    BY <1>1, <1>2, <1>9, SoloSizes DEF Pushed
  <2>3. QED
    BY <1>8, <2>1, <2>2, WithinOrder
<1>10. QED
  BY <1>1, <1>2, <1>3, <1>5, <1>6, <1>7, <1>9, SerialGoesOn

\* A password is set.
LEMMA PushPasswordSerial ==
    ASSUME OpsInv, SerialInv, NEW o \in Ops, NEW answered \in BOOLEAN, PushPassword(o, answered)
    PROVE  SerialInv'
<1> DEFINE step == IF answered THEN "answer" ELSE "failed"
<1>1. o \in Active /\ at[o] = "password" /\ Kind(o) # "extend"
  <2>1. o \in Active /\ at[o] = "password"
    BY DEF PushPassword, Active, Steps
  <2>2. QED
    BY <2>1, HandlerFacts
<1>2. PICK s \in Servers : Srv(o) = s
  BY <1>1, HandlerFacts
<1>3. /\ copy[o] \in Row /\ Vm(o) \in VM /\ Vm(o) # None
      /\ \A p \in Ops : sess[p] = sess'[p] /\ (p = o => sess[p] = None)
  BY <1>1, <1>2, HandlerFacts, HandlerSlot, SoloFacts DEF PushPassword
<1>4. LET vm == WithPw(Vm(o), 2)
      IN  vm \in VM /\ vm.owner = Vm(o).owner /\ vm.cpu = Vm(o).cpu /\ vm.disk = Vm(o).disk
  BY <1>3, VmAssignments
<1>5. /\ vms' = [vms EXCEPT ![Slot(o)] = WithPw(Vm(o), 2)] /\ GoOn(o, step, copy[o])
      /\ UNCHANGED <<db, hosts, sagaVars, billed, granted>> /\ step \in Over
  BY DEF PushPassword, SetVm, Over, Answers
<1> HIDE DEF step
<1>6. QED
  BY <1>1, <1>3, <1>4, <1>5, SerialEnds

\* A call fails and the handler ends: the VM may be ahead of the row, never
\* behind.
LEMMA CallFailsSerial ==
    ASSUME OpsInv, SerialInv, NEW o \in Ops, CallFails(o)
    PROVE  SerialInv'
<1> DEFINE step == IF Kind(o) = "refresh" THEN "answer" ELSE "failed"
<1>1. o \in Active /\ at[o] # "save"
  BY DEF CallFails, Active
<1>2. copy[o] \in Row /\ sess[o] = None
  BY <1>1, HandlerFacts, SoloFacts
<1>3. /\ GoOn(o, step, copy[o]) /\ step \in Over
      /\ UNCHANGED <<db, hosts, vms, sagaVars, sess, billed, granted>>
  BY DEF CallFails, Over, Answers, vars, storeVars
<1> HIDE DEF step
<1>4. QED
  BY <1>1, <1>2, <1>3, SerialEnds

\* A save fails and the handler ends.
LEMMA SaveFailsSerial ==
    ASSUME OpsInv, SerialInv, NEW o \in Ops, SaveFails(o)
    PROVE  SerialInv'
<1>1. o \in Active
  BY DEF SaveFails, Active, Steps
<1>2. copy[o] \in Row
  BY <1>1, HandlerFacts
<1>3. /\ GoOn(o, "failed", copy[o]) /\ "failed" \in Over
      /\ UNCHANGED <<db, hosts, vms, sagaVars, billed, granted>>
      /\ sess'[o] = None /\ \A p \in Ops : p # o => sess'[p] = sess[p]
  BY DEF SaveFails, Over, Answers, vars, storeVars, OpsInv, OpsTypeOK
<1>4. QED
  BY <1>1, <1>2, <1>3, SerialEnds

\* The session of a save loads the row, which is what the handler read.
LEMMA OpenSaveSerial ==
    ASSUME OpsInv, SerialInv, NEW o \in Ops, OpenSave(o)
    PROVE  SerialInv'
<1>1. o \in Active /\ at[o] = "save"
  BY DEF OpenSave, Active, Steps
<1>2. PICK s \in Servers : Srv(o) = s
  BY <1>1, HandlerFacts
<1>3. /\ UNCHANGED <<op, at, copy, db, hosts, vms, sagaVars, billed, granted>>
      /\ sess'[o] = db[s] /\ \A p \in Ops : p # o => sess'[p] = sess[p]
  BY <1>2 DEF OpenSave, vars, storeVars, OpsInv, OpsTypeOK
<1>4. HandlersKept(o) /\ StoreMoves
  BY <1>3 DEF HandlersKept, StoreMoves, sagaVars
<1>5. /\ db[s].days = PlanDays + granted[s] /\ Target(s) \in Slots /\ ent[s] # None
      /\ CurrentInv(o)
  BY <1>1, <1>2, SoloFacts DEF SerialInv
<1>6. CurrentInv(o)'
  BY <1>1, <1>2, <1>3, <1>5 DEF CurrentInv, Active, Srv, Kind
<1>7. Srv(o)' = s /\ Pushed(o)' = Pushed(o)
  BY <1>2, <1>3 DEF Srv, Pushed, Kind
<1>8. ASSUME Distinct(s)
      PROVE  /\ Published(db[s]) => OwnVm(s)
             /\ Published(copy[o]) => OwnVm(s)
             /\ Reached(db[s], billed[s])
             /\ billed[s] > 0 => db[s].ext # None /\ OwnVm(s)
             /\ ent[s].ext # None /\ OwnVm(s) => /\ Within(db[s], vms[Target(s)])
                                                 /\ Within(copy[o], vms[Target(s)])
             /\ Within(db[s], copy[o])
             /\ Pushed(o) => OwnVm(s) /\ Reached(copy[o], billed[s] + 1)
             /\ at[o] = "record" => Reached(db[s], billed[s] + 1)
  BY <1>1, <1>2, <1>8, SoloSizes
<1>9. QED
  BY <1>1, <1>2, <1>3, <1>4, <1>5, <1>6, <1>7, <1>8, SerialStep

\* The session was loaded from the row as it is: what is saved is the copy.
LEMMA CommitSaveSerial ==
    ASSUME OpsInv, SerialInv, NEW o \in Ops, CommitSave(o)
    PROVE  SerialInv'
<1> DEFINE step == IF Kind(o) = "upgrade" THEN "record" ELSE "answer"
<1>1. o \in Active /\ at[o] = "save" /\ sess[o] # None
  BY DEF CommitSave, Active, Steps
<1>2. PICK s \in Servers : Srv(o) = s
  BY <1>1, HandlerFacts
<1>3. /\ copy[o] \in Row /\ copy[o] # None /\ db[s] \in Row /\ db[s] # None /\ sess[o] = db[s]
      /\ copy[o].ext = db[s].ext /\ RowOf(s, copy[o])
      /\ copy[o].days = db[s].days + IF Kind(o) = "extend" THEN MoreDays ELSE 0
      /\ db[s].days = PlanDays + granted[s] /\ Target(s) \in Slots /\ ent[s] # None
      /\ billed[s] \in Nat /\ granted[s] \in Nat
  BY <1>1, <1>2, SoloFacts, HandlerFacts
<1>4. Flush(db[s], sess[o], copy[o]) = copy[o]
  BY <1>3, FlushUnchanged
<1>5. /\ db' = [db EXCEPT ![s] = copy[o]]
      /\ db'[s] = copy[o] /\ \A t \in Servers : t # s => db'[t] = db[t]
  BY <1>2, <1>4 DEF CommitSave, OpsInv, OpsTypeOK, TypeOK, StoreTypeOK
<1>6. /\ UNCHANGED <<hosts, vms, sagaVars, billed>>
      /\ sess'[o] = None /\ \A p \in Ops : p # o => sess'[p] = sess[p]
  BY DEF CommitSave, OpsInv, OpsTypeOK
<1>7. GoOn(o, step, copy[o]) /\ step \in Steps \cup Over /\ (step = "record" \/ step \in Over)
  BY DEF CommitSave, Steps, Over, Answers
<1>8. StoreMoves
  BY <1>3, <1>5, <1>6 DEF StoreMoves, sagaVars
<1>9. /\ db'[s].days = PlanDays + granted'[s]
      /\ \A t \in Servers : t # s => granted'[t] = granted[t]
  <2>1. granted \in [Servers -> Nat] /\ PlanDays \in Nat /\ MoreDays \in Nat
    BY PlanAssumption, DaysAssumption DEF OpsInv, OpsTypeOK
  <2>2. CASE Kind(o) = "extend"
    <3>1. granted' = [granted EXCEPT ![s] = @ + MoreDays]
      BY <1>2, <2>2 DEF CommitSave
    <3>2. granted'[s] = granted[s] + MoreDays /\ \A t \in Servers : t # s => granted'[t] = granted[t]
      BY <2>1, <3>1
    <3>3. QED
      BY <1>3, <1>5, <2>1, <2>2, <3>2
  <2>3. CASE Kind(o) # "extend"
    BY <1>3, <1>5, <2>1, <2>3 DEF CommitSave
  <2>4. QED
    BY <2>2, <2>3
<1>10. HandlersKept(o)
  BY <1>3, <1>7, GoOnMoves
<1>11. o \in Active' => /\ Kind(o) = "upgrade" /\ at'[o] = "record" /\ copy'[o] = copy[o]
                        /\ Srv(o)' = s /\ Kind(o)' = Kind(o)
  <2>1. CASE Kind(o) = "upgrade"
    BY <1>2, <1>3, <1>7, <2>1, GoOnMoves DEF Steps
  <2>2. CASE Kind(o) # "upgrade"
    BY <1>3, <1>7, <2>2, GoOnMoves DEF Over, Answers
  <2>3. QED
    BY <2>1, <2>2
<1>12. CurrentInv(o)'
  <2>1. copy[o].days = copy[o].days + 0
    BY <1>3 DEF Row
  <2>2. QED
    BY <1>5, <1>6, <1>11, <2>1 DEF CurrentInv
<1>13. ASSUME Distinct(s)
       PROVE  /\ Published(copy[o]) => OwnVm(s)
              /\ Reached(copy[o], billed[s])
              /\ billed[s] > 0 => copy[o].ext # None /\ OwnVm(s)
              /\ ent[s].ext # None /\ OwnVm(s) => Within(copy[o], vms[Target(s)])
              /\ Within(copy[o], copy[o])
              /\ Kind(o) = "upgrade" => OwnVm(s) /\ Reached(copy[o], billed[s] + 1)
  <2>1. /\ Published(copy[o]) => OwnVm(s)
        /\ Reached(db[s], billed[s]) /\ Within(db[s], copy[o])
        /\ billed[s] > 0 => copy[o].ext # None /\ OwnVm(s)
        /\ ent[s].ext # None /\ OwnVm(s) => Within(copy[o], vms[Target(s)])
        /\ Pushed(o) => OwnVm(s) /\ Reached(copy[o], billed[s] + 1)
    BY <1>1, <1>2, <1>3, <1>13, SoloSizes
  <2>2. Sized(db[s]) /\ Sized(copy[o])
    BY <1>3, RowsSized
  <2>3. Reached(copy[o], billed[s]) /\ Within(copy[o], copy[o])
    BY <1>3, <2>1, <2>2, ReachedGrows, WithinOrder
  <2>4. QED
    BY <1>1, <2>1, <2>3 DEF Pushed
<1> HIDE DEF step
<1>14. QED
  BY <1>1, <1>2, <1>3, <1>5, <1>6, <1>8, <1>9, <1>10, <1>11, <1>12, <1>13, SerialStep

\* The ledger counts an upgrade that the row and the VM have.
LEMMA RecordSerial ==
    ASSUME OpsInv, SerialInv, NEW o \in Ops, Record(o)
    PROVE  SerialInv'
<1>1. o \in Active /\ at[o] = "record" /\ Kind(o) # "extend"
  <2>1. o \in Active /\ at[o] = "record"
    BY DEF Record, Active, Steps
  <2>2. QED
    BY <2>1, HandlerFacts
<1>2. PICK s \in Servers : Srv(o) = s
  BY <1>1, HandlerFacts
<1>3. /\ copy[o] \in Row /\ copy[o].ext # None /\ copy[o].ext = db[s].ext
      /\ db[s].days = PlanDays + granted[s] /\ Target(s) \in Slots /\ ent[s] # None
      /\ sess[o] = None
  BY <1>1, <1>2, SoloFacts, HandlerFacts
<1>4. /\ UNCHANGED <<db, hosts, vms, sagaVars, sess, granted>>
      /\ billed'[s] = billed[s] + 1 /\ \A t \in Servers : t # s => billed'[t] = billed[t]
      /\ GoOn(o, "answer", copy[o]) /\ "answer" \in Over
  BY <1>2 DEF Record, vars, storeVars, Over, Answers, OpsInv, OpsTypeOK
<1>5. HandlersKept(o) /\ o \notin Active'
  BY <1>3, <1>4, GoOnMoves
<1>6. StoreMoves /\ CurrentInv(o)'
  BY <1>3, <1>4, <1>5 DEF StoreMoves, sagaVars, CurrentInv
<1>7. ASSUME Distinct(s)
      PROVE  /\ Published(db[s]) => OwnVm(s)
             /\ Reached(db[s], billed[s] + 1)
             /\ OwnVm(s)
             /\ ent[s].ext # None /\ OwnVm(s) => Within(db[s], vms[Target(s)])
  BY <1>1, <1>2, <1>7, SoloSizes DEF Pushed
<1>8. QED
  BY <1>1, <1>2, <1>3, <1>4, <1>5, <1>6, <1>7, SerialStep

\* The response is about nothing that is in step.
LEMMA RespondSerial ==
    ASSUME OpsInv, SerialInv, NEW o \in Ops, Respond(o)
    PROVE  SerialInv'
<1>1. /\ UNCHANGED <<db, hosts, vms, pc, ent, loaded, late, sess, billed, granted>>
      /\ at[o] \notin Steps /\ at'[o] \notin Steps
      /\ \A p \in Ops : p # o => op'[p] = op[p] /\ at'[p] = at[p] /\ copy'[p] = copy[p]
  BY DEF Respond, GoOn, OpsInv, OpsTypeOK, Steps, vars, storeVars, sagaVars
<1>2. Active' = Active /\ o \notin Active
  BY <1>1 DEF Active
<1>3. ASSUME NEW p \in Active
      PROVE  /\ Srv(p)' = Srv(p) /\ Kind(p)' = Kind(p) /\ at'[p] = at[p] /\ copy'[p] = copy[p]
             /\ Pushed(p)' = Pushed(p)
  BY <1>1, <1>2 DEF Active, Srv, Kind, Pushed
<1>4. ASSUME NEW s \in Servers PROVE SoloInv(s)' /\ (Distinct(s) => DeliveredInv(s)')
  <2>1. SoloInv(s)'
    BY <1>1, <1>2, <1>3 DEF SerialInv, SoloInv
  <2>2. Distinct(s) => DeliveredInv(s)'
    BY <1>1, <1>2, <1>3 DEF SerialInv, DeliveredInv, OwnVm, Target, SlotOf
  <2>3. QED
    BY <2>1, <2>2
<1>5. ASSUME NEW p \in Ops PROVE CurrentInv(p)'
  <2>1. CurrentInv(p) /\ (sess[p] # None => p \in Active)
    BY DEF SerialInv, CurrentInv, Active, Steps
  <2>2. CASE p \in Active
    BY <1>1, <1>2, <1>3, <2>1, <2>2 DEF CurrentInv
  <2>3. CASE p \notin Active
    BY <1>1, <1>2, <2>1, <2>3 DEF CurrentInv
  <2>4. QED
    BY <2>2, <2>3
<1>6. LateDestroyInv'
  BY <1>1 DEF SerialInv, LateDestroyInv
<1>7. QED
  BY <1>4, <1>5, <1>6 DEF SerialInv, Distinct

(***************************************************************************)
(* The invariant of customers who wait                                     *)
(***************************************************************************)

\* All steps of a handler.
LEMMA OpStepSerial ==
    ASSUME OpsInv, SerialInv, NEW o \in Ops, OpStep(o)
    PROVE  SerialInv'
BY PowerCallSerial, ReadVmSerial, CheckStoppedSerial, PushSerial, ResizeSerial, PushPasswordSerial,
   CallFailsSerial, OpenSaveSerial, CommitSaveSerial, RecordSerial, SaveFailsSerial, RespondSerial
DEF OpStep

\* Before the first order nothing is out of step.
LEMMA SerialInitInv == OpsInit => SerialInv
<1> SUFFICES ASSUME OpsInit PROVE SerialInv
  OBVIOUS
<1>1. ASSUME NEW s \in Servers PROVE SoloInv(s) /\ DeliveredInv(s)
  BY DEF OpsInit, Init, StoreInit, SoloInv, DeliveredInv, Published, Active, Steps, Building, Ends
<1>2. ASSUME NEW o \in Ops PROVE CurrentInv(o)
  BY DEF OpsInit, CurrentInv, Active, Steps
<1>3. LateDestroyInv
  BY DEF OpsInit, Init, LateDestroyInv
<1>4. QED
  BY <1>1, <1>2, <1>3 DEF SerialInv

\* Every step of the whole, for customers who wait.
LEMMA SerialNextKeeps == Serial /\ OpsInv /\ SerialInv /\ [OpsNext]_allVars => SerialInv'
<1> SUFFICES ASSUME Serial, OpsInv, SerialInv, [OpsNext]_allVars PROVE SerialInv'
  OBVIOUS
<1>1. OpsInv'
  BY OpsNextKeeps
<1>2. CASE UNCHANGED allVars
  BY <1>2, StillSerial DEF allVars, vars, storeVars, sagaVars, opVars
<1>3. CASE \E s \in Servers, h \in Hosts : Resolve(s, h) /\ UNCHANGED opVars
  BY <1>3, ResolveSerial
<1>4. CASE \E s \in Servers : SagaStep(s) /\ UNCHANGED opVars
  BY <1>1, <1>4, SagaStepSerial
<1>5. CASE Surroundings /\ UNCHANGED opVars
  <2>1. CASE \E s \in Servers, h \in Hosts, cloned \in BOOLEAN : LateCreate(s, h, cloned)
    BY <1>5, <2>1, LateCreateSerial
  <2>2. CASE \E s \in Servers, h \in Hosts : LateDestroy(s, h)
    BY <1>5, <2>2, LateDestroySerial
  <2>3. CASE \E h \in Hosts : (AddHost(h) \/ DeleteHost(h)) /\ UNCHANGED sagaVars
    BY <1>5, <2>3, HostsSerial
  <2>4. CASE \E x \in Slots, run \in RunStates : Drift(x, run) /\ UNCHANGED sagaVars
    BY <1>5, <2>4, DriftSerial
  <2>5. QED
    BY <1>5, <2>1, <2>2, <2>3, <2>4 DEF Surroundings
<1>6. CASE \E o \in Ops, s \in Servers : BeginExtend(o, s)
  BY <1>6, BeginExtendSerial
<1>7. CASE \E o \in Ops, kind \in Kinds, s \in Servers : BeginOnVm(o, kind, s)
  BY <1>7, BeginOnVmSerial
<1>8. CASE \E o \in Ops : OpStep(o)
  BY <1>8, OpStepSerial
<1>9. CASE \E sent \in SUBSET Unanswered : CrashAll(sent)
  BY <1>9, CrashSerial
<1>10. QED
  BY <1>2, <1>3, <1>4, <1>5, <1>6, <1>7, <1>8, <1>9 DEF OpsNext

\* For customers who wait for each answer before they ask again, each handler works
\* on a current copy, and row, VM and ledger differ only as far as a push, a save
\* or a record that failed explains, crashes and late calls included.
THEOREM SerialInvariant ==
    ASSUME Serial
    PROVE  OpsSpec => []SerialInv
<1>1. OpsInit => SerialInv
  BY SerialInitInv
<1>2. OpsInv /\ SerialInv /\ [OpsNext]_allVars => SerialInv'
  BY SerialNextKeeps
<1>3. QED
  BY <1>1, <1>2, OpsInvariant, PTL DEF OpsSpec

\* An identifier in a row is the one its saga derived, on the host it was
\* placed on: what the row names is the VM of the saga.
LEMMA RowNamesTarget ==
    ASSUME OpsInv, NEW s \in Servers, db[s] # None, db[s].ext # None
    PROVE  /\ <<db[s].host, db[s].ext>> = Target(s) /\ Target(s) \in Slots
           /\ ent[s].ext # None
           /\ NamesOwnVm(db[s], s) <=> OwnVm(s)
<1>1. /\ ServerInv(s) /\ ent[s] # None /\ EntityInv(s) /\ RowOf(s, db[s]) /\ TypeOK
  BY DEF OpsInv, OpsTypeOK, ServerInv
<1>2. ent[s].ext = VmidOf[s] /\ db[s].ext = VmidOf[s] /\ db[s].host = ent[s].host
  BY <1>1 DEF RowOf, EntityInv
<1>3. <<db[s].host, db[s].ext>> = Target(s) /\ Target(s) \in Slots /\ ent[s].ext # None
  BY <1>1, <1>2, TargetIsSlot DEF Target, SlotOf
<1>4. QED
  BY <1>3 DEF NamesOwnVm, OwnVm

\* A row that is shown names the VM its saga made.
LEMMA VmsKept == OpsInv /\ SerialInv => PublishedVmKept
<1> SUFFICES ASSUME OpsInv, SerialInv, NEW s \in Servers, Distinct(s), Published(db[s])
             PROVE  NamesOwnVm(db[s], s)
  BY DEF PublishedVmKept
<1>1. DeliveredInv(s) /\ db[s] # None /\ db[s].ext # None
  BY DEF SerialInv, Published
<1>2. QED
  BY <1>1, RowNamesTarget DEF DeliveredInv

\* For them, no refresh, extension or power command brings back a row that names
\* no VM of its own: what is saved was read after the saga had ended.
THEOREM RowsKeepTheirVm ==
    ASSUME Serial
    PROVE  OpsSpec => []PublishedVmKept
<1>1. OpsInv /\ SerialInv => PublishedVmKept
  BY VmsKept
<1>2. QED
  BY <1>1, OpsInvariant, SerialInvariant, PTL

\* What is on record was pushed before it was saved, and saved before it was
\* recorded.
LEMMA BilledDelivered == OpsInv /\ SerialInv => PaidUpgradesDelivered
<1> SUFFICES ASSUME OpsInv, SerialInv, NEW s \in Servers, Distinct(s), billed[s] > 0
             PROVE  /\ NamesOwnVm(db[s], s)
                    /\ Reached(vms[<<db[s].host, db[s].ext>>], billed[s])
  BY DEF PaidUpgradesDelivered
<1>1. /\ db[s] # None /\ db[s].ext # None /\ OwnVm(s)
      /\ Reached(db[s], billed[s]) /\ billed[s] \in Nat
      /\ ent[s].ext # None => Within(db[s], vms[Target(s)])
  BY DEF SerialInv, DeliveredInv, OpsInv, OpsTypeOK
<1>2. /\ NamesOwnVm(db[s], s) /\ Within(db[s], vms[Target(s)])
      /\ <<db[s].host, db[s].ext>> = Target(s) /\ Target(s) \in Slots
  BY <1>1, RowNamesTarget
<1>3. db[s] \in Row /\ vms[Target(s)] \in VM
  BY <1>1, <1>2 DEF OwnVm, OpsInv, OpsTypeOK, TypeOK, StoreTypeOK
<1>4. Reached(vms[Target(s)], billed[s])
  BY <1>1, <1>2, <1>3, RowsSized, ReachedGrows
<1>5. QED
  BY <1>2, <1>4

\* For them, every upgrade on record for billing is one the VM has: the ledger is
\* written last, and an upgrade after a lost save pushes no less.
THEOREM UpgradesDelivered ==
    ASSUME Serial
    PROVE  OpsSpec => []PaidUpgradesDelivered
<1>1. OpsInv /\ SerialInv => PaidUpgradesDelivered
  BY BilledDelivered
<1>2. QED
  BY <1>1, OpsInvariant, SerialInvariant, PTL

\* The VM a row names is that of DeliveredInv.
LEMMA RowsBehind == OpsInv /\ SerialInv => RowNeverAhead
<1> SUFFICES ASSUME OpsInv, SerialInv, NEW s \in Servers, Distinct(s), db[s] # None,
                    NamesOwnVm(db[s], s)
             PROVE  Within(db[s], vms[<<db[s].host, db[s].ext>>])
  BY DEF RowNeverAhead
<1>1. DeliveredInv(s) /\ db[s].ext # None
  BY DEF SerialInv, NamesOwnVm
<1>2. QED
  BY <1>1, RowNamesTarget DEF DeliveredInv

\* For them, a row never claims more than its VM has: sizes are saved after they
\* were pushed or read.
THEOREM RowsNeverAhead ==
    ASSUME Serial
    PROVE  OpsSpec => []RowNeverAhead
<1>1. OpsInv /\ SerialInv => RowNeverAhead
  BY RowsBehind
<1>2. QED
  BY <1>1, OpsInvariant, SerialInvariant, PTL

\* The days of the row, when nobody saves an older copy.
LEMMA DaysStated == SerialInv => DaysAsGranted
BY DEF SerialInv, SoloInv, DaysAsGranted

\* For them, a row has the days ordered and those of every extension answered with
\* success, whatever other saves write all columns of the row.
THEOREM DaysGranted ==
    ASSUME Serial
    PROVE  OpsSpec => []DaysAsGranted
<1>1. SerialInv => DaysAsGranted
  BY DaysStated
<1>2. QED
  BY <1>1, SerialInvariant, PTL

==============================================================================
