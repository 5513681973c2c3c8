---------------------------- MODULE Expiry_proofs ----------------------------
(***************************************************************************)
(* Proofs about the whole that touches the servers table: sagas, requests, *)
(* admins, the nightly task, crashes and restarts.  What was shown of the  *)
(* sagas and requests (OpsInv, SerialInv) is used step by step; new are    *)
(* the moves of the task.                                                  *)
(***************************************************************************)
EXTENDS Expiry, OperationsSerial_proofs

TaskStates == {"asleep", "dead", "down"} \cup Reminding \cup Stopping

\* Between these two the task has a list in hand.
Holding == {"reminding", "noting", "stopping", "saving", "resaving"}

(***************************************************************************)
(* Facts                                                                   *)
(***************************************************************************)

\* A commit writes the days of the row or those of the entity.
LEMMA FlushDays ==
    ASSUME NEW r \in Row, NEW l \in Row, NEW e \in Row
    PROVE  Flush(r, l, e).days \in {r.days, e.days}
BY DEF Flush, Column

\* A task that is not at work holds nothing.
LEMMA AsleepHoldsNothing ==
    ASSUME ExpiryInv, ~Awake
    PROVE  cur = None /\ tsess = None /\ \A s \in Servers : list[s] = None
<1>1. task \notin TaskSaves /\ task \notin Holding
  BY DEF Awake, TaskSaves, Holding, Reminding, Stopping
<1>2. cur = None /\ tsess = None
  BY <1>1 DEF ExpiryInv, ExpiryTypeOK, CurInv
<1>3. \A s \in Servers : list[s] = None
  BY <1>1 DEF ExpiryInv, ListInv, Holding, Reminding, Stopping
<1>4. QED
  BY <1>2, <1>3

\* The types and numbers every step relies on.
LEMMA ExpiryTypes ==
    ASSUME ExpiryInv
    PROVE  /\ task \in TaskStates /\ tsess \in Row \cup {None}
           /\ \A s \in Servers :
                /\ list[s] \in Row \cup {None} /\ db[s] \in Row \cup {None}
                /\ ent[s] \in Row \cup {None}
                /\ age[s] \in Nat /\ granted[s] \in Nat
                /\ list[s] # None => list[s] \in Row /\ list[s].days \in Nat /\ task \in Holding
                /\ db[s] # None => db[s] \in Row /\ db[s].days \in Nat /\ ent[s] # None
           /\ PlanDays \in Nat /\ MoreDays \in Nat \ {0} /\ Warning \in Nat \ {0}
           /\ AgeCap \in Nat \ {0}
<1>1. /\ task \in TaskStates /\ tsess \in Row \cup {None}
      /\ list \in [Servers -> Row \cup {None}] /\ age \in [Servers -> 0..AgeCap]
      /\ db \in [Servers -> Row \cup {None}] /\ ent \in [Servers -> Row \cup {None}]
      /\ granted \in [Servers -> Nat]
  BY DEF ExpiryInv, ExpiryTypeOK, OpsTypeOK, TypeOK, StoreTypeOK, TaskStates
<1>2. /\ PlanDays \in Nat /\ MoreDays \in Nat \ {0} /\ Warning \in Nat \ {0}
      /\ AgeCap \in Nat \ {0}
  BY PlanAssumption, DaysAssumption, WarningAssumption, AgeCapAssumption
<1>3. \A r \in Row : r.days \in Nat
  BY DEF Row
<1>4. ASSUME NEW s \in Servers
      PROVE  /\ db[s] # None => ent[s] # None
             /\ list[s] # None => task \in Holding
  BY DEF ExpiryInv, OpsInv, ServerInv, ListInv, Holding, Reminding, Stopping
<1>5. QED
  BY <1>1, <1>2, <1>3, <1>4

\* In an orderly history the table says what was granted.
LEMMA OrderlyDays ==
    ASSUME SerialInv, NEW s \in Servers, db[s] # None
    PROVE  db[s].days = PlanDays + granted[s]
BY DEF SerialInv, SoloInv

(***************************************************************************)
(* What leaves the task alone                                              *)
(***************************************************************************)

\* Rows that stay rows of their server, whoever else is at work.
RowsStay ==
    \A s \in Servers :
        db[s] # None => /\ db'[s] # None
                        /\ ent'[s].host = ent[s].host
                        /\ ent[s].ext = None \/ ent'[s].ext = ent[s].ext

\* What the task holds outlives every step of somebody else: the row it read
\* stays a row of its server.
LEMMA TaskLeftAlone ==
    ASSUME ExpiryInv, OpsInv', RowsStay, UNCHANGED <<age, workerVars>>, calm' \in BOOLEAN,
           warned' \in [Servers -> {"not yet", "reminded", "missed"}]
    PROVE  ExpiryTypeOK' /\ CurInv' /\ \A s \in Servers : ListInv(s)'
<1>1. UNCHANGED <<age, task, list, cur, tsess>>
  BY DEF workerVars
<1>2. ExpiryTypeOK'
  BY <1>1 DEF ExpiryInv, ExpiryTypeOK, OpsInv
<1>3. CurInv'
  BY <1>1 DEF ExpiryInv, CurInv
<1>4. ASSUME NEW s \in Servers, list[s] # None PROVE ListInv(s)'
  <2>1. ListInv(s) /\ db[s] # None /\ RowOf(s, list[s])
    BY <1>4 DEF ExpiryInv, ListInv
  <2>2. /\ db'[s] # None /\ ent'[s].host = ent[s].host
        /\ ent[s].ext = None \/ ent'[s].ext = ent[s].ext
    BY <2>1 DEF RowsStay
  <2>3. RowOf(s, list[s])'
    BY <1>1, <2>1, <2>2 DEF RowOf
  <2>4. QED
    BY <1>1, <2>1, <2>2, <2>3 DEF ListInv, Distinct, Ample
<1>5. ASSUME NEW s \in Servers, list[s] = None PROVE ListInv(s)'
  BY <1>1, <1>5 DEF ListInv
<1>6. QED
  BY <1>2, <1>3, <1>4, <1>5

\* Strictly, in the terms of OrderlyWarned.
Ahead(a, d) == a <= d /\ a # d

\* A day that is left is one ahead.
LEMMA Less ==
    ASSUME NEW a \in Nat, NEW d \in Nat, a < d PROVE Ahead(a, d)
BY DEF Ahead

\* What a request may do to the days of a server and to its owner's reminder:
\* an owner is to be reminded anew only of a server that has days left.
DaysLeft(s) ==
    /\ pc'[s] \notin Ends => pc[s] \notin Ends
    /\ granted'[s] \in Nat /\ granted[s] <= granted'[s]
    /\ db'[s] # None /\ warned'[s] = "not yet" =>
          \/ age[s] < db'[s].days
          \/ pc[s] \notin Ends
          \/ db[s] # None /\ warned[s] = "not yet"

\* The numbers of an orderly server, whichever way it came by its days.
LEMMA DaysLeftNumbers ==
    ASSUME NEW s \in Servers, SerialInv, SerialInv', db'[s] # None,
           granted[s] \in Nat, granted'[s] \in Nat, granted[s] <= granted'[s],
           age[s] \in Nat, PlanDays # 0,
           \/ age[s] < db'[s].days
           \/ age[s] = 0
           \/ db[s] # None /\ age[s] <= db[s].days /\ age[s] # db[s].days
    PROVE  db'[s].days \in Nat /\ age[s] < db'[s].days
<1>1. db'[s].days = PlanDays + granted'[s]
  BY DEF SerialInv, SoloInv
<1>2. PlanDays \in Nat
  BY PlanAssumption
<1>3. CASE db[s] # None /\ age[s] <= db[s].days /\ age[s] # db[s].days
  <2>1. db[s].days = PlanDays + granted[s]
    BY <1>3, OrderlyDays
  <2>2. QED
    BY <1>1, <1>2, <1>3, <2>1
<1>4. QED
  BY <1>1, <1>2, <1>3

\* Nobody loses the day that was left for a reminder to a request.
LEMMA DaysLeftKeeps ==
    ASSUME NEW s \in Servers, OrderlyWarned(s), DaysLeft(s), SerialInv, SerialInv',
           age[s] \in Nat, granted[s] \in Nat,
           PlanDays # 0, db'[s] # None, warned'[s] = "not yet",
           ~(task = "notify" \/ (task \in Reminding /\ list[s] # None))
    PROVE  db'[s].days \in Nat /\ age[s] < db'[s].days
<1>1. granted'[s] \in Nat /\ granted[s] <= granted'[s]
  BY DEF DaysLeft
<1>2. \/ age[s] < db'[s].days
      \/ age[s] = 0
      \/ db[s] # None /\ age[s] <= db[s].days /\ age[s] # db[s].days
  BY Zenon DEF DaysLeft, OrderlyWarned
<1>3. QED
  BY <1>1, <1>2, DaysLeftNumbers

\* Requests come and go while the task sleeps.
LEMMA OrderlyRequests ==
    ASSUME ExpiryInv, Orderly, ~Awake, SerialInv', UNCHANGED <<age, calm, workerVars>>,
           \A s \in Servers : DaysLeft(s)
    PROVE  OrderlyInv'
<1>1. UNCHANGED <<age, calm, task, list, cur, tsess>>
  BY DEF workerVars
<1>2. OrderlyInv /\ SerialInv
  BY DEF ExpiryInv, OrderlyInv
<1>3. /\ cur = None /\ tsess = None /\ task \notin Reminding \cup {"notify"}
      /\ \A s \in Servers : list[s] = None
  BY AsleepHoldsNothing DEF Awake, Reminding
<1>4. ASSUME NEW s \in Servers PROVE OrderlyWarned(s)'
  <2>1. OrderlyWarned(s) /\ DaysLeft(s)
    BY <1>2 DEF OrderlyInv
  <2>2. pc'[s] \notin Ends => age'[s] = 0
    BY <1>1, <2>1 DEF OrderlyWarned, DaysLeft
  <2>3. ASSUME PlanDays # 0, db'[s] # None, warned'[s] = "not yet"
        PROVE  Ahead(age[s], db'[s].days)
    <3>1. ~(task = "notify" \/ (task \in Reminding /\ list[s] # None))
      BY <1>3
    <3>2. age[s] \in Nat /\ granted[s] \in Nat
      BY ExpiryTypes
    <3>3. db'[s].days \in Nat /\ age[s] < db'[s].days
      BY <1>2, <2>1, <2>3, <3>1, <3>2, DaysLeftKeeps
    <3>4. QED
      BY <3>2, <3>3, Less
  <2>4. QED
    BY <1>1, <2>2, <2>3 DEF OrderlyWarned, Ahead
<1>5. ASSUME NEW s \in Servers PROVE OrderlyList(s)'
  BY <1>1, <1>3 DEF OrderlyList
<1>6. ~Awake' /\ tsess' = None /\ task' # "noting"
  BY <1>1, <1>3 DEF Awake, Reminding
<1>7. QED
  BY <1>4, <1>5, <1>6 DEF OrderlyInv


\* What a request leaves of the rows, of the copies others hold and of what was
\* granted.
HandlerMoves(o) ==
    /\ UNCHANGED <<pc, ent>>
    /\ \A t \in Servers :
          \/ db'[t] = db[t]
          \/ /\ o \in Active /\ t = Srv(o) /\ db[t] # None /\ db'[t] # None
             /\ db'[t].days \in {db[t].days, copy[o].days}
    /\ \A p \in Active' : p \in Active /\ Srv(p)' = Srv(p) /\ copy'[p].days = copy[p].days
    /\ \A t \in Servers : granted'[t] \in Nat /\ granted[t] <= granted'[t]

\* A handler that goes on changes no days, its own included.
LEMMA GoOnDays ==
    ASSUME OpsInv, NEW o \in Ops, o \in Active, NEW step \in Steps \cup Over, NEW entity \in Row,
           GoOn(o, step, entity), entity.days = copy[o].days
    PROVE  \A p \in Active' : p \in Active /\ Srv(p)' = Srv(p) /\ copy'[p].days = copy[p].days
<1>1. /\ HandlersKept(o)
      /\ step \in Over => o \notin Active'
      /\ step \in Steps => Srv(o)' = Srv(o) /\ copy'[o] = entity
  BY GoOnMoves
<1>2. QED
  BY <1>1 DEF HandlersKept, Active, Srv

\* Every step but the commit of a save writes no row and grants nothing.
LEMMA HandlerWritesNothing ==
    ASSUME OpsInv, NEW o \in Ops, o \in Active, NEW step \in Steps \cup Over, NEW entity \in Row,
           GoOn(o, step, entity), entity.days = copy[o].days, UNCHANGED <<db, pc, ent, granted>>
    PROVE  HandlerMoves(o)
<1>1. \A t \in Servers : granted'[t] \in Nat /\ granted[t] <= granted'[t]
  BY DEF OpsInv, OpsTypeOK
<1>2. QED
  BY <1>1, GoOnDays DEF HandlerMoves

\* A handler writes no row but that of its server, with the days of the row
\* or of its copy, and takes back nothing that was granted.
LEMMA WorkingStepMoves ==
    ASSUME OpsInv, NEW o \in Ops, OpStep(o), ~Respond(o)
    PROVE  HandlerMoves(o)
<1>1. o \in Active
  BY DEF OpStep, PowerCall, ReadVm, CheckStopped, Push, Resize, PushPassword, CallFails, OpenSave,
         CommitSave, Record, SaveFails, Active, Steps
<1>2. /\ copy[o] \in Row /\ Srv(o) \in Servers /\ db[Srv(o)] \in Row /\ db[Srv(o)] # None
      /\ copy[o].cpu \in Nat /\ copy[o].disk \in Nat
  BY <1>1, HandlerFacts DEF Row
<1>3. CASE PowerCall(o)
  <2>1. Kind(o) \in DOMAIN Power
    BY <1>1, <1>3 DEF OpsInv, HandlerInv, PowerCall
  <2>2. Power[Kind(o)].status \in Statuses
    BY <2>1, PowerCommands
  <2>3. PICK e : e = WithStatus(copy[o], Power[Kind(o)].status)
    OBVIOUS
  <2>4. e \in Row /\ e.days = copy[o].days
    BY <1>2, <2>2, <2>3, EntityAssignments, DaysAssigned
  <2>5. GoOn(o, "save", e) /\ UNCHANGED <<db, pc, ent, granted>> /\ "save" \in Steps
    BY <1>3, <2>3 DEF PowerCall, sagaVars, Steps
  <2>6. QED
    BY <1>1, <2>4, <2>5, HandlerWritesNothing
<1>4. ASSUME NEW cpuKnown \in BOOLEAN, NEW diskKnown \in BOOLEAN, NEW sameIp \in BOOLEAN,
             ReadVm(o, cpuKnown, diskKnown, sameIp)
      PROVE  HandlerMoves(o)
  <2>1. PICK m : m = MapProxmoxStatus(Vm(o).run)
    OBVIOUS
  <2>2. PICK r : r = IF m = None THEN copy[o] ELSE WithStatus(copy[o], m)
    OBVIOUS
  <2>3. PICK e : e = Resized(r, IF cpuKnown THEN Vm(o).cpu ELSE copy[o].cpu,
                                IF diskKnown THEN Vm(o).disk ELSE copy[o].disk)
    OBVIOUS
  <2>4. GoOn(o, IF sameIp /\ e = copy[o] THEN "answer" ELSE "save", e)
    BY <1>4, <2>1, <2>2, <2>3 DEF ReadVm
  <2>5. r \in Row /\ r.days = copy[o].days
    BY <1>2, <2>1, <2>2, MappedStatuses, EntityAssignments, DaysAssigned
  <2>6. Vm(o).cpu \in Nat /\ Vm(o).disk \in Nat
    <3>1. at[o] = "read" /\ Vm(o) # None
      BY <1>4 DEF ReadVm
    <3>2. Kind(o) # "extend"
      BY <1>1, <3>1, HandlerFacts
    <3>3. QED
      BY <1>1, <3>1, <3>2, HandlerSlot DEF VM
  <2>7. e \in Row /\ e.days = copy[o].days
    <3>1. PICK c : c = IF cpuKnown THEN Vm(o).cpu ELSE copy[o].cpu
      OBVIOUS
    <3>2. PICK d : d = IF diskKnown THEN Vm(o).disk ELSE copy[o].disk
      OBVIOUS
    <3>3. c \in Nat /\ d \in Nat /\ e = Resized(r, c, d)
      BY <1>2, <2>3, <2>6, <3>1, <3>2
    <3>4. QED
      BY <2>5, <3>3, MoreAssignments
  <2>8. UNCHANGED <<db, pc, ent, granted>>
    BY <1>4 DEF ReadVm, vars, storeVars, sagaVars
  <2>9. (IF sameIp /\ e = copy[o] THEN "answer" ELSE "save") \in Steps \cup Over
    BY DEF Steps, Over, Answers
  <2>10. QED
    BY <1>1, <2>4, <2>7, <2>8, <2>9, HandlerWritesNothing
<1>5. ASSUME NEW answer, CheckStopped(o, answer) PROVE HandlerMoves(o)
  <2>1. PICK e : e = WithStatus(copy[o], "stopped")
    OBVIOUS
  <2>2. e \in Row /\ e.days = copy[o].days
    BY <1>2, <2>1, EntityAssignments, DaysAssigned DEF Statuses
  <2>3. GoOn(o, "push", e) \/ GoOn(o, "failed", copy[o])
    BY <1>5, <2>1 DEF CheckStopped
  <2>4. UNCHANGED <<db, pc, ent, granted>> /\ {"push", "failed"} \subseteq Steps \cup Over
    BY <1>5 DEF CheckStopped, vars, storeVars, sagaVars, Steps, Over, Answers
  <2>5. QED
    BY <1>1, <1>2, <2>2, <2>3, <2>4, HandlerWritesNothing
<1>6. CASE Push(o)
  <2>1. PICK e : e = Resized(copy[o], copy[o].cpu + AddCpu, copy[o].disk + AddDisk)
    OBVIOUS
  <2>2. copy[o].cpu + AddCpu \in Nat /\ copy[o].disk + AddDisk \in Nat
    BY <1>2, BundleAssumption
  <2>3. e \in Row /\ e.days = copy[o].days
    BY <1>2, <2>1, <2>2, MoreAssignments
  <2>4. GoOn(o, IF AddDisk = 0 THEN "save" ELSE "resize", e) /\ UNCHANGED <<db, pc, ent, granted>>
    BY <1>6, <2>1 DEF Push, sagaVars
  <2>5. (IF AddDisk = 0 THEN "save" ELSE "resize") \in Steps \cup Over
    BY DEF Steps
  <2>6. QED
    BY <1>1, <2>3, <2>4, <2>5, HandlerWritesNothing
<1>7. ASSUME \/ Resize(o)
             \/ \E answered \in BOOLEAN : PushPassword(o, answered)
             \/ CallFails(o) \/ Record(o) \/ SaveFails(o)
      PROVE  HandlerMoves(o)
  <2>1. PICK step \in Steps \cup Over : GoOn(o, step, copy[o])
    BY <1>7 DEF Resize, PushPassword, CallFails, Record, SaveFails, Steps, Over, Answers
  <2>2. UNCHANGED <<db, pc, ent, granted>>
    BY <1>7 DEF Resize, PushPassword, CallFails, Record, SaveFails, vars, storeVars, sagaVars
  <2>3. QED
    BY <1>1, <1>2, <2>1, <2>2, HandlerWritesNothing
<1>8. CASE OpenSave(o)
  <2>1. UNCHANGED <<db, pc, ent, granted, op, at, copy>>
    BY <1>8 DEF OpenSave, vars, storeVars, sagaVars
  <2>2. \A t \in Servers : granted'[t] \in Nat /\ granted[t] <= granted'[t]
    BY <2>1 DEF OpsInv, OpsTypeOK
  <2>3. QED
    BY <2>1, <2>2 DEF HandlerMoves, Active, Srv
<1>9. CASE CommitSave(o)
  <2>1. /\ sess[o] \in Row
        /\ db'[Srv(o)] = Flush(db[Srv(o)], sess[o], copy[o])
        /\ db' = [db EXCEPT ![Srv(o)] = db'[Srv(o)]] /\ db'[Srv(o)] # None
    BY <1>9, CommitSaveWrites
  <2>2. db'[Srv(o)].days \in {db[Srv(o)].days, copy[o].days}
    BY <1>2, <2>1, FlushDays
  <2>3. \A t \in Servers : t # Srv(o) => db'[t] = db[t]
    BY <2>1 DEF OpsInv, OpsTypeOK, TypeOK, StoreTypeOK
  <2>4. /\ GoOn(o, IF Kind(o) = "upgrade" THEN "record" ELSE "answer", copy[o])
        /\ UNCHANGED <<pc, ent>>
        /\ (IF Kind(o) = "upgrade" THEN "record" ELSE "answer") \in Steps \cup Over
    BY <1>9 DEF CommitSave, sagaVars, Steps, Over, Answers
  <2>5. \A p \in Active' : p \in Active /\ Srv(p)' = Srv(p) /\ copy'[p].days = copy[p].days
    BY <1>1, <1>2, <2>4, GoOnDays
  <2>6. \A t \in Servers : granted'[t] \in Nat /\ granted[t] <= granted'[t]
    <3>1. granted \in [Servers -> Nat] /\ MoreDays \in Nat
      BY DaysAssumption DEF OpsInv, OpsTypeOK
    <3>2. granted' = [granted EXCEPT ![Srv(o)] = granted[Srv(o)] + MoreDays] \/ granted' = granted
      BY <1>9 DEF CommitSave
    <3>3. QED
      BY <1>2, <3>1, <3>2
  <2>7. QED
    BY <1>1, <1>2, <2>1, <2>2, <2>3, <2>4, <2>5, <2>6 DEF HandlerMoves
<1>10. QED
  BY <1>3, <1>4, <1>5, <1>6, <1>7, <1>8, <1>9 DEF OpStep

\* The answer itself moves none of this.
LEMMA RespondMoves ==
    ASSUME OpsInv, NEW o \in Ops, Respond(o)
    PROVE  HandlerMoves(o)
<1>1. /\ UNCHANGED <<db, pc, ent, granted>>
      /\ at[o] \notin Steps /\ at'[o] \notin Steps
      /\ \A p \in Ops : p # o => op'[p] = op[p] /\ at'[p] = at[p] /\ copy'[p] = copy[p]
  BY DEF Respond, GoOn, OpsInv, OpsTypeOK, Steps, vars, storeVars, sagaVars
<1>2. \A p \in Active' : p \in Active /\ Srv(p)' = Srv(p) /\ copy'[p].days = copy[p].days
  BY <1>1 DEF Active, Srv
<1>3. \A t \in Servers : granted'[t] \in Nat /\ granted[t] <= granted'[t]
  BY <1>1 DEF OpsInv, OpsTypeOK
<1>4. QED
  BY <1>1, <1>2, <1>3 DEF HandlerMoves

\* The two together.
LEMMA HandlerStepMoves ==
    ASSUME OpsInv, NEW o \in Ops, OpStep(o)
    PROVE  HandlerMoves(o)
BY WorkingStepMoves, RespondMoves

\* The whole invariant, for what leaves the task alone, a request that comes
\* while it is at work included.
LEMMA ComesKeeps ==
    ASSUME ExpiryInv, OpsInv', RowsStay, UNCHANGED <<age, workerVars>>, calm' \in BOOLEAN,
           warned' \in [Servers -> {"not yet", "reminded", "missed"}],
           \A s \in Servers : ent'[s] # None => ent'[s].days = PlanDays,
           \A s \in Servers : db'[s] # None => db'[s].days >= PlanDays,
           \A o \in Active' : Srv(o)' \in Servers => copy'[o].days >= PlanDays,
           Orderly' => OrderlyInv'
    PROVE  ExpiryInv'
<1>1. ExpiryTypeOK' /\ CurInv' /\ \A s \in Servers : ListInv(s)'
  BY TaskLeftAlone
<1>2. ASSUME NEW s \in Servers PROVE DaysInv(s)'
  <2>1. list[s] # None => list[s].days >= PlanDays
    BY DEF ExpiryInv, DaysInv
  <2>2. list' = list
    BY DEF workerVars
  <2>3. QED
    BY <2>1, <2>2 DEF DaysInv
<1>3. QED
  BY <1>1, <1>2 DEF ExpiryInv

\* The same for what has nothing to do with the task's hours.
LEMMA LeftAloneKeeps ==
    ASSUME ExpiryInv, OpsInv', RowsStay, UNCHANGED <<age, calm, workerVars>>,
           warned' \in [Servers -> {"not yet", "reminded", "missed"}],
           \A s \in Servers : ent'[s] # None => ent'[s].days = PlanDays,
           \A s \in Servers : db'[s] # None => db'[s].days >= PlanDays,
           \A o \in Active' : Srv(o)' \in Servers => copy'[o].days >= PlanDays,
           Orderly => OrderlyInv'
    PROVE  ExpiryInv'
<1>1. calm' \in BOOLEAN
  BY DEF ExpiryInv, ExpiryTypeOK
<1>2. Orderly' => OrderlyInv'
  BY DEF Orderly
<1>3. QED
  BY <1>1, <1>2, ComesKeeps

\* In an orderly history nobody is at work next to the task.
LEMMA NobodyElse ==
    ASSUME ExpiryInv, Orderly, \/ \E o \in Ops : o \in Busy
                               \/ \E s \in Servers : pc[s] \notin {"new"} \cup Ends
    PROVE  ~Awake
<1>1. Awake => Idle
  BY DEF ExpiryInv, OrderlyInv
<1>2. ~Idle
  BY DEF Idle, InFlight
<1>3. QED
  BY <1>1, <1>2

\* A step of a handler, the task awake or not.
LEMMA HandlerKeeps ==
    ASSUME ExpiryInv, NEW o \in Ops, Handler(o)
    PROVE  ExpiryInv'
<1>1. OpStep(o) /\ UNCHANGED <<age, calm, workerVars>> /\ OpsInv
  BY DEF Handler, ExpiryInv
<1>2. OpsInv'
  BY <1>1, OpStepOps
<1>3. HandlerMoves(o)
  BY <1>1, HandlerStepMoves
<1>4. RowsStay
  BY <1>3 DEF HandlerMoves, RowsStay
<1>5. ASSUME NEW s \in Servers
      PROVE  \/ warned'[s] = warned[s]
             \/ granted'[s] > granted[s] /\ db'[s].days > age[s]
  BY DEF Handler, Extended
<1>6. warned' \in [Servers -> {"not yet", "reminded", "missed"}]
  <2>1. warned \in [Servers -> {"not yet", "reminded", "missed"}]
    BY DEF ExpiryInv, ExpiryTypeOK
  <2>2. QED
    BY <2>1 DEF Handler
<1>7. \A s \in Servers : ent'[s] # None => ent'[s].days = PlanDays
  BY <1>3 DEF ExpiryInv, DaysInv, HandlerMoves
<1>8. ASSUME NEW s \in Servers, db'[s] # None PROVE db'[s].days >= PlanDays
  <2>1. CASE db'[s] = db[s]
    BY <1>8, <2>1 DEF ExpiryInv, DaysInv
  <2>2. CASE /\ o \in Active /\ s = Srv(o) /\ db[s] # None
             /\ db'[s].days \in {db[s].days, copy[o].days}
    <3>1. db[s].days >= PlanDays /\ copy[o].days >= PlanDays
      BY <2>2 DEF ExpiryInv, DaysInv
    <3>2. QED
      BY <2>2, <3>1
  <2>3. QED
    BY <1>3, <2>1, <2>2 DEF HandlerMoves
<1>9. ASSUME NEW p \in Active', Srv(p)' \in Servers PROVE copy'[p].days >= PlanDays
  <2>1. p \in Active /\ Srv(p)' = Srv(p) /\ copy'[p].days = copy[p].days
    BY <1>3 DEF HandlerMoves
  <2>2. QED
    BY <1>9, <2>1 DEF ExpiryInv, DaysInv
<1>10. ASSUME Orderly PROVE OrderlyInv'
  <2>1. SerialInv /\ SerialInv'
    BY <1>1, <1>10, OpStepSerial DEF ExpiryInv, OrderlyInv
  <2>2. o \in Busy
    BY <1>1 DEF OpStep, PowerCall, ReadVm, CheckStopped, Push, Resize, PushPassword, CallFails,
                OpenSave, CommitSave, Record, SaveFails, Respond, Busy, Steps
  <2>3. ~Awake
    BY <1>10, <2>2, NobodyElse
  <2>4. ASSUME NEW s \in Servers PROVE DaysLeft(s)
    <3>1. /\ pc'[s] = pc[s] /\ granted'[s] \in Nat /\ granted[s] <= granted'[s]
          /\ db'[s] # None => db[s] # None
      BY <1>3 DEF HandlerMoves
    <3>2. warned'[s] = warned[s] \/ age[s] < db'[s].days
      BY <1>5
    <3>3. QED
      BY <3>1, <3>2 DEF DaysLeft
  <2>5. QED
    BY <1>1, <1>10, <2>1, <2>3, <2>4, OrderlyRequests
<1>11. QED
  BY <1>1, <1>2, <1>4, <1>6, <1>7, <1>8, <1>9, <1>10, LeftAloneKeeps

\* A step of a saga: the row is its own until it has ended.
LEMMA SagaKeeps ==
    ASSUME ExpiryInv, NEW s \in Servers, Saga(s)
    PROVE  ExpiryInv'
<1>1. /\ SagaStep(s) /\ UNCHANGED opVars /\ UNCHANGED <<op, at, copy, granted>>
      /\ UNCHANGED <<age, calm, workerVars>> /\ UNCHANGED warned /\ OpsInv
  BY DEF Saga, ExpiryInv, expiryVars, opVars
<1>2. /\ SagaMoves(s) /\ OthersKept(s) /\ OpsInv' /\ pc[s] \notin {"new"} \cup Ends
      /\ ent[s] \in Row /\ ent[s] # None
  BY <1>1, SagaStepMoves, SagaStepOps, SagaHasEntity DEF SagaMoves
<1>3. RowsStay
  BY <1>2 DEF SagaMoves, OthersKept, RowsStay
<1>4. warned' \in [Servers -> {"not yet", "reminded", "missed"}]
  BY <1>1 DEF ExpiryInv, ExpiryTypeOK
<1>5. \A t \in Servers : ent'[t] # None => ent'[t].days = PlanDays
  <2>1. ent'[s].days = ent[s].days
    BY <1>1, SagaEntity
  <2>2. ent[s].days = PlanDays
    BY <1>2 DEF ExpiryInv, DaysInv
  <2>3. QED
    BY <1>2, <2>1, <2>2 DEF ExpiryInv, DaysInv, OthersKept
<1>6. ASSUME NEW t \in Servers, db'[t] # None PROVE db'[t].days >= PlanDays
  <2>1. CASE db'[t] = db[t]
    BY <1>6, <2>1 DEF ExpiryInv, DaysInv
  <2>2. CASE t = s /\ db'[s] = ent[s]
    BY <1>2, <2>2, PlanAssumption DEF ExpiryInv, DaysInv
  <2>3. CASE t = s /\ Commit(s) /\ db[s] # None
    <3>1. /\ db[s] \in Row /\ loaded[s] \in Row
          /\ db'[s] = Flush(db[s], loaded[s], ent[s])
      BY <1>1, <2>3 DEF Commit, OpsInv, OpsTypeOK, TypeOK, StoreTypeOK
    <3>2. db'[s].days \in {db[s].days, ent[s].days}
      BY <1>2, <3>1, FlushDays
    <3>3. db[s].days >= PlanDays /\ ent[s].days >= PlanDays
      BY <1>2, <2>3, PlanAssumption DEF ExpiryInv, DaysInv
    <3>4. QED
      BY <2>3, <3>2, <3>3
  <2>4. QED
    BY <1>1, <2>1, <2>2, <2>3, SagaRows
<1>7. \A o \in Active' : Srv(o)' \in Servers => copy'[o].days >= PlanDays
  BY <1>1 DEF ExpiryInv, DaysInv, Active, Srv
<1>8. ASSUME Orderly PROVE OrderlyInv'
  <2>1. SerialInv /\ SerialInv' /\ ~Awake
    BY <1>1, <1>2, <1>8, SagaStepSerial, NobodyElse DEF ExpiryInv, OrderlyInv
  <2>2. ASSUME NEW t \in Servers PROVE DaysLeft(t)
    <3>1. granted'[t] \in Nat /\ granted[t] <= granted'[t] /\ warned'[t] = warned[t]
      BY <1>1 DEF OpsInv, OpsTypeOK
    <3>2. CASE t = s
      BY <1>2, <3>1, <3>2 DEF DaysLeft
    <3>3. CASE t # s
      BY <1>2, <3>1, <3>3 DEF DaysLeft, OthersKept
    <3>4. QED
      BY <3>2, <3>3
  <2>3. QED
    BY <1>1, <1>8, <2>1, <2>2, OrderlyRequests
<1>9. QED
  BY <1>1, <1>2, <1>3, <1>4, <1>5, <1>6, <1>7, <1>8, LeftAloneKeeps

\* A history that stays orderly was so, and its requests come while the task sleeps.
LEMMA ComesOrderly ==
    ASSUME ExpiryInv, Accepts
    PROVE  /\ calm' \in BOOLEAN
           /\ Orderly' => Orderly /\ ~Awake /\ calm' = calm
<1>1. calm \in BOOLEAN
  BY DEF ExpiryInv, ExpiryTypeOK
<1>2. calm' = (calm /\ ~Awake)
  BY DEF Accepts
<1>3. QED
  BY <1>1, <1>2, Zenon DEF Orderly

\* A new order: its server is of no age.
LEMMA ResolveKeepsWorker ==
    ASSUME ExpiryInv, NEW s \in Servers, NEW h \in Hosts, Accepts, Resolve(s, h),
           UNCHANGED opVars
    PROVE  ExpiryInv'
<1>1. /\ UNCHANGED opVars /\ UNCHANGED <<op, at, copy, granted>> /\ UNCHANGED db
      /\ UNCHANGED <<age, workerVars>> /\ UNCHANGED warned /\ OpsInv
      /\ pc[s] = "new" /\ pc'[s] = "insert" /\ ent'[s] = NewServer(h)
      /\ \A t \in Servers : t # s => pc'[t] = pc[t] /\ ent'[t] = ent[t]
  BY DEF Accepts, Resolve, ExpiryInv, opVars, storeVars, OpsInv, OpsTypeOK, TypeOK
<1>2. OpsInv'
  BY <1>1, ResolveOps
<1>3. RowsStay
  BY <1>1 DEF OpsInv, ServerInv, RowsStay
<1>4. warned' \in [Servers -> {"not yet", "reminded", "missed"}]
  BY <1>1 DEF ExpiryInv, ExpiryTypeOK
<1>5. \A t \in Servers : ent'[t] # None => ent'[t].days = PlanDays
  BY <1>1 DEF ExpiryInv, DaysInv, NewServer
<1>6. \A t \in Servers : db'[t] # None => db'[t].days >= PlanDays
  BY <1>1 DEF ExpiryInv, DaysInv
<1>7. \A o \in Active' : Srv(o)' \in Servers => copy'[o].days >= PlanDays
  BY <1>1 DEF ExpiryInv, DaysInv, Active, Srv
<1>8. ASSUME Orderly' PROVE OrderlyInv'
  <2>0. Orderly /\ ~Awake /\ calm' = calm
    BY <1>8, ComesOrderly
  <2>1. SerialInv /\ SerialInv'
    BY <1>1, <2>0, ResolveSerial DEF ExpiryInv, OrderlyInv
  <2>2. ASSUME NEW t \in Servers PROVE DaysLeft(t)
    <3>1. /\ granted'[t] \in Nat /\ granted[t] <= granted'[t]
          /\ warned'[t] = warned[t] /\ db'[t] = db[t]
      BY <1>1 DEF OpsInv, OpsTypeOK
    <3>2. pc'[t] \notin Ends => pc[t] \notin Ends
      BY <1>1 DEF Ends
    <3>3. QED
      BY <3>1, <3>2 DEF DaysLeft
  <2>3. QED
    BY <1>1, <2>0, <2>1, <2>2, OrderlyRequests
<1>9. QED
  BY <1>1, <1>2, <1>3, <1>4, <1>5, <1>6, <1>7, <1>8, ComesOrderly, ComesKeeps

\* A request about an existing server reads its row, days included.
LEMMA ArrivesKeeps ==
    ASSUME ExpiryInv, OpsInv', Orderly => SerialInv', Accepts,
           NEW o \in Ops, NEW s \in Servers, NEW kind \in Kinds, NEW step \in Steps,
           NEW entity \in Row, Arrives(o, kind, s, step, entity), entity.days >= PlanDays
    PROVE  ExpiryInv'
<1>1. /\ UNCHANGED <<db, pc, ent, granted>>
      /\ UNCHANGED <<age, workerVars>> /\ UNCHANGED warned /\ OpsInv
  BY DEF Accepts, Arrives, ExpiryInv, vars, storeVars, sagaVars
<1>2. RowsStay
  BY <1>1 DEF RowsStay
<1>3. warned' \in [Servers -> {"not yet", "reminded", "missed"}]
  BY <1>1 DEF ExpiryInv, ExpiryTypeOK
<1>4. \A t \in Servers : /\ ent'[t] # None => ent'[t].days = PlanDays
                         /\ db'[t] # None => db'[t].days >= PlanDays
  BY <1>1 DEF ExpiryInv, DaysInv
<1>5. ASSUME NEW p \in Active', Srv(p)' \in Servers PROVE copy'[p].days >= PlanDays
  <2>1. CASE p = o
    BY <2>1 DEF Arrives, OpsInv, OpsTypeOK, ExpiryInv
  <2>2. CASE p # o
    <3>1. at'[p] = at[p] /\ op'[p] = op[p] /\ copy'[p] = copy[p]
      BY <2>2 DEF Arrives, Active, OpsInv, OpsTypeOK, ExpiryInv
    <3>2. QED
      BY <1>5, <3>1 DEF ExpiryInv, DaysInv, Active, Srv
  <2>3. QED
    BY <2>1, <2>2
<1>6. ASSUME Orderly' PROVE OrderlyInv'
  <2>0. Orderly /\ ~Awake /\ calm' = calm
    BY <1>6, ComesOrderly
  <2>1. ASSUME NEW t \in Servers PROVE DaysLeft(t)
    <3>1. granted'[t] \in Nat /\ granted[t] <= granted'[t]
      BY <1>1 DEF OpsInv, OpsTypeOK
    <3>2. warned'[t] = warned[t] /\ db'[t] = db[t] /\ pc'[t] = pc[t]
      BY <1>1
    <3>3. QED
      BY <3>1, <3>2 DEF DaysLeft
  <2>2. QED
    BY <1>1, <2>0, <2>1, OrderlyRequests
<1>7. QED
  BY <1>1, <1>2, <1>3, <1>4, <1>5, <1>6, ComesOrderly, ComesKeeps

\* An extension begins: its copy has more days than the row.
LEMMA BeginExtendKeeps ==
    ASSUME ExpiryInv, NEW o \in Ops, NEW s \in Servers, Accepts, BeginExtend(o, s)
    PROVE  ExpiryInv'
<1>1. OpsInv /\ db[s] # None /\ db[s] \in Row /\ db[s].days >= PlanDays
  BY FreshRow DEF BeginExtend, ExpiryInv, DaysInv
<1>2. OpsInv' /\ (Orderly => SerialInv')
  BY <1>1, BeginExtendOps, BeginExtendSerial DEF ExpiryInv, OrderlyInv, Orderly
<1>3. PICK e : e = WithDays(db[s], db[s].days + MoreDays)
  OBVIOUS
<1>4. db[s].days \in Nat /\ MoreDays \in Nat /\ PlanDays \in Nat
  BY <1>1, DaysAssumption, PlanAssumption DEF Row
<1>5. e \in Row /\ e.days = db[s].days + MoreDays
  <2>1. db[s].days + MoreDays \in Nat
    BY <1>4
  <2>2. QED
    BY <1>1, <1>3, <2>1, MoreAssignments
<1>6. e.days >= PlanDays
  <2>1. PICK d : d = db[s].days
    OBVIOUS
  <2>2. d \in Nat /\ d >= PlanDays /\ e.days = d + MoreDays
    BY <1>1, <1>4, <1>5, <2>1
  <2>3. d + MoreDays >= PlanDays
    BY <1>4, <2>2
  <2>4. QED
    BY <2>2, <2>3
<1>7. "extend" \in Kinds /\ "save" \in Steps /\ Arrives(o, "extend", s, "save", e)
  BY <1>3 DEF BeginExtend, Steps
<1>8. QED
  BY <1>2, <1>5, <1>6, <1>7, ArrivesKeeps

\* Any other request begins: its copy is the row.
LEMMA BeginOnVmKeeps ==
    ASSUME ExpiryInv, NEW o \in Ops, NEW kind \in Kinds, NEW s \in Servers, Accepts,
           BeginOnVm(o, kind, s)
    PROVE  ExpiryInv'
<1>1. OpsInv /\ db[s] # None /\ db[s] \in Row /\ db[s].days >= PlanDays
  BY FreshRow DEF BeginOnVm, ExpiryInv, DaysInv
<1>2. OpsInv' /\ (Orderly => SerialInv')
  BY <1>1, BeginOnVmOps, BeginOnVmSerial DEF ExpiryInv, OrderlyInv, Orderly
<1>3. FirstCall(kind) \in Steps
  BY KindsAssumption DEF BeginOnVm, FirstCall, Steps, AllKinds
<1>4. QED
  BY <1>1, <1>2, <1>3, ArrivesKeeps DEF BeginOnVm

\* What only VMs, hosts and requests on their way can do to an orderly history.
LEMMA OthersOrderly ==
    ASSUME ExpiryInv, Orderly, SerialInv',
           UNCHANGED <<db, pc, ent, opVars, expiryVars>>,
           \A s \in Servers :
              db[s] # None /\ db[s].ext # None /\ Distinct(s) /\ OwnVm(s) => OwnVm(s)'
    PROVE  OrderlyInv'
<1>1. /\ UNCHANGED <<db, pc, ent, op, at, copy, age, task, list, cur, tsess, warned>>
      /\ OrderlyInv
  BY DEF opVars, expiryVars, workerVars, ExpiryInv
<1>2. (Awake => Idle)'
  BY <1>1 DEF OrderlyInv, Awake, Idle, Busy, Active, InFlight
<1>3. /\ tsess' # None => tsess' = db'[cur']
      /\ task' = "noting" => warned'[cur'] # "not yet"
  BY <1>1 DEF OrderlyInv
<1>4. ASSUME NEW s \in Servers PROVE OrderlyList(s)' /\ OrderlyWarned(s)'
  <2>1. OrderlyList(s) /\ OrderlyWarned(s)
    BY <1>1 DEF OrderlyInv
  <2>2. OrderlyWarned(s)'
    BY <1>1, <2>1 DEF OrderlyWarned
  <2>3. ASSUME list[s] # None, Distinct(s), Published(list[s]) PROVE OwnVm(s)'
    <3>1. OwnVm(s) /\ db[s] # None /\ db[s].ext # None
      BY <2>1, <2>3 DEF OrderlyList, Published, ExpiryInv, ListInv
    <3>2. QED
      BY <2>3, <3>1
  <2>4. QED
    BY <1>1, <2>1, <2>2, <2>3 DEF OrderlyList, Distinct, Published
<1>5. QED
  BY <1>2, <1>3, <1>4 DEF OrderlyInv

\* What a request given up on, or an admin, does while the task is at work.
LEMMA OthersKeep ==
    ASSUME ExpiryInv, Others, UNCHANGED <<opVars, expiryVars>>
    PROVE  ExpiryInv'
<1>1. /\ UNCHANGED <<age, calm, workerVars>> /\ UNCHANGED warned /\ OpsInv /\ UNCHANGED opVars
      /\ UNCHANGED <<op, at, copy>>
  BY DEF ExpiryInv, expiryVars, opVars
<1>2. UNCHANGED <<db, pc, ent>>
  BY DEF Others, LateCreate, LateDestroy, AddHost, DeleteHost, sagaVars
<1>3. OpsInv'
  BY <1>1, LateCreateOps, LateDestroyOps, HostsOps DEF Others
<1>4. RowsStay /\ warned' \in [Servers -> {"not yet", "reminded", "missed"}]
  BY <1>1, <1>2 DEF RowsStay, ExpiryInv, ExpiryTypeOK
<1>5. \A t \in Servers : /\ ent'[t] # None => ent'[t].days = PlanDays
                         /\ db'[t] # None => db'[t].days >= PlanDays
  BY <1>2 DEF ExpiryInv, DaysInv
<1>6. \A o \in Active' : Srv(o)' \in Servers => copy'[o].days >= PlanDays
  BY <1>1 DEF ExpiryInv, DaysInv, Active, Srv
<1>7. ASSUME Orderly PROVE OrderlyInv'
  <2>1. SerialInv
    BY <1>7 DEF ExpiryInv, OrderlyInv
  <2>2. SerialInv'
    BY <1>1, <2>1, LateCreateSerial, LateDestroySerial, HostsSerial DEF Others
  <2>3. ASSUME NEW t \in Servers, db[t] # None, db[t].ext # None, Distinct(t), OwnVm(t)
        PROVE  OwnVm(t)'
    <3>1. ent[t] # None /\ TypeOK
      BY <2>3 DEF OpsInv, OpsTypeOK, ServerInv, ExpiryInv
    <3>2. Target(t) \in Slots /\ Target(t)' = Target(t)
      BY <1>2, <3>1, TargetIsSlot DEF Target, SlotOf
    <3>3. vms'[Target(t)] = vms[Target(t)]
      <4>1. CASE \E h \in Hosts : (AddHost(h) \/ DeleteHost(h)) /\ UNCHANGED sagaVars
        BY <4>1 DEF AddHost, DeleteHost
      <4>2. ASSUME NEW s \in Servers, NEW h \in Hosts, NEW cloned \in BOOLEAN,
                   LateCreate(s, h, cloned)
            PROVE  vms'[Target(t)] = vms[Target(t)]
        BY <2>3, <3>1, <3>2, <4>2 DEF LateCreate, CreateVm, OwnVm, TypeOK, StoreTypeOK
      <4>3. ASSUME NEW s \in Servers, NEW h \in Hosts, LateDestroy(s, h)
            PROVE  vms'[Target(t)] = vms[Target(t)]
        <5>1. db[s].ext = None
          BY <2>1, <4>3 DEF LateDestroy, SerialInv, LateDestroyInv
        <5>2. SlotOf(s, h) # Target(t)
          BY <2>3, <5>1 DEF Distinct, Target, SlotOf
        <5>3. QED
          BY <3>1, <3>2, <4>3, <5>2 DEF LateDestroy, TypeOK, StoreTypeOK
      <4>4. QED
        BY <4>1, <4>2, <4>3 DEF Others
    <3>4. QED
      BY <2>3, <3>2, <3>3 DEF OwnVm
  <2>4. QED
    BY <1>2, <1>7, <2>2, <2>3, OthersOrderly
<1>8. QED
  BY <1>1, <1>3, <1>4, <1>5, <1>6, <1>7, LeftAloneKeeps

(***************************************************************************)
(* The task ends                                                           *)
(***************************************************************************)

\* Who was reminded stays so; of the others, those of S were missed.
LEMMA MissedNights ==
    ASSUME ExpiryInv, NEW S, warned' = Missed(S)
    PROVE  /\ warned' \in [Servers -> {"not yet", "reminded", "missed"}]
           /\ \A s \in Servers : warned'[s] = "not yet" <=> warned[s] = "not yet" /\ s \notin S
<1>1. warned \in [Servers -> {"not yet", "reminded", "missed"}]
  BY DEF ExpiryInv, ExpiryTypeOK
<1>2. QED
  BY <1>1 DEF Missed

\* The last day of a server is a day for its reminder: Warning is not 0.
LEMMA LastDayExpires ==
    ASSUME NEW s \in Servers, db[s] # None, NEW a \in Nat, a = db[s].days, PlanDays # 0,
           db[s].days >= PlanDays
    PROVE  Expiring(s, a)
<1>1. Warning \in Nat \ {0} /\ PlanDays \in Nat
  BY WarningAssumption, PlanAssumption
<1>2. a # 0 /\ a <= a /\ a < a + Warning
  BY <1>1
<1>3. QED
  BY <1>2 DEF Expiring, HasExpiry

\* A reminder that still is to come tonight is missed when the task ends.
LEMMA UnremindedTonight ==
    ASSUME ExpiryInv, Orderly, NEW s \in Servers, PlanDays # 0, db[s] # None,
           warned[s] = "not yet", s \notin Unreminded
    PROVE  Ahead(age[s], db[s].days)
<1>1. OrderlyWarned(s) /\ age[s] \in Nat /\ db[s].days >= PlanDays
  BY ExpiryTypes DEF ExpiryInv, OrderlyInv, DaysInv
<1>2. /\ age[s] <= db[s].days
      /\ age[s] = db[s].days => task = "notify" \/ (task \in Reminding /\ list[s] # None)
  BY <1>1, Zenon DEF OrderlyWarned
<1>3. task = "notify" => ~Expiring(s, age[s])
  BY DEF Unreminded
<1>4. task \in Reminding /\ task # "notify" => list[s] = None
  BY DEF Unreminded, Reminding
<1>5. Expiring(s, age[s]) \/ age[s] # db[s].days
  BY <1>1, LastDayExpires
<1>6. age[s] # db[s].days
  BY <1>2, <1>3, <1>4, <1>5
<1>7. QED
  BY <1>2, <1>6 DEF Ahead

\* The task ends, alone or with its process: it holds nothing any more, and
\* whoever it still had to remind tonight was missed.
LEMMA TaskEndsKeeps ==
    ASSUME ExpiryInv, NEW how \in {"dead", "down"}, TaskEnds(how), OpsInv', Orderly => SerialInv',
           UNCHANGED <<db, ent>>,
           \A s \in Servers : pc'[s] \notin Ends => pc[s] \notin Ends,
           \A p \in Active' : p \in Active /\ Srv(p)' = Srv(p) /\ copy'[p] = copy[p]
    PROVE  ExpiryInv'
<1>1. /\ task' = how /\ cur' = None /\ tsess' = None /\ warned' = Missed(Unreminded)
      /\ list' = Nothing /\ UNCHANGED <<age, calm>>
  BY DEF TaskEnds, Proceed
<1>2. \A s \in Servers : list'[s] = None
  BY <1>1 DEF Nothing
<1>3. /\ warned' \in [Servers -> {"not yet", "reminded", "missed"}]
      /\ \A s \in Servers :
            warned'[s] = "not yet" <=> warned[s] = "not yet" /\ s \notin Unreminded
  BY <1>1, MissedNights
<1>4. list' \in [Servers -> Row \cup {None}]
  BY <1>1 DEF Nothing
<1>5. ExpiryTypeOK' /\ CurInv' /\ ~Awake'
  BY <1>1, <1>3, <1>4 DEF ExpiryInv, ExpiryTypeOK, OpsInv, CurInv, Awake, TaskSaves, Reminding,
                          Stopping
<1>6. ASSUME NEW s \in Servers PROVE ListInv(s)' /\ DaysInv(s)'
  BY <1>2 DEF ExpiryInv, ListInv, DaysInv
<1>7. ASSUME Orderly PROVE OrderlyInv'
  <2>1. ASSUME NEW s \in Servers PROVE OrderlyList(s)' /\ OrderlyWarned(s)'
    <3>1. pc'[s] \notin Ends => age'[s] = 0
      BY <1>1, <1>7 DEF ExpiryInv, OrderlyInv, OrderlyWarned
    <3>2. PlanDays # 0 /\ db'[s] # None /\ warned'[s] = "not yet" => Ahead(age'[s], db'[s].days)
      BY <1>1, <1>3, <1>7, UnremindedTonight
    <3>3. QED
      BY <1>2, <3>1, <3>2 DEF OrderlyList, OrderlyWarned, Ahead
  <2>2. task' # "noting"
    BY <1>1
  <2>3. QED
    BY <1>1, <1>5, <1>7, <2>1, <2>2 DEF OrderlyInv
<1>8. Orderly' => Orderly
  BY <1>1 DEF Orderly
<1>9. QED
  BY <1>5, <1>6, <1>7, <1>8 DEF ExpiryInv

\* The process dies: handlers, sagas and the task end together.
LEMMA ProcessDiesKeeps ==
    ASSUME ExpiryInv, NEW sent \in SUBSET Unanswered, ProcessDies(sent)
    PROVE  ExpiryInv'
<1>1. CrashAll(sent) /\ TaskEnds("down") /\ OpsInv
  BY DEF ProcessDies, ExpiryInv
<1>2. OpsInv' /\ (Orderly => SerialInv')
  BY <1>1, CrashOps, CrashSerial DEF ExpiryInv, OrderlyInv
<1>3. UNCHANGED <<db, ent>> /\ \A s \in Servers : pc'[s] \notin Ends => pc[s] \notin Ends
  BY <1>1 DEF CrashAll, Crash, storeVars, Ends
<1>4. \A p \in Active' : FALSE
  BY <1>1, CrashEndsAll DEF Active
<1>5. QED
  BY <1>1, <1>2, <1>3, <1>4, TaskEndsKeeps

\* Nothing that requests, sagas or the hypervisor hold has moved.
LEMMA StoreStill ==
    ASSUME ExpiryInv, UNCHANGED allVars
    PROVE  /\ OpsInv' /\ (Orderly => SerialInv')
           /\ UNCHANGED <<db, vms, hosts, pc, ent, op, at, copy, sess, granted, billed>>
           /\ UNCHANGED <<loaded, late>>
<1>1. OpsInv'
  BY OpsNextKeeps DEF ExpiryInv
<1>2. Orderly => SerialInv'
  BY SerialNextKeeps DEF ExpiryInv, OrderlyInv, Orderly
<1>3. QED
  BY <1>1, <1>2 DEF allVars, vars, storeVars, sagaVars, opVars

\* An exception that nothing catches ends the task.
LEMMA TaskRaisesKeeps ==
    ASSUME ExpiryInv, TaskRaises
    PROVE  ExpiryInv'
<1>1. UNCHANGED allVars /\ TaskEnds("dead")
  BY DEF TaskRaises
<1>2. OpsInv' /\ (Orderly => SerialInv') /\ UNCHANGED <<db, pc, ent, op, at, copy>>
  BY <1>1, StoreStill
<1>3. \A p \in Active' : p \in Active /\ Srv(p)' = Srv(p) /\ copy'[p] = copy[p]
  BY <1>2 DEF Active, Srv
<1>4. QED
  BY <1>1, <1>2, <1>3, TaskEndsKeeps

(***************************************************************************)
(* Midnight and the queries                                                *)
(***************************************************************************)

\* At midnight a server gets one day older, or is as old as the instance
\* counts.
LEMMA OlderByOne ==
    ASSUME ExpiryInv, NEW s \in Servers
    PROVE  /\ Older(s) \in 0..AgeCap /\ Older(s) \in Nat
           /\ Older(s) = age[s] \/ Older(s) = age[s] + 1
           /\ pc[s] = "new" => Older(s) = age[s]
<1>1. age[s] \in 0..AgeCap /\ AgeCap \in Nat \ {0}
  BY AgeCapAssumption DEF ExpiryInv, ExpiryTypeOK
<1>2. QED
  BY <1>1 DEF Older

\* Midnight: the last day of a server begins with the reminding pass, or is
\* a night missed.
LEMMA MidnightKeeps ==
    ASSUME ExpiryInv, Midnight
    PROVE  ExpiryInv'
<1>1. /\ ~Awake /\ age' = [s \in Servers |-> Older(s)] /\ calm' = (calm /\ Idle)
      /\ UNCHANGED allVars /\ UNCHANGED <<list, cur, tsess>>
      /\ \/ task = "asleep" /\ task' = "notify" /\ warned' = warned
         \/ /\ task' = task
            /\ warned' = Missed({s \in Servers : Expiring(s, Older(s))})
  BY DEF Midnight
<1>2. /\ OpsInv' /\ (Orderly => SerialInv')
      /\ UNCHANGED <<db, vms, hosts, pc, ent, op, at, copy, sess, granted, billed>>
  BY <1>1, StoreStill
<1>3. cur = None /\ tsess = None /\ \A s \in Servers : list[s] = None
  BY <1>1, AsleepHoldsNothing
<1>4. /\ warned' \in [Servers -> {"not yet", "reminded", "missed"}]
      /\ \A s \in Servers : warned'[s] = "not yet" =>
            /\ warned[s] = "not yet"
            /\ task' = "notify" \/ ~Expiring(s, Older(s))
  <2>1. CASE task' = "notify" /\ warned' = warned
    BY <2>1 DEF ExpiryInv, ExpiryTypeOK
  <2>2. CASE warned' = Missed({s \in Servers : Expiring(s, Older(s))})
    <3>1. PICK S : S = {s \in Servers : Expiring(s, Older(s))}
      OBVIOUS
    <3>2. /\ warned' \in [Servers -> {"not yet", "reminded", "missed"}]
          /\ \A s \in Servers : warned'[s] = "not yet" <=> warned[s] = "not yet" /\ s \notin S
      BY <2>2, <3>1, MissedNights
    <3>3. QED
      BY <3>1, <3>2
  <2>3. QED
    BY <1>1, <2>1, <2>2
<1>5. age' \in [Servers -> 0..AgeCap] /\ \A s \in Servers : age'[s] = Older(s)
  BY <1>1, OlderByOne
<1>6. task' \notin Holding /\ task' \in TaskStates /\ task' \notin TaskSaves
  BY <1>1 DEF Awake, ExpiryInv, ExpiryTypeOK, Holding, TaskStates, TaskSaves, Reminding, Stopping
<1>7. ExpiryTypeOK' /\ CurInv'
  BY <1>1, <1>2, <1>3, <1>4, <1>5, <1>6 DEF ExpiryInv, ExpiryTypeOK, OpsInv, CurInv, TaskStates
<1>8. ASSUME NEW s \in Servers PROVE ListInv(s)' /\ DaysInv(s)'
  BY <1>1, <1>2, <1>3 DEF ExpiryInv, ListInv, DaysInv, Active, Srv
<1>9. ASSUME Orderly' PROVE OrderlyInv'
  <2>1. Orderly /\ Idle /\ OrderlyInv /\ SerialInv'
    BY <1>1, <1>2, <1>9 DEF Orderly, ExpiryInv
  <2>2. Idle'
    BY <1>2, <2>1 DEF Idle, Busy, Active, InFlight
  <2>3. ASSUME NEW s \in Servers PROVE OrderlyList(s)'
    BY <1>1, <1>3 DEF OrderlyList
  <2>4. ASSUME NEW s \in Servers, pc'[s] \notin Ends PROVE age'[s] = 0
    <3>1. pc[s] = "new" /\ age[s] = 0
      BY <1>2, <2>1, <2>4 DEF Idle, InFlight, OrderlyInv, OrderlyWarned
    <3>2. QED
      BY <1>5, <3>1, OlderByOne
  <2>5. ASSUME NEW s \in Servers, PlanDays # 0, db[s] # None, warned'[s] = "not yet"
        PROVE  age'[s] <= db[s].days /\ (age'[s] = db[s].days => task' = "notify")
    <3>1. OrderlyWarned(s) /\ age[s] \in Nat /\ db[s].days \in Nat /\ db[s].days >= PlanDays
      BY <2>1, <2>5, ExpiryTypes DEF OrderlyInv, ExpiryInv, DaysInv
    <3>2. age[s] <= db[s].days /\ age[s] # db[s].days
      BY <1>1, <1>3, <1>4, <2>5, <3>1, Zenon DEF OrderlyWarned, Awake, Reminding
    <3>3. age'[s] = Older(s) /\ Older(s) \in Nat /\ Older(s) <= db[s].days
      <4>1. Older(s) \in Nat /\ (Older(s) = age[s] \/ Older(s) = age[s] + 1) /\ age'[s] = Older(s)
        BY <1>5, OlderByOne
      <4>2. age[s] + 1 <= db[s].days
        BY <3>1, <3>2
      <4>3. QED
        BY <3>1, <4>1, <4>2
    <3>4. Older(s) = db[s].days => Expiring(s, Older(s))
      BY <2>5, <3>1, <3>3, LastDayExpires
    <3>5. task' = "notify" \/ ~Expiring(s, Older(s))
      BY <1>4, <2>5
    <3>6. QED
      BY <3>3, <3>4, <3>5
  <2>6. ASSUME NEW s \in Servers PROVE OrderlyWarned(s)'
    BY <1>2, <2>4, <2>5 DEF OrderlyWarned
  <2>7. tsess' = None /\ task' # "noting"
    BY <1>1, <1>3, <1>6 DEF Holding
  <2>8. QED
    BY <2>1, <2>2, <2>3, <2>6, <2>7 DEF OrderlyInv
<1>10. QED
  BY <1>2, <1>7, <1>8, <1>9 DEF ExpiryInv

\* What expired is older than its days, and so than those of its plan.
LEMMA ExpiredDays ==
    ASSUME NEW s \in Servers, db[s].days \in Nat, age[s] \in Nat, PlanDays \in Nat,
           db[s].days >= PlanDays
    PROVE  Expired(s) => age[s] > db[s].days /\ age[s] > PlanDays
BY DEF Expired

\* A query answers with rows as they are; the stopping pass takes only those
\* that expired.
TakesRows(step, rows) ==
    \A s \in Servers : rows[s] # None =>
        /\ db[s] # None /\ rows[s] = db[s]
        /\ step = "reminding" \/ (step = "stopping" /\ Expired(s))

\* In an orderly history the reminding pass takes who has one day left.
LastDay(s) ==
    Orderly /\ PlanDays # 0 /\ db[s] # None /\ warned[s] = "not yet" /\ age[s] = db[s].days

LeavesNobodyOut(step, rows) ==
    \A s \in Servers : LastDay(s) => step = "reminding" /\ rows[s] # None

\* The task reads a list, or goes back to sleep: what it holds is current.
LEMMA ListingKeeps ==
    ASSUME ExpiryInv, UNCHANGED allVars,
           NEW step \in {"reminding", "stop_expired", "stopping", "asleep", "dead"},
           NEW rows \in [Servers -> Row \cup {None}], Listing(step, rows),
           step \in {"asleep", "dead"} \/ Awake,
           TakesRows(step, rows), LeavesNobodyOut(step, rows)
    PROVE  ExpiryInv'
<1>1. /\ task' = step /\ cur' = None /\ tsess' = None /\ list' = rows
      /\ UNCHANGED <<warned, age, calm>>
  BY DEF Listing, Proceed
<1>2. /\ OpsInv' /\ (Orderly => SerialInv') /\ OpsInv
      /\ UNCHANGED <<db, vms, hosts, pc, ent, op, at, copy, sess, granted, billed>>
  BY StoreStill DEF ExpiryInv
<1>3. ExpiryTypeOK' /\ CurInv'
  BY <1>1, <1>2 DEF ExpiryInv, ExpiryTypeOK, OpsInv, CurInv, TaskSaves, Reminding, Stopping
<1>4. ASSUME NEW s \in Servers, rows[s] # None
      PROVE  /\ db[s] # None /\ rows[s] = db[s] /\ db[s].days \in Nat /\ age[s] \in Nat
             /\ db[s].days >= PlanDays /\ PlanDays \in Nat
             /\ task' \in {"reminding", "stopping"}
             /\ task' \in Stopping => age[s] > db[s].days /\ age[s] > PlanDays
  <2>1. /\ db[s] # None /\ rows[s] = db[s]
        /\ step = "reminding" \/ (step = "stopping" /\ Expired(s))
    BY <1>4 DEF TakesRows
  <2>2. db[s].days \in Nat /\ age[s] \in Nat /\ db[s].days >= PlanDays /\ PlanDays \in Nat
    BY <2>1, ExpiryTypes DEF ExpiryInv, DaysInv
  <2>3. Expired(s) => age[s] > db[s].days /\ age[s] > PlanDays
    BY <2>2, ExpiredDays
  <2>4. QED
    BY <1>1, <2>1, <2>2, <2>3 DEF Stopping
<1>5. ASSUME NEW s \in Servers PROVE ListInv(s)'
  <2>1. CASE rows[s] = None
    BY <1>1, <2>1 DEF ListInv
  <2>2. CASE rows[s] # None
    <3>1. RowOf(s, db[s]) /\ (Distinct(s) => Ample(db[s]))
      BY <1>2, <1>4, <2>2, FreshRow
    <3>2. RowOf(s, db[s])'
      BY <1>2, <3>1 DEF RowOf
    <3>3. task' \in (Reminding \cup Stopping) \ {"notify", "stop_expired"}
      BY <1>4, <2>2 DEF Reminding, Stopping
    <3>4. QED
      BY <1>1, <1>2, <1>4, <2>2, <3>1, <3>2, <3>3 DEF ListInv, Distinct, Ample
  <2>3. QED
    BY <2>1, <2>2
<1>6. ASSUME NEW s \in Servers PROVE DaysInv(s)'
  BY <1>1, <1>2, <1>4 DEF ExpiryInv, DaysInv, Active, Srv
<1>7. ASSUME Orderly PROVE OrderlyInv'
  <2>1. OrderlyInv /\ SerialInv /\ SerialInv'
    BY <1>2, <1>7 DEF ExpiryInv, OrderlyInv
  <2>2. (Awake => Idle)'
    <3>1. Awake' => Awake
      BY <1>1 DEF Awake, Reminding, Stopping
    <3>2. QED
      BY <1>2, <2>1, <3>1 DEF OrderlyInv, Idle, Busy, Active, InFlight
  <2>3. ASSUME NEW s \in Servers PROVE OrderlyList(s)'
    <3>1. CASE rows[s] = None
      BY <1>1, <3>1 DEF OrderlyList
    <3>2. CASE rows[s] # None
      <4>1. Distinct(s) /\ Published(db[s]) => OwnVm(s)
        BY <2>1 DEF SerialInv, DeliveredInv
      <4>2. OwnVm(s)' <=> OwnVm(s)
        BY <1>2 DEF OwnVm, Target, SlotOf
      <4>3. QED
        BY <1>1, <1>2, <1>4, <3>2, <4>1, <4>2 DEF OrderlyList, Distinct, Published
    <3>3. QED
      BY <3>1, <3>2
  <2>4. ASSUME NEW s \in Servers PROVE OrderlyWarned(s)'
    <3>1. OrderlyWarned(s)
      BY <2>1 DEF OrderlyInv
    <3>2. PlanDays # 0 /\ db[s] # None /\ warned[s] = "not yet" =>
             /\ age[s] <= db[s].days
             /\ age[s] = db[s].days => task' \in Reminding /\ rows[s] # None
      BY <1>1, <1>7, <3>1, Zenon DEF OrderlyWarned, Reminding, LeavesNobodyOut, LastDay
    <3>3. QED
      BY <1>1, <1>2, <3>1, <3>2 DEF OrderlyWarned
  <2>5. task' # "noting"
    BY <1>1
  <2>6. QED
    BY <1>1, <2>1, <2>2, <2>3, <2>4, <2>5 DEF OrderlyInv
<1>8. Orderly' => Orderly
  BY <1>1 DEF Orderly
<1>9. QED
  BY <1>2, <1>3, <1>5, <1>6, <1>7, <1>8 DEF ExpiryInv

\* Who has one day left and was not reminded is somebody the reminding pass
\* takes.
LEMMA LastDayTonight ==
    ASSUME ExpiryInv, NEW s \in Servers, LastDay(s)
    PROVE  /\ task = "notify" \/ (task \in Reminding /\ list[s] # None)
           /\ Expiring(s, age[s])
<1>1. OrderlyWarned(s) /\ age[s] \in Nat /\ db[s].days >= PlanDays /\ db[s] # None
  BY ExpiryTypes DEF ExpiryInv, OrderlyInv, DaysInv, LastDay
<1>2. Expiring(s, age[s])
  BY <1>1, LastDayExpires DEF LastDay
<1>3. QED
  BY <1>1, <1>2, Zenon DEF OrderlyWarned, LastDay

\* The steps of the task that begin and end its two passes, and its start.
LEMMA QueriesKeep ==
    ASSUME ExpiryInv, QueryExpiring \/ AllReminded \/ QueryExpired \/ AllStopped \/ Restart
    PROVE  ExpiryInv'
<1>1. /\ Nothing \in [Servers -> Row \cup {None}] /\ \A s \in Servers : Nothing[s] = None
      /\ \A S : Loaded(S) \in [Servers -> Row \cup {None}]
      /\ \A S : \A s \in Servers : Loaded(S)[s] = IF s \in S THEN db[s] ELSE None
  BY DEF Nothing, Loaded, ExpiryInv, ExpiryTypeOK, OpsTypeOK, TypeOK, StoreTypeOK
<1>2. \A step : TakesRows(step, Nothing)
  BY <1>1 DEF TakesRows
<1>3. CASE QueryExpiring
  <2>1. PICK S : S = {s \in Servers : Expiring(s, age[s])}
    OBVIOUS
  <2>2. task = "notify" /\ Listing("reminding", Loaded(S)) /\ UNCHANGED allVars
    BY <1>3, <2>1 DEF QueryExpiring
  <2>3. Awake
    BY <2>2 DEF Awake, Reminding
  <2>4. TakesRows("reminding", Loaded(S))
    BY <1>1 DEF TakesRows
  <2>5. LeavesNobodyOut("reminding", Loaded(S))
    <3> SUFFICES ASSUME NEW s \in Servers, LastDay(s) PROVE Loaded(S)[s] # None
      BY DEF LeavesNobodyOut
    <3>1. s \in S /\ db[s] # None
      BY <2>1, LastDayTonight DEF LastDay
    <3>2. QED
      BY <1>1, <3>1
  <2>6. QED
    BY <1>1, <2>2, <2>3, <2>4, <2>5, ListingKeeps
<1>4. CASE AllReminded
  <2>1. task = "reminding" /\ list = Nothing /\ Listing("stop_expired", Nothing) /\ UNCHANGED allVars
    BY <1>4 DEF AllReminded
  <2>2. Awake /\ LeavesNobodyOut("stop_expired", Nothing)
    BY <1>1, <2>1, LastDayTonight DEF Awake, Reminding, LeavesNobodyOut
  <2>3. QED
    BY <1>1, <1>2, <2>1, <2>2, ListingKeeps
<1>5. CASE QueryExpired
  <2>1. PICK S : S = {s \in Servers : Expired(s)}
    OBVIOUS
  <2>2. task = "stop_expired" /\ Listing("stopping", Loaded(S)) /\ UNCHANGED allVars
    BY <1>5, <2>1 DEF QueryExpired
  <2>3. Awake
    BY <2>2 DEF Awake, Stopping
  <2>4. TakesRows("stopping", Loaded(S))
    BY <1>1, <2>1 DEF TakesRows
  <2>5. LeavesNobodyOut("stopping", Loaded(S))
    BY <2>2, LastDayTonight DEF Reminding, LeavesNobodyOut
  <2>6. QED
    BY <1>1, <2>2, <2>3, <2>4, <2>5, ListingKeeps
<1>6. CASE AllStopped \/ Restart
  <2>1. PICK how \in {"asleep", "dead"} : Listing(how, Nothing)
    BY <1>6 DEF AllStopped, Restart, Started
  <2>2. UNCHANGED allVars /\ task \in {"stopping", "down"}
    BY <1>6 DEF AllStopped, Restart
  <2>3. LeavesNobodyOut(how, Nothing)
    BY <2>2, LastDayTonight DEF Reminding, LeavesNobodyOut
  <2>4. QED
    BY <1>1, <1>2, <2>1, <2>2, <2>3, ListingKeeps
<1>7. QED
  BY <1>3, <1>4, <1>5, <1>6

(***************************************************************************)
(* One server after the other                                              *)
(***************************************************************************)

\* The entity in hand gets a status, and is next to be saved.
LEMMA DecideKeeps ==
    ASSUME ExpiryInv, NEW s \in Servers, NEW status \in Statuses, NEW step \in TaskSaves,
           Decide(s, status, step), list[s] # None,
           OpsInv', Orderly => SerialInv', UNCHANGED <<db, pc, ent, op, at, copy>>,
           warned' \in [Servers -> {"not yet", "reminded", "missed"}],
           \A t \in Servers : warned'[t] = "not yet" => warned[t] = "not yet",
           task \in Reminding <=> step = "noting",
           step = "noting" => warned'[s] # "not yet",
           \A t \in Servers : db[t] # None /\ OwnVm(t) => OwnVm(t)',
           /\ Orderly /\ Distinct(s) /\ list[s].ext # None /\ status \notin {"failed", "rolled_back"}
           => Published(list[s]) \/ OwnVm(s)
    PROVE  ExpiryInv'
<1>1. /\ task' = step /\ cur' = s /\ tsess' = None /\ UNCHANGED <<age, calm>>
      /\ list' = [list EXCEPT ![s] = WithStatus(list[s], status)]
  BY DEF Decide
<1>2. /\ list \in [Servers -> Row \cup {None}] /\ list[s] \in Row /\ s # None
      /\ task \in Holding /\ task # "notify" /\ task # "stop_expired"
  BY ExpiryTypes, NobodyAssumption DEF ExpiryInv, ExpiryTypeOK, Holding
<1>3. PICK e : e = WithStatus(list[s], status)
  OBVIOUS
<1>4. /\ e \in Row /\ e # None /\ e.status = status /\ e.host = list[s].host /\ e.ext = list[s].ext
      /\ e.cpu = list[s].cpu /\ e.disk = list[s].disk /\ e.days = list[s].days
  BY <1>2, <1>3, EntityAssignments, DaysAssigned, NoneAssumption
<1>5. list'[s] = e /\ \A t \in Servers : t # s => list'[t] = list[t]
  BY <1>1, <1>2, <1>3
<1>6. /\ step \in Reminding \cup Stopping
      /\ step = "noting" \/ (step \in Stopping /\ step \notin Reminding)
      /\ step # "notify" /\ step # "stop_expired"
      /\ task \in Stopping \/ step = "noting"
  BY <1>2 DEF TaskSaves, Reminding, Stopping, Holding
<1>7. list' \in [Servers -> Row \cup {None}]
  BY <1>1, <1>2, <1>3, <1>4
<1>8. ExpiryTypeOK' /\ CurInv'
  BY <1>1, <1>2, <1>4, <1>5, <1>6, <1>7 DEF ExpiryInv, ExpiryTypeOK, OpsInv, CurInv
<1>9. ASSUME NEW t \in Servers, list'[t] # None
      PROVE  /\ list[t] # None /\ list'[t].host = list[t].host /\ list'[t].ext = list[t].ext
             /\ list'[t].cpu = list[t].cpu /\ list'[t].disk = list[t].disk
             /\ list'[t].days = list[t].days
  BY <1>4, <1>5, <1>9
<1>10. ASSUME NEW t \in Servers PROVE ListInv(t)' /\ DaysInv(t)'
  <2>1. ListInv(t) /\ DaysInv(t)
    BY DEF ExpiryInv
  <2>2. DaysInv(t)'
    BY <1>9, <2>1 DEF DaysInv, Active, Srv
  <2>3. CASE list'[t] # None
    <3>1. RowOf(t, list'[t]) /\ (Distinct(t) => Ample(list'[t]))
      BY <1>9, <2>1, <2>3 DEF ListInv, RowOf, Ample
    <3>2. task' \in Stopping => age[t] > PlanDays
      BY <1>1, <1>6, <1>9, <2>1, <2>3, Zenon DEF ListInv, Stopping
    <3>3. QED
      BY <1>1, <1>6, <1>9, <2>1, <2>2, <2>3, <3>1, <3>2 DEF ListInv, Distinct, RowOf, Ample
  <2>4. QED
    BY <2>2, <2>3 DEF ListInv
<1>11. ASSUME Orderly PROVE OrderlyInv'
  <2>1. OrderlyInv /\ SerialInv /\ SerialInv' /\ Awake
    BY <1>2, <1>11 DEF ExpiryInv, OrderlyInv, Awake, Holding, Reminding, Stopping
  <2>2. Idle'
    BY <2>1 DEF OrderlyInv, Idle, Busy, Active, InFlight
  <2>3. ASSUME NEW t \in Servers, list'[t] # None PROVE OrderlyList(t)'
    <3>1. OrderlyList(t) /\ list[t] # None /\ db[t] # None
      BY <1>9, <2>1, <2>3 DEF OrderlyInv, ExpiryInv, ListInv
    <3>2. Distinct(t) /\ Published(list'[t]) => OwnVm(t)
      <4>1. CASE t # s
        BY <1>5, <3>1, <4>1 DEF OrderlyList
      <4>2. CASE t = s
        BY <1>4, <1>5, <1>11, <3>1, <4>2 DEF OrderlyList, Published
      <4>3. QED
        BY <4>1, <4>2
    <3>3. task' \in Stopping => age[t] > db[t].days
      BY <1>1, <1>6, <3>1, Zenon DEF OrderlyList, Stopping
    <3>4. QED
      BY <1>1, <1>9, <2>3, <3>1, <3>2, <3>3 DEF OrderlyList, Distinct, Published
  <2>4. ASSUME NEW t \in Servers PROVE OrderlyWarned(t)'
    <3>1. OrderlyWarned(t)
      BY <2>1 DEF OrderlyInv
    <3>2. list[t] # None => list'[t] # None
      BY <1>4, <1>5
    <3>3. task \in Reminding => task' \in Reminding
      BY <1>1 DEF Reminding
    <3>4. QED
      BY <1>1, <1>2, <3>1, <3>2, <3>3, Zenon DEF OrderlyWarned
  <2>5. QED
    BY <1>1, <2>1, <2>2, <2>3, <2>4 DEF OrderlyInv, OrderlyList
<1>12. Orderly' => Orderly
  BY <1>1 DEF Orderly
<1>13. QED
  BY <1>8, <1>10, <1>11, <1>12 DEF ExpiryInv

\* What the task knows of the VM of an entity it holds.
LEMMA ListedSlot ==
    ASSUME ExpiryInv, NEW s \in Servers, list[s] # None, list[s].ext # None
    PROVE  /\ TaskSlot(s) = Target(s) /\ TaskSlot(s) \in Slots
           /\ vms[TaskSlot(s)] # None => /\ vms[TaskSlot(s)] \in VM
                                         /\ Distinct(s) => OwnVm(s)
<1>1. /\ db[s] # None /\ RowOf(s, list[s]) /\ ent[s] # None /\ EntityInv(s) /\ TypeOK /\ PlacementInv
  BY DEF ExpiryInv, ListInv, OpsInv, OpsTypeOK, ServerInv
<1>2. list[s].ext = VmidOf[s] /\ list[s].host = ent[s].host
  BY <1>1 DEF RowOf, EntityInv
<1>3. TaskSlot(s) = Target(s) /\ Target(s) \in Slots
  BY <1>1, <1>2, TargetIsSlot DEF TaskSlot, Target, SlotOf
<1>4. ASSUME vms[TaskSlot(s)] # None PROVE vms[TaskSlot(s)] \in VM /\ (Distinct(s) => OwnVm(s))
  <2>1. vms[TaskSlot(s)] \in VM
    BY <1>1, <1>3, <1>4 DEF TypeOK, StoreTypeOK
  <2>2. vms[TaskSlot(s)].owner \in Servers /\ TaskSlot(s) = Target(vms[TaskSlot(s)].owner)
    BY <1>1, <1>3, <1>4, <2>1 DEF PlacementInv, VM
  <2>3. Distinct(s) => vms[TaskSlot(s)].owner = s
    BY <1>3, <2>2 DEF Distinct, Target, SlotOf
  <2>4. QED
    BY <1>3, <1>4, <2>1, <2>3 DEF OwnVm
<1>5. QED
  BY <1>3, <1>4

\* A decision that moves nothing but the task's own state and the reminder.
LEMMA QuietDecision ==
    ASSUME ExpiryInv, NEW s \in Servers, NEW status \in Statuses, NEW step \in TaskSaves,
           Decide(s, status, step), list[s] # None, UNCHANGED allVars,
           warned' \in [Servers -> {"not yet", "reminded", "missed"}],
           \A t \in Servers : warned'[t] = "not yet" => warned[t] = "not yet",
           task \in Reminding <=> step = "noting",
           step = "noting" => warned'[s] # "not yet",
           list[s].ext # None /\ status \notin {"failed", "rolled_back"} => Published(list[s])
    PROVE  ExpiryInv'
<1>1. OpsInv' /\ (Orderly => SerialInv') /\ UNCHANGED <<db, pc, ent, op, at, copy, vms>>
  BY StoreStill
<1>2. \A t \in Servers : OwnVm(t) => OwnVm(t)'
  BY <1>1 DEF OwnVm, Target, SlotOf
<1>3. QED
  BY <1>1, <1>2, DecideKeeps

\* An owner is reminded.
LEMMA RemindKeeps ==
    ASSUME ExpiryInv, NEW s \in Servers, Remind(s)
    PROVE  ExpiryInv'
<1>1. /\ task = "reminding" /\ list[s] # None /\ Decide(s, list[s].status, "noting")
      /\ warned' = [warned EXCEPT ![s] = "reminded"] /\ UNCHANGED allVars
  BY DEF Remind
<1>2. /\ warned \in [Servers -> {"not yet", "reminded", "missed"}]
      /\ list[s].status \in Statuses
  BY <1>1, ExpiryTypes DEF ExpiryInv, ExpiryTypeOK, Row
<1>3. /\ warned' \in [Servers -> {"not yet", "reminded", "missed"}]
      /\ \A t \in Servers : warned'[t] = "not yet" => warned[t] = "not yet"
      /\ warned'[s] # "not yet"
  BY <1>1, <1>2
<1>4. task \in Reminding /\ "noting" \in TaskSaves
  BY <1>1 DEF Reminding, TaskSaves
<1>5. list[s].ext # None /\ list[s].status \notin {"failed", "rolled_back"} => Published(list[s])
  BY <1>1 DEF Published
<1>6. QED
  BY <1>1, <1>2, <1>3, <1>4, <1>5, QuietDecision

\* A server is dealt with and no VM was touched: it has none, its host is
\* gone, or Proxmox failed.
LEMMA QuietStopKeeps ==
    ASSUME ExpiryInv, NEW s \in Servers, NothingToStop(s) \/ HostGone(s) \/ StopFails(s)
    PROVE  ExpiryInv'
<1>1. /\ task = "stopping" /\ list[s] # None /\ UNCHANGED allVars /\ UNCHANGED warned
      /\ \/ Decide(s, "stopped", "saving") /\ list[s].ext = None
         \/ Decide(s, "failed", "saving")
         \/ Decide(s, "failed", "resaving")
  BY DEF NothingToStop, HostGone, StopFails
<1>2. /\ warned' \in [Servers -> {"not yet", "reminded", "missed"}]
      /\ \A t \in Servers : warned'[t] = "not yet" => warned[t] = "not yet"
  BY <1>1 DEF ExpiryInv, ExpiryTypeOK
<1>3. /\ task \notin Reminding /\ "saving" \in TaskSaves /\ "resaving" \in TaskSaves
      /\ "stopped" \in Statuses /\ "failed" \in Statuses
  BY <1>1 DEF Reminding, TaskSaves, Statuses
<1>4. CASE Decide(s, "stopped", "saving") /\ list[s].ext = None
  BY <1>1, <1>2, <1>3, <1>4, QuietDecision
<1>5. CASE Decide(s, "failed", "saving")
  BY <1>1, <1>2, <1>3, <1>5, QuietDecision
<1>6. CASE Decide(s, "failed", "resaving")
  BY <1>1, <1>2, <1>3, <1>6, QuietDecision
<1>7. QED
  BY <1>1, <1>4, <1>5, <1>6

\* A save of the stopping pass fails and is followed by one that says
\* FAILED.
LEMMA SaveCaughtKeeps ==
    ASSUME ExpiryInv, SaveCaught
    PROVE  ExpiryInv'
<1>1. task = "saving" /\ Decide(cur, "failed", "resaving") /\ UNCHANGED allVars /\ UNCHANGED warned
  BY DEF SaveCaught
<1>2. cur \in Servers /\ list[cur] # None
  BY <1>1 DEF ExpiryInv, ExpiryTypeOK, CurInv, TaskSaves
<1>3. /\ warned' \in [Servers -> {"not yet", "reminded", "missed"}]
      /\ \A t \in Servers : warned'[t] = "not yet" => warned[t] = "not yet"
  BY <1>1 DEF ExpiryInv, ExpiryTypeOK
<1>4. task \notin Reminding /\ "resaving" \in TaskSaves /\ "failed" \in Statuses
  BY <1>1 DEF Reminding, TaskSaves, Statuses
<1>5. QED
  BY <1>1, <1>2, <1>3, <1>4, QuietDecision

\* A VM is stopped: a server whose identifier is its own has its VM where
\* the list says.
LEMMA StopVmKeeps ==
    ASSUME ExpiryInv, NEW s \in Servers, StopVm(s)
    PROVE  ExpiryInv'
<1>1. /\ task = "stopping" /\ list[s] # None /\ list[s].ext # None /\ vms[TaskSlot(s)] # None
      /\ Decide(s, "stopped", "saving") /\ UNCHANGED <<db, hosts, sagaVars, opVars, warned>>
      /\ OpsInv
  BY DEF StopVm, ExpiryInv
<1>2. PICK run \in {vms[TaskSlot(s)].run, "stopped"} :
         vms' = [vms EXCEPT ![TaskSlot(s)] = WithRun(vms[TaskSlot(s)], run)]
  BY DEF StopVm
<1>3. /\ TaskSlot(s) \in Slots /\ vms[TaskSlot(s)] \in VM /\ (Distinct(s) => OwnVm(s))
      /\ vms \in [Slots -> VM \cup {None}] /\ vms[TaskSlot(s)].run \in RunStates
  BY <1>1, ListedSlot DEF OpsInv, OpsTypeOK, TypeOK, StoreTypeOK, VM
<1>4. vms' = vms \/ Drift(TaskSlot(s), run)
  <2>1. CASE run = vms[TaskSlot(s)].run
    <3>1. WithRun(vms[TaskSlot(s)], run) = vms[TaskSlot(s)]
      BY <1>3, <2>1 DEF WithRun, VM
    <3>2. QED
      BY <1>2, <1>3, <3>1
  <2>2. CASE run # vms[TaskSlot(s)].run
    BY <1>1, <1>2, <2>2 DEF Drift
  <2>3. QED
    BY <2>1, <2>2
<1>5. OpsInv' /\ (Orderly => SerialInv')
  <2>1. CASE vms' = vms
    <3>1. UNCHANGED allVars
      BY <1>1, <2>1 DEF allVars, vars, storeVars
    <3>2. QED
      BY <3>1, StoreStill
  <2>2. CASE Drift(TaskSlot(s), run)
    <3>1. run \in RunStates
      BY <1>3 DEF RunStates
    <3>2. QED
      BY <1>1, <1>3, <2>2, <3>1, DriftOps, DriftSerial DEF ExpiryInv, OrderlyInv
  <2>3. QED
    BY <1>4, <2>1, <2>2
<1>6. UNCHANGED <<db, pc, ent, op, at, copy, warned>>
  BY <1>1 DEF sagaVars, opVars
<1>7. ASSUME NEW t \in Servers, OwnVm(t), db[t] # None PROVE OwnVm(t)'
  <2>1. Target(t) \in Slots /\ Target(t)' = Target(t)
    BY <1>1, <1>6, <1>7, TargetIsSlot DEF OpsInv, OpsTypeOK, ServerInv, Target, SlotOf
  <2>2. vms'[Target(t)] # None /\ vms'[Target(t)].owner = vms[Target(t)].owner
    <3>1. run \in RunStates
      BY <1>3 DEF RunStates
    <3>2. PICK vm : vm = WithRun(vms[TaskSlot(s)], run)
      OBVIOUS
    <3>3. vm \in VM /\ vm # None /\ vm.owner = vms[TaskSlot(s)].owner
      BY <1>3, <3>1, <3>2, VmAssignments, NoneAssumption
    <3>4. QED
      BY <1>2, <1>3, <1>7, <2>1, <3>2, <3>3 DEF OwnVm
  <2>3. QED
    BY <1>7, <2>1, <2>2 DEF OwnVm
<1>8. /\ warned' \in [Servers -> {"not yet", "reminded", "missed"}]
      /\ \A t \in Servers : warned'[t] = "not yet" => warned[t] = "not yet"
  BY <1>1 DEF ExpiryInv, ExpiryTypeOK
<1>9. task \notin Reminding /\ "saving" \in TaskSaves /\ "stopped" \in Statuses
  BY <1>1 DEF Reminding, TaskSaves, Statuses
<1>10. QED
  BY <1>1, <1>3, <1>5, <1>6, <1>7, <1>8, <1>9, DecideKeeps

\* An owner that is not found is not reminded.
LEMMA OwnerUnknownKeeps ==
    ASSUME ExpiryInv, NEW s \in Servers, OwnerUnknown(s)
    PROVE  ExpiryInv'
<1>1. /\ task = "reminding" /\ list' = [list EXCEPT ![s] = None] /\ warned' = Missed({s})
      /\ UNCHANGED allVars /\ UNCHANGED <<age, calm, task, cur, tsess>>
  BY DEF OwnerUnknown
<1>2. /\ OpsInv' /\ (Orderly => SerialInv') /\ OpsInv
      /\ UNCHANGED <<db, vms, hosts, pc, ent, op, at, copy, sess, granted, billed>>
  BY <1>1, StoreStill DEF ExpiryInv
<1>3. /\ warned' \in [Servers -> {"not yet", "reminded", "missed"}]
      /\ \A t \in Servers : warned'[t] = "not yet" => warned[t] = "not yet" /\ t # s
  BY <1>1, MissedNights
<1>4. /\ list \in [Servers -> Row \cup {None}] /\ cur = None /\ tsess = None
  BY <1>1 DEF ExpiryInv, ExpiryTypeOK, CurInv, TaskSaves
<1>5. list'[s] = None /\ \A t \in Servers : t # s => list'[t] = list[t]
  BY <1>1, <1>4
<1>6. list' \in [Servers -> Row \cup {None}]
  BY <1>1, <1>4
<1>7. ExpiryTypeOK' /\ CurInv'
  BY <1>1, <1>2, <1>3, <1>4, <1>6 DEF ExpiryInv, ExpiryTypeOK, OpsInv, CurInv
<1>8. ASSUME NEW t \in Servers PROVE ListInv(t)' /\ DaysInv(t)'
  <2>1. ListInv(t) /\ DaysInv(t)
    BY DEF ExpiryInv
  <2>2. QED
    BY <1>1, <1>2, <1>5, <2>1 DEF ListInv, DaysInv, RowOf, Distinct, Ample, Active, Srv
<1>9. ASSUME Orderly PROVE OrderlyInv'
  <2>1. OrderlyInv /\ SerialInv'
    BY <1>2, <1>9 DEF ExpiryInv
  <2>2. (Awake => Idle)'
    BY <1>1, <1>2, <2>1 DEF OrderlyInv, Awake, Idle, Busy, Active, InFlight
  <2>3. ASSUME NEW t \in Servers PROVE OrderlyList(t)'
    <3>1. OrderlyList(t) /\ (OwnVm(t)' <=> OwnVm(t))
      BY <1>2, <2>1 DEF OrderlyInv, OwnVm, Target, SlotOf
    <3>2. QED
      BY <1>1, <1>2, <1>5, <3>1 DEF OrderlyList, Distinct, Published
  <2>4. ASSUME NEW t \in Servers PROVE OrderlyWarned(t)'
    <3>1. OrderlyWarned(t)
      BY <2>1 DEF OrderlyInv
    <3>2. QED
      BY <1>1, <1>2, <1>3, <1>5, <3>1, Zenon DEF OrderlyWarned
  <2>5. QED
    BY <1>1, <1>4, <2>1, <2>2, <2>3, <2>4 DEF OrderlyInv
<1>10. Orderly' => Orderly
  BY <1>1 DEF Orderly
<1>11. QED
  BY <1>2, <1>7, <1>8, <1>9, <1>10 DEF ExpiryInv

(***************************************************************************)
(* The task's saves                                                        *)
(***************************************************************************)

\* The session of a save loads the row.
LEMMA TaskOpensKeeps ==
    ASSUME ExpiryInv, TaskOpens
    PROVE  ExpiryInv'
<1>1. /\ task \in TaskSaves /\ tsess' = db[cur] /\ UNCHANGED allVars
      /\ UNCHANGED <<task, list, cur, warned, age, calm>>
  BY DEF TaskOpens
<1>2. /\ OpsInv' /\ (Orderly => SerialInv') /\ OpsInv
      /\ UNCHANGED <<db, vms, hosts, pc, ent, op, at, copy, sess, granted, billed>>
  BY <1>1, StoreStill DEF ExpiryInv
<1>3. cur \in Servers /\ cur # None /\ list[cur] # None
  BY <1>1 DEF ExpiryInv, ExpiryTypeOK, CurInv
<1>4. db[cur] \in Row /\ db[cur] # None
  BY <1>3, ExpiryTypes DEF ExpiryInv, ListInv
<1>5. ExpiryTypeOK' /\ CurInv'
  BY <1>1, <1>2, <1>3, <1>4 DEF ExpiryInv, ExpiryTypeOK, OpsInv, CurInv
<1>6. ASSUME NEW t \in Servers PROVE ListInv(t)' /\ DaysInv(t)'
  <2>1. ListInv(t) /\ DaysInv(t)
    BY DEF ExpiryInv
  <2>2. QED
    BY <1>1, <1>2, <2>1 DEF ListInv, DaysInv, RowOf, Distinct, Ample, Active, Srv
<1>7. ASSUME Orderly PROVE OrderlyInv'
  <2>1. OrderlyInv /\ SerialInv'
    BY <1>2, <1>7 DEF ExpiryInv
  <2>2. (Awake => Idle)'
    BY <1>1, <1>2, <2>1 DEF OrderlyInv, Awake, Idle, Busy, Active, InFlight
  <2>3. ASSUME NEW t \in Servers PROVE OrderlyList(t)' /\ OrderlyWarned(t)'
    <3>1. OrderlyList(t) /\ OrderlyWarned(t) /\ (OwnVm(t)' <=> OwnVm(t))
      BY <1>2, <2>1 DEF OrderlyInv, OwnVm, Target, SlotOf
    <3>2. QED
      BY <1>1, <1>2, <3>1 DEF OrderlyList, OrderlyWarned, Distinct, Published
  <2>4. /\ tsess' = db'[cur']
        /\ task' = "noting" => warned'[cur'] # "not yet"
    BY <1>1, <1>2, <2>1 DEF OrderlyInv
  <2>5. QED
    BY <2>1, <2>2, <2>3, <2>4 DEF OrderlyInv
<1>8. Orderly' => Orderly
  BY <1>1 DEF Orderly
<1>9. QED
  BY <1>2, <1>5, <1>6, <1>7, <1>8 DEF ExpiryInv

\* The commit of the task's save, which touches one row only.
LEMMA TaskCommitWrites ==
    ASSUME ExpiryInv, NEW s \in Servers, TaskCommits, s = cur
    PROVE  /\ list[s] \in Row /\ list[s] # None /\ db[s] \in Row /\ db[s] # None /\ tsess \in Row
           /\ db'[s] = Flush(db[s], tsess, list[s])
           /\ db'[s] \in Row /\ db'[s] # None /\ RowOf(s, db'[s])
           /\ db'[s].days \in {db[s].days, list[s].days}
           /\ Distinct(s) => Ample(db'[s])
           /\ \A t \in Servers : t # s => db'[t] = db[t]
           /\ db' \in [Servers -> Row \cup {None}]
<1>1. list[s] # None /\ tsess # None /\ db' = [db EXCEPT ![s] = Flush(db[s], tsess, list[s])]
  BY DEF TaskCommits, ExpiryInv, ExpiryTypeOK, CurInv
<1>2. /\ list[s] \in Row /\ db[s] \in Row /\ db[s] # None /\ tsess \in Row
      /\ RowOf(s, list[s]) /\ (Distinct(s) => Ample(list[s]))
      /\ RowOf(s, db[s]) /\ (Distinct(s) => Ample(db[s]))
      /\ db \in [Servers -> Row \cup {None}]
  BY <1>1, ExpiryTypes, FreshRow
  DEF ExpiryInv, ListInv, OpsInv, OpsTypeOK, TypeOK, StoreTypeOK
<1>3. PICK f : f = Flush(db[s], tsess, list[s])
  OBVIOUS
<1>4. /\ f \in Row
      /\ f.host \in {db[s].host, list[s].host} /\ f.ext \in {db[s].ext, list[s].ext}
      /\ f.cpu \in {db[s].cpu, list[s].cpu} /\ f.disk \in {db[s].disk, list[s].disk}
      /\ f.days \in {db[s].days, list[s].days}
  BY <1>2, <1>3, FlushIsRow, FlushDays
<1>5. f # None /\ RowOf(s, f) /\ (Distinct(s) => Ample(f))
  BY <1>2, <1>4, NoneAssumption DEF RowOf, Ample
<1>6. db' = [db EXCEPT ![s] = f]
  BY <1>1, <1>3
<1>7. db'[s] = f /\ db' \in [Servers -> Row \cup {None}] /\ \A t \in Servers : t # s => db'[t] = db[t]
  BY <1>2, <1>4, <1>6
<1>8. (UNCHANGED ent) /\ (RowOf(s, f)' <=> RowOf(s, f))
  BY DEF TaskCommits, sagaVars, RowOf
<1>9. QED
  BY <1>1, <1>2, <1>3, <1>4, <1>5, <1>7

\* A save of the task is one of the saves OpsInv allows for: of a row of
\* this server.
LEMMA TaskCommitsOps ==
    ASSUME ExpiryInv, NEW s \in Servers, TaskCommits, s = cur
    PROVE  OpsInv'
<1>1. /\ UNCHANGED <<hosts, vms, pc, ent, loaded, late, op, at, copy, sess, billed, granted>>
      /\ OpsInv
  BY DEF TaskCommits, sagaVars, opVars, ExpiryInv
<1>2. /\ db[s] # None /\ db'[s] # None /\ RowOf(s, db'[s]) /\ (Distinct(s) => Ample(db'[s]))
      /\ \A t \in Servers : t # s => db'[t] = db[t]
      /\ db' \in [Servers -> Row \cup {None}]
  BY TaskCommitWrites
<1>3. StoreMoves
  BY <1>1, <1>2 DEF StoreMoves
<1>4. OpsTypeOK'
  BY <1>1, <1>2 DEF OpsInv, OpsTypeOK, TypeOK, StoreTypeOK
<1>5. \A o \in Ops : HandlerInv(o)'
  BY <1>1, <1>3, StoreHandlers
<1>6. ASSUME NEW t \in Servers PROVE SizesInv(t)'
  <2>1. SizesInv(t) /\ (OwnVm(t)' <=> OwnVm(t)) /\ Target(t)' = Target(t)
    BY <1>1 DEF OpsInv, OwnVm, Target, SlotOf
  <2>2. Distinct(t) /\ db'[t] # None => Ample(db'[t])
    BY <1>2, <2>1 DEF SizesInv
  <2>3. QED
    BY <1>1, <2>1, <2>2 DEF SizesInv, Distinct, Ample, Active, Srv
<1>7. QED
  BY <1>1, <1>3, <1>4, <1>5, <1>6, StoreFrame DEF OpsInv

\* In an orderly history the save changes the status alone.
LEMMA TaskCommitsSerial ==
    ASSUME ExpiryInv, Orderly, NEW s \in Servers, TaskCommits, s = cur
    PROVE  SerialInv' /\ db'[s] = list[s] /\ list[s].days = db[s].days
<1>1. /\ UNCHANGED <<hosts, vms, pc, ent, loaded, late, op, at, copy, sess, billed, granted>>
      /\ OpsInv /\ OrderlyInv /\ SerialInv /\ tsess = db[s] /\ task \in TaskSaves
  BY DEF TaskCommits, sagaVars, opVars, ExpiryInv, OrderlyInv
<1>2. /\ list[s] \in Row /\ list[s] # None /\ db[s] \in Row /\ db[s] # None
      /\ db'[s] = Flush(db[s], tsess, list[s])
      /\ \A t \in Servers : t # s => db'[t] = db[t]
  BY TaskCommitWrites
<1>3. db'[s] = list[s]
  BY <1>1, <1>2, FlushUnchanged
<1>4. /\ list[s].ext = db[s].ext /\ list[s].cpu = db[s].cpu /\ list[s].disk = db[s].disk
      /\ list[s].days = db[s].days /\ (Distinct(s) /\ Published(list[s]) => OwnVm(s))
  BY <1>1, <1>2 DEF OrderlyInv, OrderlyList
<1>5. Idle
  <2>1. Awake
    BY <1>1 DEF Awake, TaskSaves, Reminding, Stopping
  <2>2. QED
    BY <1>1, <2>1 DEF OrderlyInv
<1>6. Active = {} /\ Active' = {} /\ \A t \in Servers : pc[t] \in {"new"} \cup Ends
  BY <1>1, <1>5 DEF Idle, Busy, InFlight, Active, Steps
<1>7. pc[s] \in Ends /\ loaded[s] = None
  <2>1. pc[s] # "new"
    BY <1>1, <1>2 DEF OpsInv, ServerInv
  <2>2. pc[s] \notin Saves
    BY <1>6 DEF Ends, Saves
  <2>3. QED
    BY <1>1, <1>6, <2>1, <2>2 DEF SerialInv, SoloInv
<1>8. ASSUME NEW t \in Servers PROVE SoloInv(t)'
  <2>1. SoloInv(t)
    BY <1>1 DEF SerialInv
  <2>2. CASE t # s
    BY <1>1, <1>2, <1>6, <2>1, <2>2 DEF SoloInv
  <2>3. CASE t = s
    <3>1. pc[s] \notin Building
      BY <1>7 DEF Ends, Building
    <3>2. db'[s].days = PlanDays + granted'[s]
      BY <1>1, <1>2, <1>3, <1>4, <2>1, <2>3 DEF SoloInv
    <3>3. ent'[s] # None => ent'[s].days = PlanDays
      BY <1>1, <2>1, <2>3 DEF SoloInv
    <3>4. QED
      BY <1>1, <1>6, <1>7, <2>3, <3>1, <3>2, <3>3 DEF SoloInv
  <2>4. QED
    BY <2>2, <2>3
<1>9. ASSUME NEW t \in Servers, Distinct(t) PROVE DeliveredInv(t)'
  <2>1. /\ DeliveredInv(t) /\ (OwnVm(t)' <=> OwnVm(t)) /\ Target(t)' = Target(t)
    BY <1>1, <1>9 DEF SerialInv, OwnVm, Target, SlotOf
  <2>2. CASE t # s
    BY <1>1, <1>2, <1>6, <2>1, <2>2 DEF DeliveredInv, Published
  <2>3. CASE t = s
    <3>1. Reached(db'[s], billed'[s])
      BY <1>1, <1>2, <1>3, <1>4, <2>1, <2>3 DEF DeliveredInv, Reached
    <3>2. ent[s].ext # None /\ OwnVm(s) => Within(db'[s], vms[Target(s)])
      BY <1>2, <1>3, <1>4, <2>1, <2>3 DEF DeliveredInv, Within
    <3>3. Published(db'[s]) => OwnVm(s)'
      BY <1>3, <1>4, <1>9, <2>1, <2>3
    <3>4. QED
      BY <1>1, <1>2, <1>3, <1>4, <1>6, <2>1, <2>3, <3>1, <3>2, <3>3 DEF DeliveredInv
  <2>4. QED
    BY <2>2, <2>3
<1>10. ASSUME NEW o \in Ops PROVE CurrentInv(o)'
  <2>1. sess[o] = None
    BY <1>1, <1>6 DEF SerialInv, CurrentInv, Active, Steps
  <2>2. QED
    BY <1>1, <1>6, <2>1 DEF CurrentInv
<1>11. LateDestroyInv'
  <2> SUFFICES ASSUME NEW r \in late, r[1] = "destroy" PROVE db'[r[2]].ext = None
    BY <1>1 DEF LateDestroyInv
  <2>1. db[r[2]].ext = None /\ r[2] \in Servers
    BY <1>1 DEF SerialInv, LateDestroyInv, OpsInv, OpsTypeOK, TypeOK, Requests
  <2>2. QED
    BY <1>2, <1>3, <1>4, <2>1
<1>12. QED
  BY <1>3, <1>4, <1>8, <1>9, <1>10, <1>11 DEF SerialInv, Distinct

\* A save of the task commits.
LEMMA TaskCommitsKeeps ==
    ASSUME ExpiryInv, TaskCommits
    PROVE  ExpiryInv'
<1>1. /\ task \in TaskSaves /\ cur' = None /\ tsess' = None
      /\ task' = (IF task = "noting" THEN "reminding" ELSE "stopping")
      /\ list' = [list EXCEPT ![cur] = None] /\ OpsInv
      /\ UNCHANGED <<vms, pc, ent, op, at, copy, granted, warned, age, calm>>
  BY DEF TaskCommits, Proceed, sagaVars, opVars, ExpiryInv
<1>2. PICK s \in Servers : s = cur
  BY <1>1 DEF ExpiryInv, ExpiryTypeOK
<1>3. OpsInv' /\ (Orderly => SerialInv' /\ db'[s] = list[s] /\ list[s].days = db[s].days)
  BY <1>2, TaskCommitsOps, TaskCommitsSerial
<1>4. /\ db[s] # None /\ list[s] # None /\ db'[s] # None /\ db'[s].days \in {db[s].days, list[s].days}
      /\ \A t \in Servers : t # s => db'[t] = db[t]
  BY <1>2, TaskCommitWrites
<1>5. list \in [Servers -> Row \cup {None}]
  BY DEF ExpiryInv, ExpiryTypeOK
<1>6. list'[s] = None /\ \A t \in Servers : t # s => list'[t] = list[t]
  BY <1>1, <1>2, <1>5
<1>7. list' \in [Servers -> Row \cup {None}]
  BY <1>1, <1>5
<1>8. /\ task' \in Holding \ TaskSaves /\ task' # "notify" /\ task' # "stop_expired"
      /\ task' \in Stopping <=> task \in Stopping
      /\ task' \in Reminding <=> task \in Reminding
      /\ task' \in TaskStates
  BY <1>1 DEF Holding, TaskSaves, TaskStates, Stopping, Reminding
<1>9. ExpiryTypeOK' /\ CurInv'
  BY <1>1, <1>3, <1>7, <1>8 DEF ExpiryInv, ExpiryTypeOK, OpsInv, CurInv, TaskStates
<1>10. ASSUME NEW t \in Servers PROVE ListInv(t)' /\ DaysInv(t)'
  <2>1. ListInv(t) /\ DaysInv(t)
    BY DEF ExpiryInv
  <2>2. CASE t = s
    <3>1. db[s].days >= PlanDays /\ list[s].days >= PlanDays
      BY <1>4, <2>1, <2>2 DEF DaysInv
    <3>2. db'[s].days >= PlanDays
      BY <1>4, <3>1
    <3>3. QED
      BY <1>1, <1>6, <2>1, <2>2, <3>2 DEF ListInv, DaysInv, Active, Srv
  <2>3. CASE t # s
    <3>1. db'[t] = db[t] /\ list'[t] = list[t]
      BY <1>4, <1>6, <2>3
    <3>2. DaysInv(t)'
      BY <1>1, <2>1, <3>1 DEF DaysInv, Active, Srv
    <3>3. list[t] # None => task' \in (Reminding \cup Stopping) \ {"notify", "stop_expired"}
      BY <1>8 DEF Holding, Reminding, Stopping
    <3>4. ListInv(t)'
      BY <1>1, <1>8, <2>1, <3>1, <3>3 DEF ListInv, RowOf, Distinct, Ample
    <3>5. QED
      BY <3>2, <3>4
  <2>4. QED
    BY <2>2, <2>3
<1>11. ASSUME Orderly PROVE OrderlyInv'
  <2>1. OrderlyInv /\ SerialInv' /\ Awake
    BY <1>1, <1>3, <1>11 DEF ExpiryInv, Awake, TaskSaves, Reminding, Stopping
  <2>2. Idle'
    BY <1>1, <2>1 DEF OrderlyInv, Idle, Busy, Active, InFlight
  <2>3. ASSUME NEW t \in Servers PROVE OrderlyList(t)'
    <3>1. OrderlyList(t) /\ (OwnVm(t)' <=> OwnVm(t))
      BY <1>1, <2>1 DEF OrderlyInv, OwnVm, Target, SlotOf
    <3>2. CASE t = s
      BY <1>6, <3>2 DEF OrderlyList
    <3>3. CASE t # s
      <4>1. db'[t] = db[t] /\ list'[t] = list[t]
        BY <1>4, <1>6, <3>3
      <4>2. QED
        BY <1>1, <1>8, <3>1, <4>1 DEF OrderlyList, Distinct, Published
    <3>4. QED
      BY <3>2, <3>3
  <2>4. ASSUME NEW t \in Servers PROVE OrderlyWarned(t)'
    <3>1. OrderlyWarned(t)
      BY <2>1 DEF OrderlyInv
    <3>2. db'[t] # None => db[t] # None /\ db'[t].days = db[t].days
      BY <1>3, <1>4, <1>11
    <3>3. task = "noting" => warned[s] # "not yet"
      BY <1>2, <2>1 DEF OrderlyInv
    <3>4. task # "notify" /\ (task \in Reminding => task = "noting")
      BY <1>1 DEF TaskSaves, Reminding
    <3>5. QED
      BY <1>1, <1>6, <1>8, <3>1, <3>2, <3>3, <3>4, Zenon DEF OrderlyWarned
  <2>5. task' # "noting"
    BY <1>1
  <2>6. QED
    BY <1>1, <2>1, <2>2, <2>3, <2>4, <2>5 DEF OrderlyInv
<1>12. Orderly' => Orderly
  BY <1>1 DEF Orderly
<1>13. QED
  BY <1>3, <1>9, <1>10, <1>11, <1>12 DEF ExpiryInv

(***************************************************************************)
(* The specification                                                       *)
(***************************************************************************)

\* Arithmetic on two days.
LEMMA NotLess ==
    ASSUME NEW a \in Nat, NEW d \in Nat, a > d PROVE ~(a <= d)
OBVIOUS

\* Before the first order there is nothing to hold.
LEMMA ExpiryInitInv == ExpiryInit => ExpiryInv
<1> SUFFICES ASSUME ExpiryInit PROVE ExpiryInv
  OBVIOUS
<1>1. OpsInv /\ SerialInv
  BY OpsInitInv, SerialInitInv DEF ExpiryInit
<1>2. /\ age = [s \in Servers |-> 0] /\ task \in {"asleep", "dead"} /\ list = Nothing
      /\ cur = None /\ tsess = None /\ warned = [s \in Servers |-> "not yet"] /\ calm = TRUE
  BY DEF ExpiryInit, Started
<1>3. /\ db = [s \in Servers |-> None] /\ ent = [s \in Servers |-> None] /\ Active = {}
  BY DEF ExpiryInit, OpsInit, Init, StoreInit, Active, Steps
<1>4. AgeCap \in Nat \ {0}
  BY AgeCapAssumption
<1>5. ExpiryTypeOK /\ CurInv /\ ~Awake
  <2>1. ~Awake /\ task \notin TaskSaves
    BY <1>2 DEF Awake, TaskSaves, Reminding, Stopping
  <2>2. age \in [Servers -> 0..AgeCap]
    <3>1. 0 \in 0..AgeCap
      BY <1>4
    <3>2. age = [s \in Servers |-> 0]
      BY <1>2
    <3>3. QED
      BY <3>1, <3>2, Zenon
  <2>3. list \in [Servers -> Row \cup {None}]
    BY <1>2, Zenon DEF Nothing
  <2>4. warned \in [Servers -> {"not yet", "reminded", "missed"}]
    BY <1>2, Zenon
  <2>5. task \in {"asleep", "dead", "down"} \cup Reminding \cup Stopping
    BY <1>2, Zenon
  <2>6. cur = None /\ tsess = None /\ calm \in BOOLEAN
    BY <1>2, Zenon
  <2>7. OpsTypeOK
    BY <1>1 DEF OpsInv
  <2>8. CurInv
    BY <2>6 DEF CurInv
  <2>9. QED
    BY <2>1, <2>2, <2>3, <2>4, <2>5, <2>6, <2>7, <2>8, Zenon DEF ExpiryTypeOK
<1>6. ASSUME NEW s \in Servers
      PROVE  ListInv(s) /\ DaysInv(s) /\ OrderlyList(s) /\ OrderlyWarned(s)
  BY <1>2, <1>3 DEF Nothing, ListInv, DaysInv, OrderlyList, OrderlyWarned
<1>7. OrderlyInv
  BY <1>1, <1>2, <1>5, <1>6 DEF OrderlyInv
<1>8. QED
  BY <1>1, <1>5, <1>6, <1>7 DEF ExpiryInv

\* All steps of the task.
LEMMA WorkerKeeps ==
    ASSUME ExpiryInv, WorkerStep
    PROVE  ExpiryInv'
<1>1. CASE QueryExpiring \/ AllReminded \/ QueryExpired \/ AllStopped
  BY <1>1, QueriesKeep
<1>2. ASSUME NEW s \in Servers, Remind(s) \/ OwnerUnknown(s) PROVE ExpiryInv'
  BY <1>2, RemindKeeps, OwnerUnknownKeeps
<1>3. ASSUME NEW s \in Servers, NothingToStop(s) \/ HostGone(s) \/ StopVm(s) \/ StopFails(s)
      PROVE  ExpiryInv'
  BY <1>3, QuietStopKeeps, StopVmKeeps
<1>4. CASE TaskOpens \/ TaskCommits \/ SaveCaught \/ TaskRaises
  BY <1>4, TaskOpensKeeps, TaskCommitsKeeps, SaveCaughtKeeps, TaskRaisesKeeps
<1>5. QED
  BY <1>1, <1>2, <1>3, <1>4 DEF WorkerStep

\* A step of somebody outside.
LEMMA EveryVarStill ==
    ASSUME ExpiryInv, UNCHANGED everyVar
    PROVE  ExpiryInv'
<1>1. UNCHANGED allVars /\ UNCHANGED expiryVars /\ UNCHANGED <<age, calm, workerVars>>
      /\ UNCHANGED <<task, list, cur, tsess, warned>>
  BY DEF everyVar, expiryVars, workerVars
<1>2. /\ OpsInv' /\ (Orderly => SerialInv') /\ UNCHANGED opVars
      /\ UNCHANGED <<db, vms, hosts, pc, ent, op, at, copy, sess, granted, billed>>
  BY <1>1, StoreStill DEF allVars
<1>3. Orderly => OrderlyInv'
  <2>1. \A s \in Servers : OwnVm(s) => OwnVm(s)'
    BY <1>2 DEF OwnVm, Target, SlotOf
  <2>2. QED
    BY <1>1, <1>2, <2>1, OthersOrderly
<1>4. RowsStay /\ warned' \in [Servers -> {"not yet", "reminded", "missed"}]
  BY <1>1, <1>2 DEF RowsStay, ExpiryInv, ExpiryTypeOK
<1>5. \A t \in Servers : /\ ent'[t] # None => ent'[t].days = PlanDays
                         /\ db'[t] # None => db'[t].days >= PlanDays
  BY <1>2 DEF ExpiryInv, DaysInv
<1>6. \A o \in Active' : Srv(o)' \in Servers => copy'[o].days >= PlanDays
  BY <1>2 DEF ExpiryInv, DaysInv, Active, Srv
<1>7. QED
  BY <1>1, <1>2, <1>3, <1>4, <1>5, <1>6, LeftAloneKeeps

\* Every step of the whole.
LEMMA ExpiryNextKeeps == ExpiryInv /\ [ExpiryNext]_everyVar => ExpiryInv'
<1> SUFFICES ASSUME ExpiryInv, [ExpiryNext]_everyVar PROVE ExpiryInv'
  OBVIOUS
<1>1. CASE Midnight
  BY <1>1, MidnightKeeps
<1>2. CASE WorkerStep
  BY <1>2, WorkerKeeps
<1>3. CASE Accepts
  BY <1>3, ResolveKeepsWorker, BeginExtendKeeps, BeginOnVmKeeps DEF Accepts, NewRequest
<1>4. ASSUME NEW o \in Ops, Handler(o) PROVE ExpiryInv'
  BY <1>4, HandlerKeeps
<1>5. ASSUME NEW s \in Servers, Saga(s) PROVE ExpiryInv'
  BY <1>5, SagaKeeps
<1>6. CASE Others /\ UNCHANGED <<opVars, expiryVars>>
  BY <1>6, OthersKeep
<1>7. ASSUME NEW sent \in SUBSET Unanswered, ProcessDies(sent) PROVE ExpiryInv'
  BY <1>7, ProcessDiesKeeps
<1>8. CASE Restart
  BY <1>8, QueriesKeep
<1>9. CASE UNCHANGED everyVar
  BY <1>9, EveryVarStill
<1>10. QED
  BY <1>1, <1>2, <1>3, <1>4, <1>5, <1>6, <1>7, <1>8, <1>9 DEF ExpiryNext

\* The inductive invariant of the whole: requests, sagas, admins, the nightly
\* task, its failures, crashes and restarts, in every order.
THEOREM ExpiryInvariant == ExpirySpec => []ExpiryInv
<1>1. ExpiryInit => ExpiryInv
  BY ExpiryInitInv
<1>2. ExpiryInv /\ [ExpiryNext]_everyVar => ExpiryInv'
  BY ExpiryNextKeeps
<1>3. QED
  BY <1>1, <1>2, PTL DEF ExpirySpec

\* Rows, copies and what the nightly task holds keep their types, and the task has
\* a server in hand exactly while it saves one.
THEOREM ExpiryTypeCorrect == ExpirySpec => []ExpiryTypeOK
<1>1. ExpiryInv => ExpiryTypeOK
  BY DEF ExpiryInv
<1>2. QED
  BY <1>1, ExpiryInvariant, PTL

\* The nightly task (stop_expired) takes no server before the days it was
\* ordered with have passed, whatever overlaps; in an orderly history none
\* before those granted by extensions have.
THEOREM StopsOnlyRunOut == ExpirySpec => []RunOutOnly
<1>1. ExpiryInv => RunOutOnly
  <2> SUFFICES ASSUME ExpiryInv, NEW s \in Servers, Doomed(s)
               PROVE  /\ age[s] > PlanDays
                      /\ Orderly => age[s] > PlanDays + granted[s]
    BY DEF RunOutOnly
  <2>1. task \in Stopping /\ list[s] # None
    BY DEF Doomed, Stopping
  <2>2. age[s] > PlanDays /\ db[s] # None
    BY <2>1 DEF ExpiryInv, ListInv
  <2>3. ASSUME Orderly PROVE age[s] > PlanDays + granted[s]
    <3>1. age[s] > db[s].days
      BY <2>1, <2>3 DEF ExpiryInv, OrderlyInv, OrderlyList
    <3>2. db[s].days = PlanDays + granted[s]
      BY <2>2, <2>3, OrderlyDays DEF ExpiryInv, OrderlyInv
    <3>3. QED
      BY <3>1, <3>2
  <2>4. QED
    BY <2>2, <2>3
<1>2. QED
  BY <1>1, ExpiryInvariant, PTL

\* In an orderly history nobody's server is stopped before a reminder, or a
\* night that missed it: notify's and stop_expired's queries leave no gap.
THEOREM RemindedBeforeStopped == ExpirySpec => []WarnedFirst
<1>1. ExpiryInv => WarnedFirst
  <2> SUFFICES ASSUME ExpiryInv, NEW s \in Servers, Orderly, PlanDays # 0, Doomed(s),
                      warned[s] = "not yet"
               PROVE  FALSE
    BY DEF WarnedFirst
  <2>1. task \in Stopping /\ list[s] # None
    BY DEF Doomed, Stopping
  <2>2. OrderlyList(s) /\ OrderlyWarned(s) /\ db[s] # None /\ db[s].days \in Nat /\ age[s] \in Nat
    BY <2>1, ExpiryTypes DEF ExpiryInv, OrderlyInv, ListInv
  <2>3. age[s] > db[s].days
    BY <2>1, <2>2 DEF OrderlyList
  <2>4. age[s] <= db[s].days
    BY <2>2 DEF OrderlyWarned
  <2>5. ~(age[s] <= db[s].days)
    BY <2>2, <2>3, NotLess
  <2>6. QED
    BY <2>4, <2>5
<1>2. QED
  BY <1>1, ExpiryInvariant, PTL

\* In an orderly history the task's saves (ACTIVE servers stopped, failed ones
\* marked) bring back no row that names a VM that is not there.
THEOREM NightsKeepVms == ExpirySpec => []CalmVmsExist
<1>1. ExpiryInv => CalmVmsExist
  BY VmsKept DEF ExpiryInv, OrderlyInv, CalmVmsExist
<1>2. QED
  BY <1>1, ExpiryInvariant, PTL

\* The task's saves of whole entities, however late, take no size away from a
\* server that was answered with 200.
THEOREM NightsKeepSizes == ExpirySpec => []OrderedSizesKept
<1>1. ExpiryInv => OrderedSizesKept
  BY SizesKept DEF ExpiryInv
<1>2. QED
  BY <1>1, ExpiryInvariant, PTL

\* In an orderly history the ledger, the rows, the VMs and the days granted
\* stay in step through all nights, crashes and restarts.
THEOREM NightsKeepInStep ==
    ExpirySpec => [](Orderly => PaidUpgradesDelivered /\ RowNeverAhead /\ DaysAsGranted)
<1>1. ExpiryInv => (Orderly => PaidUpgradesDelivered /\ RowNeverAhead /\ DaysAsGranted)
  BY BilledDelivered, RowsBehind, DaysStated DEF ExpiryInv, OrderlyInv
<1>2. QED
  BY <1>1, ExpiryInvariant, PTL

==============================================================================
