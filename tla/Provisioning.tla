---------------------------- MODULE Provisioning ----------------------------
(***************************************************************************)
(* POST /servers: ProvisionServer.execute and the saga it hands over to,   *)
(* ServerProvisionOrchestrator.provision.  FastAPI runs each request in a  *)
(* worker thread, so the sagas of different requests interleave between    *)
(* any two database or HTTP calls.  Each saga works on its own in-memory   *)
(* Server entity; what others can see are the row and the VM.              *)
(***************************************************************************)
EXTENDS ServerStore

VARIABLES
    pc,         \* the call each request is about to make, or how it ended
    ent,        \* the Server entity of each request
    loaded,     \* the row its open database session has loaded, None if closed
    late        \* HTTP requests the caller gave up on that may still be served

sagaVars == <<pc, ent, loaded, late>>
vars == <<storeVars, sagaVars>>

\* Calls of ServerRepository.update: "mark" saves PROVISIONING, "ready" the
\* finished server, "delay" the FAILED of a timeout, "undo" the ROLLED_BACK
\* and "fail" the FAILED of any other exception.
Saves == {"mark", "ready", "delay", "undo", "fail"}

\* Calls of the Proxmox client.
Calls == {"create", "config", "password", "status", "rollback"}

\* Everything is saved, and what is left is to answer: after "accept" with the
\* server, after "refuse" with the ValueError of the saga's own handlers.
Answering == {"accept", "refuse"}

\* "returned" answered 200, "errored" that ValueError, "raised" an exception
\* that escaped the handlers, "lost" a dead process.
Ends == {"returned", "errored", "raised", "lost"}

Requests == {"create", "destroy"} \X Servers \X Hosts

TypeOK ==
    /\ StoreTypeOK
    /\ pc \in [Servers -> {"new", "insert"} \cup Saves \cup Calls \cup Answering \cup Ends]
    /\ ent \in [Servers -> Row \cup {None}]
    /\ loaded \in [Servers -> Row \cup {None}]
    /\ late \in SUBSET Requests

Init ==
    /\ StoreInit
    /\ pc = [s \in Servers |-> "new"]
    /\ ent = [s \in Servers |-> None]
    /\ loaded = [s \in Servers |-> None]
    /\ late = {}

InFlight == {s \in Servers : pc[s] \notin {"new"} \cup Ends}

\* Where the entity of s places its VM: before and after it knows the id.
Target(s) == SlotOf(s, ent[s].host)
NamedSlot(s) == <<ent[s].host, ent[s].ext>>

\* The two handlers of provision: "delay" for httpx.TimeoutException, which
\* marks the entity at once, and "rollback" for any other exception.
Caught(s, handler) ==
    /\ pc' = [pc EXCEPT ![s] = handler]
    /\ ent' = IF handler = "delay" THEN [ent EXCEPT ![s] = WithStatus(@, "failed")] ELSE ent

Handlers == {"delay", "rollback"}

(***************************************************************************)
(* The request up to its row                                               *)
(***************************************************************************)

\* Plan and host are resolved; a plan without a registered host is refused
\* before anything has been written.
Resolve(s, h) ==
    /\ pc[s] = "new"
    /\ h \in hosts
    /\ pc' = [pc EXCEPT ![s] = "insert"]
    /\ ent' = [ent EXCEPT ![s] = NewServer(h)]
    /\ UNCHANGED <<storeVars, loaded, late>>

\* Mutant of Insert: the entity gets its identifier before Proxmox has accepted it.
EarlyId(s) ==
    /\ pc[s] = "insert"
    /\ db' = [db EXCEPT ![s] = ent[s]]
    /\ ent' = [ent EXCEPT ![s] = WithExt(WithStatus(@, "provisioning"), VmidOf[s])]
    /\ pc' = [pc EXCEPT ![s] = "mark"]
    /\ UNCHANGED <<hosts, vms, loaded, late>>

\* server_repo.add; then provision sets PROVISIONING before its first call.
Insert(s) ==
    /\ pc[s] = "insert"
    /\ db' = [db EXCEPT ![s] = ent[s]]
    /\ ent' = [ent EXCEPT ![s] = WithStatus(@, "provisioning")]
    /\ pc' = [pc EXCEPT ![s] = "mark"]
    /\ UNCHANGED <<hosts, vms, loaded, late>>

\* Mutant of InsertFails: the error is swallowed, the saga goes on without a row.
SwallowInsertError(s) ==
    /\ pc[s] = "insert"
    /\ pc' = [pc EXCEPT ![s] = "create"]
    /\ UNCHANGED <<storeVars, ent, loaded, late>>

\* The INSERT raises outside the saga's try: nothing exists, nothing is undone.
InsertFails(s) ==
    /\ pc[s] = "insert"
    /\ pc' = [pc EXCEPT ![s] = "raised"]
    /\ UNCHANGED <<storeVars, ent, loaded, late>>

(***************************************************************************)
(* ServerRepository.update: load the row, assign every column, commit      *)
(***************************************************************************)

OpenSession(s) ==
    /\ pc[s] \in Saves
    /\ loaded[s] = None
    /\ loaded' = [loaded EXCEPT ![s] = db[s]]
    /\ UNCHANGED <<storeVars, pc, ent, late>>

\* Mutant of NextAfter: the timeout handler returns instead of raising.
TimeoutAccepted == [mark |-> "create", ready |-> "accept", delay |-> "accept",
                    undo |-> "fail", fail |-> "refuse"]

\* What follows a save that succeeded.
NextAfter == [mark |-> "create", ready |-> "accept", delay |-> "refuse",
              undo |-> "fail", fail |-> "refuse"]

\* Mutant of Commit: the session stays open for the saga's next save.
CommitKeepsSession(s) ==
    /\ pc[s] \in Saves
    /\ loaded[s] # None
    /\ db' = [db EXCEPT ![s] = Flush(@, loaded[s], ent[s])]
    /\ pc' = [pc EXCEPT ![s] = NextAfter[pc[s]]]
    /\ ent' = IF pc[s] = "undo" THEN [ent EXCEPT ![s] = WithStatus(@, "failed")] ELSE ent
    /\ UNCHANGED <<hosts, vms, loaded, late>>

Commit(s) ==
    /\ pc[s] \in Saves
    /\ loaded[s] # None
    /\ db' = [db EXCEPT ![s] = Flush(@, loaded[s], ent[s])]
    /\ loaded' = [loaded EXCEPT ![s] = None]
    /\ pc' = [pc EXCEPT ![s] = NextAfter[pc[s]]]
    /\ ent' = IF pc[s] = "undo" THEN [ent EXCEPT ![s] = WithStatus(@, "failed")] ELSE ent
    /\ UNCHANGED <<hosts, vms, late>>

\* Mutant of UpdateFails: a failed save is tried again for as long as it takes.
RetrySave(s) ==
    /\ pc[s] \in Saves
    /\ loaded' = [loaded EXCEPT ![s] = None]
    /\ UNCHANGED <<storeVars, pc, ent, late>>

\* A save raises (a locked database, say).  Inside the try it is one more
\* exception to roll back from; inside a handler it escapes.
UpdateFails(s) ==
    /\ pc[s] \in Saves
    /\ loaded' = [loaded EXCEPT ![s] = None]
    /\ pc' = [pc EXCEPT ![s] = IF pc[s] \in {"mark", "ready"} THEN "rollback" ELSE "raised"]
    /\ UNCHANGED <<storeVars, ent, late>>

(***************************************************************************)
(* ProxmoxClient.provision_server: create or clone, then PUT the config    *)
(***************************************************************************)

\* A clone has the sizes of its template until the config is written.
NewVm(s, cloned) ==
    [owner |-> s, run |-> "stopped", pw |-> 0,
     cpu |-> IF cloned THEN 0 ELSE PlanCpu,
     disk |-> IF cloned THEN 0 ELSE PlanDisk]

\* Proxmox refuses an identifier that is taken.
CreateVm(s, h, cloned) ==
    /\ vms[SlotOf(s, h)] = None
    /\ vms' = [vms EXCEPT ![SlotOf(s, h)] = NewVm(s, cloned)]

Create(s, cloned) ==
    /\ pc[s] = "create"
    /\ CreateVm(s, ent[s].host, cloned)
    /\ pc' = [pc EXCEPT ![s] = "config"]
    /\ UNCHANGED <<db, hosts, ent, loaded, late>>

\* No positive answer: refused, no node, login failed, connection lost, timed
\* out.  Unless it was refused, the request may be on its way.
CreateFails(s, handler, sent) ==
    /\ pc[s] = "create"
    /\ Caught(s, handler)
    /\ late' = IF sent THEN late \cup {<<"create", s, ent[s].host>>} ELSE late
    /\ UNCHANGED <<storeVars, loaded>>

\* Mutant of Configure: the config of a clone is not written.
ConfigureNameOnly(s) ==
    /\ pc[s] = "config"
    /\ vms[Target(s)] # None
    /\ ent' = [ent EXCEPT ![s] = WithExt(@, VmidOf[s])]
    /\ pc' = [pc EXCEPT ![s] = "password"]
    /\ UNCHANGED <<db, hosts, vms, loaded, late>>

\* Only now does the entity learn its external_id.
Configure(s) ==
    /\ pc[s] = "config"
    /\ vms[Target(s)] # None
    /\ vms' = [vms EXCEPT ![Target(s)] = WithSizes(@, PlanCpu, PlanDisk)]
    /\ ent' = [ent EXCEPT ![s] = WithExt(@, VmidOf[s])]
    /\ pc' = [pc EXCEPT ![s] = "password"]
    /\ UNCHANGED <<db, hosts, loaded, late>>

\* The PUT fails, whether or not it took effect: the exception leaves
\* provision_server before it returns the identifier.
ConfigureFails(s, handler, applied) ==
    /\ pc[s] = "config"
    /\ Caught(s, handler)
    /\ vms' = IF applied /\ vms[Target(s)] # None
              THEN [vms EXCEPT ![Target(s)] = WithSizes(@, PlanCpu, PlanDisk)] ELSE vms
    /\ UNCHANGED <<db, hosts, loaded, late>>

(***************************************************************************)
(* The rest of the try block                                               *)
(***************************************************************************)

\* set_admin_password; every failure is swallowed.
SetPassword(s, applied) ==
    /\ pc[s] = "password"
    /\ vms' = IF applied /\ vms[NamedSlot(s)] # None
              THEN [vms EXCEPT ![NamedSlot(s)] = WithPw(@, 1)] ELSE vms
    /\ pc' = [pc EXCEPT ![s] = "status"]
    /\ UNCHANGED <<db, hosts, ent, loaded, late>>

\* What get_server_status may yield: the run state, or None when it raised.
StatusAnswers(x) == {None} \cup (IF vms[x] = None THEN {} ELSE {vms[x].run})

\* Mutant of StatusToSave: no default for a word the mapping does not know.
BareStatus(answer) == MapProxmoxStatus(answer)

\* The mapped status, STOPPED when there is none.
StatusToSave(answer) ==
    IF MapProxmoxStatus(answer) = None THEN "stopped" ELSE MapProxmoxStatus(answer)

ReadStatus(s) ==
    /\ pc[s] = "status"
    /\ \E answer \in StatusAnswers(NamedSlot(s)) :
          ent' = [ent EXCEPT ![s] = WithStatus(@, StatusToSave(answer))]
    /\ pc' = [pc EXCEPT ![s] = "ready"]
    /\ UNCHANGED <<storeVars, loaded, late>>

(***************************************************************************)
(* _rollback                                                               *)
(***************************************************************************)

\* It destroys only what has an external_id on a host still registered.
CanDestroy(s) == ent[s].ext # None /\ ent[s].host \in hosts

RolledBack(s) ==
    /\ ent' = [ent EXCEPT ![s] = WithStatus(@, "rolled_back")]
    /\ pc' = [pc EXCEPT ![s] = "undo"]

RollbackSkips(s) ==
    /\ pc[s] = "rollback"
    /\ ~CanDestroy(s)
    /\ RolledBack(s)
    /\ UNCHANGED <<storeVars, loaded, late>>

RollbackDestroys(s) ==
    /\ pc[s] = "rollback"
    /\ CanDestroy(s)
    /\ vms' = [vms EXCEPT ![NamedSlot(s)] = None]
    /\ RolledBack(s)
    /\ UNCHANGED <<db, hosts, loaded, late>>

\* destroy_server raises (Proxmox refuses to delete a running VM, or no
\* answer comes): the exception replaces the one being handled and escapes.
RollbackFails(s, sent) ==
    /\ pc[s] = "rollback"
    /\ CanDestroy(s)
    /\ pc' = [pc EXCEPT ![s] = "raised"]
    /\ late' = IF sent THEN late \cup {<<"destroy", s, ent[s].host>>} ELSE late
    /\ UNCHANGED <<storeVars, ent, loaded>>

(***************************************************************************)
(* The answer                                                              *)
(***************************************************************************)

\* Mutant of Answer: the SMS before the answer raises inside the try.
AnswerRaises(s) ==
    /\ pc[s] \in Answering
    /\ pc' = [pc EXCEPT ![s] = IF @ = "accept" THEN "rollback" ELSE "errored"]
    /\ UNCHANGED <<storeVars, ent, loaded, late>>

\* The SMS, which the stub in src/ only logs, and the response of the route.
Answer(s) ==
    /\ pc[s] \in Answering
    /\ pc' = [pc EXCEPT ![s] = IF @ = "accept" THEN "returned" ELSE "errored"]
    /\ UNCHANGED <<storeVars, ent, loaded, late>>

(***************************************************************************)
(* The surroundings                                                        *)
(***************************************************************************)

\* A request nobody waits for reaches the hypervisor after all.
LateCreate(s, h, cloned) ==
    /\ <<"create", s, h>> \in late
    /\ CreateVm(s, h, cloned)
    /\ late' = late \ {<<"create", s, h>>}
    /\ UNCHANGED <<db, hosts, pc, ent, loaded>>

LateDestroy(s, h) ==
    /\ <<"destroy", s, h>> \in late
    /\ vms' = [vms EXCEPT ![SlotOf(s, h)] = None]
    /\ late' = late \ {<<"destroy", s, h>>}
    /\ UNCHANGED <<db, hosts, pc, ent, loaded>>

\* What a request may have sent without having read the answer.
Unanswered ==
    {<<"create", s, ent[s].host>> : s \in {t \in InFlight : pc[t] = "create"}}
    \cup {<<"destroy", s, ent[s].host>> :
             s \in {t \in InFlight : pc[t] = "rollback" /\ CanDestroy(t)}}

\* The process dies with every request in it; nothing resumes them.
Crash(sent) ==
    /\ pc' = [s \in Servers |-> IF s \in InFlight THEN "lost" ELSE pc[s]]
    /\ loaded' = [s \in Servers |-> None]
    /\ late' = late \cup sent
    /\ UNCHANGED <<storeVars, ent>>

SagaStep(s) ==
    \/ Insert(s)
    \/ InsertFails(s)
    \/ OpenSession(s)
    \/ Commit(s)
    \/ UpdateFails(s)
    \/ \E cloned \in BOOLEAN : Create(s, cloned)
    \/ \E handler \in Handlers, sent \in BOOLEAN : CreateFails(s, handler, sent)
    \/ Configure(s)
    \/ \E handler \in Handlers, applied \in BOOLEAN : ConfigureFails(s, handler, applied)
    \/ \E applied \in BOOLEAN : SetPassword(s, applied)
    \/ ReadStatus(s)
    \/ RollbackSkips(s)
    \/ RollbackDestroys(s)
    \/ \E sent \in BOOLEAN : RollbackFails(s, sent)
    \/ Answer(s)

Surroundings ==
    \/ \E s \in Servers, h \in Hosts, cloned \in BOOLEAN : LateCreate(s, h, cloned)
    \/ \E s \in Servers, h \in Hosts : LateDestroy(s, h)
    \/ \E h \in Hosts : (AddHost(h) \/ DeleteHost(h)) /\ UNCHANGED sagaVars
    \/ \E x \in Slots, run \in RunStates : Drift(x, run) /\ UNCHANGED sagaVars

Next ==
    \/ \E s \in Servers, h \in Hosts : Resolve(s, h)
    \/ \E s \in Servers : SagaStep(s)
    \/ \E sent \in SUBSET Unanswered : Crash(sent)
    \/ Surroundings

\* A thread that has started a request keeps running.  A locked database gives
\* up after 5 seconds; httpx gives up after 10 without a byte, which ends every
\* call unless Proxmox goes on sending its answer in drops for ever.
Fairness == \A s \in Servers : WF_vars(SagaStep(s))

Spec == Init /\ [][Next]_vars /\ Fairness

(***************************************************************************)
(* Properties                                                              *)
(***************************************************************************)

\* It shows an external_id as anything but a failure.
Published(r) == r # None /\ r.ext # None /\ r.status \notin {"failed", "rolled_back"}

\* A row that shows an external_id as anything but a failure names a VM that
\* exists and was created for this very server, even when another request
\* derives the same identifier, rolls back, or the process dies (the order of
\* the calls in provision, and destroy_server only for what it created).
PublishedVmExists == \A s \in Servers : Published(db[s]) => NamesOwnVm(db[s], s)

\* A client that got its 200 has a row that names its VM, and that VM has the
\* sizes the row states, also when it was cloned from a template of another
\* size (the config PUT of provision_server).
AcceptedAsOrdered ==
    \A s \in Servers :
        pc[s] = "returned" =>
            /\ NamesOwnVm(db[s], s)
            /\ vms[<<db[s].host, db[s].ext>>].cpu = db[s].cpu
            /\ vms[<<db[s].host, db[s].ext>>].disk = db[s].disk

\* Whatever fails and whenever, a VM that exists, or may still come into being
\* from a request nobody waits for, has a row with the host it is on: an
\* operator can find it (the row is inserted before the saga starts).
EveryVmHasRow ==
    /\ \A x \in Slots :
          vms[x] # None => db[vms[x].owner] # None /\ db[vms[x].owner].host = x[1]
    /\ \A r \in late : db[r[2]] # None /\ db[r[2]].host = r[3]

MayLose(s, x) ==
    /\ pc[s] = "rollback" \/ <<"destroy", s, x[1]>> \in late
    /\ ~Published(db[s])

\* A VM disappears only by the rollback of the request it was created for, and
\* never once the row shows it, even when the answer was lost in a crash
\* (_rollback destroys by identifier alone, and identifiers can collide).
DestroysOnlyItsOwn ==
    [][\A x \in Slots :
          vms[x] # None /\ vms'[x] = None => MayLose(vms[x].owner, x)]_vars

\* Every request that started ends: with an answer, an escaped exception or
\* the death of the process; no handler leads back into the saga.
RequestsSettle ==
    \A s \in Servers : pc[s] = "insert" ~> pc[s] \in Ends

\* What a customer is promised, and how it shows in this state.
Listed(s) ==
    IF db[s] = None THEN "absent"
    ELSE IF db[s].status \in {"failed", "rolled_back"} THEN "failed"
    ELSE IF db[s].ext = None THEN "waiting"
    ELSE "live"

Reply(s) ==
    CASE pc[s] = "accept" -> "due"
      [] pc[s] = "returned" -> "accepted"
      [] pc[s] \in {"errored", "raised"} -> "refused"
      [] pc[s] = "lost" -> "lost"
      [] OTHER -> "none"

Promise == INSTANCE OrderPromise
    WITH Orders <- Servers,
         listed <- [s \in Servers |-> Listed(s)],
         machines <- {s \in Servers : HasVm(s)},
         reply <- [s \in Servers |-> Reply(s)]

\* The saga implements the promise: table, hypervisor and answer move together
\* as OrderPromise says they may.
PromiseKept == Promise!Spec

(***************************************************************************)
(* The inductive invariant: what each step of the saga relies on           *)
(***************************************************************************)

\* The steps before the first request to the hypervisor, those whose row still
\* shows the server being built, those that know the VM's identifier, and those
\* after an exception or a crash.
Untouched == {"new", "insert", "mark", "create"}
Building == {"mark", "create", "config", "password", "status", "ready",
             "rollback", "delay", "undo"}
Completed == {"accept", "returned"}
Named == {"password", "status", "ready", "accept", "returned"}
GivenUp == {"rollback", "delay", "undo", "fail", "refuse", "errored", "raised", "lost"}

OwnVm(s) == vms[Target(s)] # None /\ vms[Target(s)].owner = s

EntityInv(s) ==
    /\ pc[s] # "new" => ent[s] # None
    /\ ent[s] # None => /\ ent[s].ext \in {None, VmidOf[s]}
                       /\ ent[s].cpu = PlanCpu
                       /\ ent[s].disk = PlanDisk
    /\ pc[s] \in {"insert", "mark", "create", "config"} => ent[s].ext = None
    /\ pc[s] \in Named => ent[s].ext = VmidOf[s]
    /\ pc[s] \in {"delay", "fail"} => ent[s].status = "failed"
    /\ pc[s] = "undo" => ent[s].status = "rolled_back"
    /\ pc[s] = "insert" => ent[s].status = "pending"
    /\ pc[s] = "mark" => ent[s].status = "provisioning"

RowInv(s) ==
    /\ pc[s] \in {"new", "insert"} => db[s] = None
    /\ pc[s] \notin {"new", "insert", "raised", "lost"} => db[s] # None
    /\ db[s] # None => /\ ent[s] # None
                      /\ db[s].host = ent[s].host
                      /\ db[s].ext \in {None, VmidOf[s]}
    /\ pc[s] \in Building =>
          db[s].ext = None /\ db[s].status \in {"pending", "provisioning"}
    /\ Published(db[s]) => pc[s] \in Completed \cup {"lost"}
    /\ pc[s] \in Completed => db[s] = ent[s]
    /\ pc[s] = "fail" => db[s].status = "rolled_back"
    /\ loaded[s] # None => pc[s] \in Saves /\ loaded[s] = db[s]

VmInv(s) ==
    /\ pc[s] \in Named \cup {"config"} => OwnVm(s)
    /\ pc[s] = "rollback" /\ ent[s].ext # None => OwnVm(s)
    /\ pc[s] \in Named => /\ vms[Target(s)].cpu = PlanCpu
                          /\ vms[Target(s)].disk = PlanDisk

\* Every VM stands where its owner's entity says, and its row is there.
PlacementInv ==
    \A x \in Slots :
        vms[x] # None => LET s == vms[x].owner
                         IN  db[s] # None /\ pc[s] \notin Untouched /\ x = Target(s)

\* A create given up on belongs to a request that never learnt its identifier,
\* a destroy given up on still has its own VM in front of it.
Accounted(r) ==
    LET s == r[2]
    IN  /\ db[s] # None /\ pc[s] \in GivenUp /\ r[3] = ent[s].host
        /\ r[1] = "destroy" => pc[s] \in {"raised", "lost"} /\ OwnVm(s)

LateInv == \A r \in late : Accounted(r)

\* A server whose row shows its VM has it, and no request given up on is about
\* it, even when its own saga died before it could answer.
SeenInv(s) == Published(db[s]) => OwnVm(s) /\ \A r \in late : r[2] # s

SagaInv ==
    /\ TypeOK
    /\ \A s \in Servers : EntityInv(s) /\ RowInv(s) /\ VmInv(s) /\ SeenInv(s)
    /\ PlacementInv
    /\ LateInv

(***************************************************************************)
(* What the documentation says and the code does not do                    *)
(***************************************************************************)

\* "Rolls back the Proxmox resource when any step fails"
\* (server_orchestrator.py:19): a row marked ROLLED_BACK has no VM left.
RollbackRemovesVm ==
    \A s \in Servers : db[s] # None /\ db[s].status = "rolled_back" => ~HasVm(s)

==============================================================================
